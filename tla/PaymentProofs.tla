--------------------------- MODULE PaymentProofs ---------------------------
(* Proofs about what is paid for.  The payment rail: the counter of a       *)
(* payer's day is the sum of what is reserved in it, the calls that took    *)
(* money are among those that hold a reservation, and what stands in a      *)
(* receipt, or was read from one, stays true of the call and the chain.     *)
(* Offers: what is quoted, paid and delivered.  The gateway: what a request *)
(* meets before it is served.                                               *)
EXTENDS X402Accept, Quotes, Gateway, DataFacts

Stages == {"idle", "verified", "reserved", "retrying", "releasing", "settled", "recorded",
           "delivered"}
Answers == {"none", "refused", "unavailable", "unknown", "pending", "failed", "abandoned",
            "served"}

Types ==
  /\ day \in Days
  /\ payload \in [Calls -> Payloads]
  /\ stage \in [Calls -> Stages]
  /\ answer \in [Calls -> Answers]
  /\ reservedOn \in [Calls -> Days]
  /\ at \in [Calls -> Calls \cup {NoCall}]
  /\ persisted \in [Calls -> BOOLEAN]
  /\ spend \in [Payers \X Days -> Nat]
  /\ receipts \in [Calls -> Receipts \cup {NoReceipt}]
  /\ read \in [Calls -> Receipts \cup {NoReceipt}]
  /\ chain \in [Payloads -> {"unused", "queued", "sent", "confirmed", "failed"}]
  /\ takenBy \in [Payloads -> Calls \cup {NoCall}]
  /\ lostReplies \in Nat

(* What the counter of a day says, against what is reserved in it. *)
Allowance ==
  \A b \in Payers \X Days :
    /\ Reserved(b) <= spend[b] /\ spend[b] <= Cap
    /\ lostReplies = 0 => spend[b] = Reserved(b)

(* A call in doubt about its payment, or paid, holds its reservation. *)
Begun(c) == stage[c] \notin {"idle", "verified"}
Takers ==
  /\ \A c \in Calls : Begun(c) => PayerOf[payload[c]] \in Payers
  /\ \A p \in Payloads :
       /\ takenBy[p] = NoCall <=> chain[p] = "unused"
       /\ takenBy[p] # NoCall =>
            /\ payload[takenBy[p]] = p /\ Begun(takenBy[p])
            /\ chain[p] # "failed" =>
                 stage[takenBy[p]] # "releasing" /\ answer[takenBy[p]] # "refused"

(* What a receipt says is so. *)
True(r) ==
  r # NoReceipt =>
    /\ r.delivered => stage[r.writer] = "delivered"
    /\ r.confirmation \in {"confirmed", "failed"} => r.confirmation = chain[payload[r.writer]]
Evidence == \A k \in Calls : True(receipts[k]) /\ True(read[k])

(* Every call has a key of its own. *)
Own(r, k) == r # NoReceipt => r.writer = k
OwnKeys ==
  /\ \A c \in Calls : at[c] \in {c, NoCall}
  /\ \A c \in Calls : stage[c] \in {"recorded", "delivered"} => at[c] = c
  /\ \A k \in Calls : Own(receipts[k], k) /\ Own(read[k], k)
  /\ RecordStands /\ ServedIsAccountable

RailInv == Types /\ Allowance /\ Takers /\ Evidence

-----------------------------------------------------------------------------
(* Types *)

LEMMA TypesInit ==
  ASSUME Init
  PROVE  Types
  BY X402Constants DEF Init, Types, Days, Stages, Answers

LEMMA WritesType ==
  ASSUME Types, NEW k \in Calls, NEW r \in Receipts, NEW ok \in BOOLEAN, Writes(k, r, ok)
  PROVE  receipts' \in [Calls -> Receipts \cup {NoReceipt}]
  BY DEF Types, Writes

LEMMA ObligationType ==
  ASSUME NEW c \in Calls
  PROVE  Obligation(c) \in Receipts /\ [Obligation(c) EXCEPT !.delivered = TRUE] \in Receipts
  BY DEF Obligation, Receipts

LEMMA TypesStep ==
  ASSUME Types, Takers, [Next]_vars
  PROVE  Types'
  <1> USE DEF request, counter, store, reconciliation, transfers
  <1>1. ASSUME NEW c \in Calls, Verify(c) PROVE Types'
    BY <1>1 DEF Types, Stages, Answers, Verify, Reaches, Ends, Verdicts
  <1>2. ASSUME NEW c \in Calls, Reserve(c) PROVE Types'
    <2>1. /\ stage' \in [Calls -> Stages] /\ answer' \in [Calls -> Answers]
          /\ reservedOn' \in [Calls -> Days] /\ lostReplies' \in Nat
      BY <1>2 DEF Types, Stages, Answers, Reserve, Reaches, Ends, Lost
    <2>2. spend' \in [Payers \X Days -> Nat]
      <3>1. Amount[payload[c]] \in Nat
        BY X402Constants DEF Types
      <3>2. spend' = spend \/ Charge(<<PayerOf[payload[c]], day>>, Amount[payload[c]])
        BY <1>2 DEF Reserve
      <3> DEFINE b == <<PayerOf[payload[c]], day>>
                 n == Amount[payload[c]]
      <3>3. spend \in [Payers \X Days -> Nat]
        BY DEF Types
      <3>4. n \in Nat /\ (spend' = spend \/ spend' = [spend EXCEPT ![b] = @ + n])
        BY <3>1, <3>2 DEF Charge
      <3> HIDE DEF b, n
      <3> QED BY <3>3, <3>4
    <2> QED BY <1>2, <2>1, <2>2 DEF Types, Reserve
  <1>3. ASSUME NEW c \in Calls, Settle(c) PROVE Types'
    <2>1. stage' \in [Calls -> Stages] /\ answer' \in [Calls -> Answers]
      <3>1. \/ Reaches(c, "retrying")
            \/ \E reply \in Replies : Settled(c, reply)
        BY <1>3 DEF Settle
      <3> QED BY <3>1 DEF Types, Stages, Answers, Reaches, Ends, Settled, Replies
    <2>2. PICK reply \in Replies : Facilitates(c, reply)
      BY <1>3 DEF Settle, Replies
    <2>3. /\ chain' \in [Payloads -> {"unused", "queued", "sent", "confirmed", "failed"}]
          /\ takenBy' \in [Payloads -> Calls \cup {NoCall}]
      BY <2>2 DEF Types, Facilitates
    <2> QED BY <1>3, <2>1, <2>3 DEF Types, Settle
  <1>4. ASSUME NEW c \in Calls, Release(c) PROVE Types'
    <2>1. Amount[payload[c]] \in Nat
      BY X402Constants DEF Types
    <2>2. spend' = spend \/ Releases(Bucket(c), Amount[payload[c]])
      BY <1>4 DEF Release, ReleaseBucket
    <2>3. spend' \in [Payers \X Days -> Nat]
      BY <2>1, <2>2 DEF Types, Releases
    <2>4. answer' \in [Calls -> Answers] /\ lostReplies' \in Nat /\ stage' = stage
      BY <1>4 DEF Types, Release, Ends, Answers, Lost
    <2> QED BY <1>4, <2>3, <2>4 DEF Types, Release
  <1>5. ASSUME NEW c \in Calls, Record(c) PROVE Types'
    <2>1. PICK k \in KeysOf(c), ok \in BOOLEAN :
            /\ Writes(k, Obligation(c), ok) /\ at' = [at EXCEPT ![c] = k]
            /\ persisted' = [persisted EXCEPT ![c] = Recorded(ok)]
      BY <1>5 DEF Record
    <2>2. k \in Calls
      BY <2>1 DEF KeysOf
    <2>3. receipts' \in [Calls -> Receipts \cup {NoReceipt}]
      BY <2>1, <2>2, WritesType, ObligationType
    <2>4. at' \in [Calls -> Calls \cup {NoCall}] /\ persisted' \in [Calls -> BOOLEAN]
      BY <2>1, <2>2 DEF Types, Recorded
    <2> QED BY <1>5, <2>3, <2>4 DEF Types, Record, Reaches, Stages
  <1>6. ASSUME NEW c \in Calls, Deliver(c) PROVE Types'
    BY <1>6 DEF Types, Deliver, Reaches, Ends, Stages, Answers
  <1>7. ASSUME NEW c \in Calls, Correct(c) PROVE Types'
    <2>1. PICK ok \in BOOLEAN :
            /\ Writes(at[c], [Obligation(c) EXCEPT !.delivered = TRUE], ok)
            /\ persisted' = [persisted EXCEPT ![c] = ok \/ persisted[c]]
      BY <1>7 DEF Correct
    <2>2. receipts' \in [Calls -> Receipts \cup {NoReceipt}]
      BY <2>1, ObligationType DEF Types, Writes
    <2>3. persisted' \in [Calls -> BOOLEAN]
      BY <2>1 DEF Types
    <2> QED BY <1>7, <2>2, <2>3 DEF Types, Correct, Ends, Answers
  <1>8. ASSUME NEW c \in Calls, Abandon(c) PROVE Types'
    BY <1>8 DEF Types, Abandon, Ends, Answers
  <1>9. ASSUME NEW p \in Payloads, ChainMoves(p) PROVE Types'
    BY <1>9 DEF Types, ChainMoves
  <1>10. ASSUME ReconcileLists PROVE Types'
    BY <1>10 DEF Types, ReconcileLists
  <1>11. ASSUME NEW k \in Calls, ReconcileReads(k) PROVE Types'
    BY <1>11 DEF Types, ReconcileReads
  <1>12. ASSUME NEW k \in Calls, ReconcileChecks(k) PROVE Types'
    <2>1. read[k] \in Receipts
      BY <1>12 DEF Types, ReconcileChecks
    <2>2. PICK s \in StatusOf(payload[read[k].writer]) :
            \/ \E ok \in BOOLEAN : Writes(k, Checked(read[k], s), ok)
            \/ UNCHANGED receipts
      BY <1>12 DEF ReconcileChecks
    <2>3. Checked(read[k], s) \in Receipts
      BY <2>1, <2>2 DEF Checked, StatusOf, Receipts
    <2>4. receipts' \in [Calls -> Receipts \cup {NoReceipt}]
      BY <2>2, <2>3, WritesType DEF Types
    <2> QED BY <1>12, <2>4 DEF Types, ReconcileChecks
  <1>13. ASSUME Midnight PROVE Types'
    BY <1>13, X402Constants DEF Types, Midnight, Days
  <1>14. ASSUME UNCHANGED vars PROVE Types'
    BY <1>14 DEF Types, vars
  <1> QED BY <1>1, <1>2, <1>3, <1>4, <1>5, <1>6, <1>7, <1>8, <1>9, <1>10, <1>11, <1>12,
             <1>13, <1>14 DEF Next

-----------------------------------------------------------------------------
(* The payer's allowance *)

Prices == [c \in Calls |-> Amount[payload[c]]]

LEMMA HeldFacts ==
  ASSUME Types, NEW b
  PROVE  /\ IsFiniteSet(HeldIn(b)) /\ HeldIn(b) \subseteq Calls
         /\ \A c \in Calls : Prices[c] \in Nat
         /\ Reserved(b) = Total(Prices, HeldIn(b)) /\ Reserved(b) \in Nat
  <1>1. IsFiniteSet(HeldIn(b)) /\ HeldIn(b) \subseteq Calls
    BY X402Constants, FS_Subset DEF HeldIn
  <1>2. \A c \in Calls : Prices[c] \in Nat
    BY X402Constants DEF Types, Prices
  <1>3. Total(Prices, HeldIn(b)) \in Nat
    BY <1>1, <1>2, UnitsFinite
  <1> QED BY <1>1, <1>2, <1>3 DEF Reserved, Prices

(* A step after which the same calls hold the same reservations. *)
LEMMA AllowanceStands ==
  ASSUME Types, Allowance, UNCHANGED <<spend, lostReplies, payload>>,
         \A c \in Calls : Held(c)' <=> Held(c),
         \A c \in Calls : Held(c) => reservedOn'[c] = reservedOn[c]
  PROVE  Allowance'
  <1>1. ASSUME NEW b \in Payers \X Days PROVE HeldIn(b)' = HeldIn(b)
    BY DEF HeldIn, Bucket
  <1>2. ASSUME NEW b \in Payers \X Days PROVE Reserved(b)' = Reserved(b)
    BY <1>1 DEF Reserved
  <1> QED BY <1>2 DEF Allowance

(* A call that goes on as it was, holding or not. *)
LEMMA HeldStays ==
  ASSUME Types, NEW c \in Calls, answer[c] = "none",
         \/ /\ stage[c] \notin {"idle", "verified"}
            /\ \/ Reaches(c, "retrying") \/ Reaches(c, "releasing") \/ Reaches(c, "settled")
               \/ Reaches(c, "recorded") \/ Reaches(c, "delivered")
               \/ \E a \in Answers \ {"refused"} : Ends(c, a)
         \/ /\ stage[c] \in {"idle", "verified"}
            /\ Reaches(c, "verified") \/ \E a \in Answers : Ends(c, a)
  PROVE  \A d \in Calls : Held(d)' <=> Held(d)
  BY DEF Types, Held, Reaches, Ends

LEMMA AllowanceInit ==
  ASSUME Init
  PROVE  Allowance
  <1>1. ASSUME NEW b \in Payers \X Days PROVE HeldIn(b) = {}
    BY DEF Init, HeldIn, Held
  <1>2. ASSUME NEW b \in Payers \X Days PROVE Reserved(b) = 0
    BY <1>1, TotalEmpty DEF Reserved
  <1> QED BY <1>2, X402Constants DEF Init, Allowance

(* What is reserved is counted in the same step. *)
LEMMA ReserveKeeps ==
  ASSUME Types, Allowance, NEW c \in Calls, Reserve(c)
  PROVE  Allowance'
  <1> DEFINE who == PayerOf[payload[c]]
             n == Amount[payload[c]]
  <1> PICK b : b = <<who, day>>
    OBVIOUS
  <1>0. /\ stage[c] = "verified" /\ answer[c] = "none" /\ ~Held(c) /\ n \in Nat \ {0}
        /\ stage \in [Calls -> Stages] /\ answer \in [Calls -> Answers]
        /\ reservedOn \in [Calls -> Days] /\ spend \in [Payers \X Days -> Nat]
        /\ payload' = payload /\ lostReplies \in Nat /\ Cap \in Nat
        /\ who # NoPayer => b \in Payers \X Days
    BY X402Constants DEF Types, Reserve, Awaits, Held, request
  <1>1. CASE Ends(c, "refused") /\ UNCHANGED <<spend, lostReplies, reservedOn>>
    <2>1. \A d \in Calls : Held(d)' <=> Held(d)
      BY <1>0, <1>1 DEF Held, Ends
    <2> QED BY <1>0, <1>1, <2>1, AllowanceStands
  <1>2. CASE /\ who # NoPayer /\ Admits(b, n) /\ Charge(b, n) /\ Reaches(c, "reserved")
             /\ reservedOn' = [reservedOn EXCEPT ![c] = day] /\ UNCHANGED lostReplies
    <2>1. spend' = [spend EXCEPT ![b] = @ + n] /\ spend[b] + n <= Cap
      BY <1>2 DEF Charge, Admits
    <2>2. \A d \in Calls : Held(d)' <=> (Held(d) \/ d = c)
      BY <1>0, <1>2 DEF Held, Reaches
    <2>3. Bucket(c)' = b
      BY <1>0, <1>2 DEF Bucket
    <2>4. \A d \in Calls \ {c} : Bucket(d)' = Bucket(d)
      BY <1>0, <1>2 DEF Bucket
    <2>5. HeldIn(b)' = HeldIn(b) \cup {c} /\ c \notin HeldIn(b)
      BY <1>0, <2>2, <2>3, <2>4 DEF HeldIn
    <2>6. Prices' = Prices /\ Prices[c] = n
      BY <1>0 DEF Prices
    <2> HIDE DEF n, who
    <2>7. Reserved(b)' = Reserved(b) + n
      <3>1. Total(Prices, HeldIn(b) \cup {c}) = Total(Prices, HeldIn(b)) + Prices[c]
        <4>1. \A d \in HeldIn(b) \cup {c} : Prices[d] \in Nat
          BY HeldFacts
        <4>2. IsFiniteSet(HeldIn(b)) /\ c \notin HeldIn(b)
          BY <2>5, HeldFacts
        <4> PICK f : f = Prices
          OBVIOUS
        <4>3. Total(f, HeldIn(b) \cup {c}) = Total(f, HeldIn(b)) + f[c]
          BY <4>1, <4>2, TotalAdds
        <4> QED BY <4>3
      <3>2. Reserved(b)' = Total(Prices', HeldIn(b)')
        BY DEF Reserved, Prices
      <3>3. Reserved(b) = Total(Prices, HeldIn(b))
        BY DEF Reserved, Prices
      <3> QED BY <2>5, <2>6, <3>1, <3>2, <3>3
    <2>8. ASSUME NEW e \in Payers \X Days, e # b PROVE Reserved(e)' = Reserved(e)
      <3>1. HeldIn(e)' = HeldIn(e)
        BY <1>0, <2>2, <2>3, <2>4, <2>8 DEF HeldIn
      <3> QED BY <1>0, <3>1 DEF Reserved
    <2>9. /\ b \in Payers \X Days /\ spend[b] \in Nat /\ spend'[b] = spend[b] + n
          /\ \A e \in Payers \X Days : e # b => spend'[e] = spend[e]
      BY <1>0, <1>2, <2>1
    <2>10. ASSUME NEW e \in Payers \X Days
           PROVE  /\ Reserved(e)' <= spend'[e] /\ spend'[e] <= Cap
                  /\ lostReplies = 0 => spend'[e] = Reserved(e)'
      <3>1. CASE e = b
        <4>1. Reserved(b) \in Nat /\ Reserved(b) <= spend[b]
          BY <2>9, HeldFacts DEF Allowance
        <4>2. lostReplies = 0 => spend[b] = Reserved(b)
          BY <2>9 DEF Allowance
        <4>3. Reserved(b)' <= spend'[b] /\ spend'[b] <= Cap
          BY <1>0, <2>1, <2>7, <2>9, <4>1
        <4>4. lostReplies = 0 => spend'[b] = Reserved(b)'
          BY <2>7, <2>9, <4>2
        <4> QED BY <3>1, <4>3, <4>4
      <3>2. CASE e # b
        BY <2>8, <2>9, <3>2 DEF Allowance
      <3> QED BY <3>1, <3>2
    <2> QED BY <1>2, <2>10 DEF Allowance
  <1>3. CASE /\ who # NoPayer /\ Lost /\ (Charge(b, n) \/ UNCHANGED spend)
             /\ Ends(c, "unavailable") /\ UNCHANGED reservedOn
    <2>1. \A d \in Calls : Held(d)' <=> Held(d)
      BY <1>0, <1>3 DEF Held, Ends
    <2>2. \A e \in Payers \X Days : Reserved(e)' = Reserved(e)
      <3>1. ASSUME NEW e \in Payers \X Days PROVE HeldIn(e)' = HeldIn(e)
        BY <1>0, <1>3, <2>1 DEF HeldIn, Bucket
      <3> QED BY <1>0, <3>1 DEF Reserved
    <2>3. lostReplies' # 0
      BY <1>0, <1>3 DEF Lost
    <2>4. ASSUME NEW e \in Payers \X Days
          PROVE  spend'[e] \in Nat /\ spend[e] <= spend'[e] /\ spend'[e] <= Cap
      <3>1. CASE UNCHANGED spend
        BY <1>0, <3>1 DEF Allowance
      <3>2. CASE Charge(b, n)
        <4> HIDE DEF n
        <4> QED BY <1>0, <3>2 DEF Allowance, Charge, Admits
      <3> QED BY <1>3, <3>1, <3>2
    <2>5. \A e \in Payers \X Days : Reserved(e) \in Nat /\ spend[e] \in Nat
      BY <1>0, HeldFacts
    <2> QED BY <2>2, <2>3, <2>4, <2>5 DEF Allowance
  <1>4. CASE /\ who # NoPayer /\ ~Admits(b, n) /\ Charge(b, n) /\ Ends(c, "refused")
             /\ UNCHANGED <<reservedOn, lostReplies>>
    BY <1>1, <1>4 DEF Charge
  <1> QED BY <1>1, <1>2, <1>3, <1>4 DEF Reserve, counter

(* A release takes back what was reserved, in the bucket it was reserved in. *)
LEMMA ReleaseKeeps ==
  ASSUME Types, Allowance, Takers, NEW c \in Calls, Release(c)
  PROVE  Allowance'
  <1> DEFINE n == Amount[payload[c]]
  <1> PICK b : b = Bucket(c)
    OBVIOUS
  <1>0. /\ stage[c] = "releasing" /\ answer[c] = "none" /\ Held(c) /\ n \in Nat \ {0}
        /\ stage' = stage /\ answer \in [Calls -> Answers]
        /\ reservedOn' = reservedOn /\ spend \in [Payers \X Days -> Nat]
        /\ payload' = payload /\ lostReplies \in Nat /\ Cap \in Nat
        /\ b \in Payers \X Days /\ answer' = [answer EXCEPT ![c] = "refused"]
    BY X402Constants DEF Types, Release, Awaits, Ends, Held, Takers, Begun, Bucket
  <1>1. \A d \in Calls : Held(d)' <=> (Held(d) /\ d # c)
    BY <1>0 DEF Held
  <1>2. \A d \in Calls : Bucket(d)' = Bucket(d)
    BY <1>0 DEF Bucket
  <1>3. \/ Releases(b, n) /\ UNCHANGED lostReplies
        \/ Lost /\ UNCHANGED spend
    BY DEF Release, ReleaseBucket
  <1>4. Prices' = Prices /\ Prices[c] = n /\ c \in HeldIn(b)
    BY <1>0 DEF Prices, HeldIn
  <1> HIDE DEF n
  <1>5. HeldIn(b)' = HeldIn(b) \ {c}
    BY <1>1, <1>2 DEF HeldIn
  <1>6. Reserved(b)' \in Nat /\ Reserved(b) = Reserved(b)' + n
    <2> DEFINE R == HeldIn(b) \ {c}
    <2>1. IsFiniteSet(R) /\ c \notin R /\ HeldIn(b) = R \cup {c}
      BY <1>4, HeldFacts, FS_Subset
    <2>2. \A d \in R \cup {c} : Prices[d] \in Nat
      BY <1>4, HeldFacts
    <2> HIDE DEF R
    <2>3. Total(Prices, R \cup {c}) = Total(Prices, R) + Prices[c] /\ Total(Prices, R) \in Nat
      <3> PICK f : f = Prices
        OBVIOUS
      <3>1. Total(f, R \cup {c}) = Total(f, R) + f[c]
        BY <2>1, <2>2, TotalAdds
      <3>2. \A d \in R : f[d] \in Nat
        BY <2>2
      <3>3. Total(f, R) \in Nat
        BY <2>1, <3>2, UnitsFinite
      <3> QED BY <3>1, <3>3
    <2>4. Reserved(b)' = Total(Prices', HeldIn(b)')
      BY DEF Reserved, Prices
    <2>5. Reserved(b) = Total(Prices, HeldIn(b))
      BY DEF Reserved, Prices
    <2> QED BY <1>4, <1>5, <2>1, <2>3, <2>4, <2>5 DEF R
  <1>7. ASSUME NEW e \in Payers \X Days, e # b PROVE Reserved(e)' = Reserved(e)
    <2>1. HeldIn(e)' = HeldIn(e)
      BY <1>1, <1>2, <1>7 DEF HeldIn
    <2> QED BY <1>0, <2>1 DEF Reserved
  <1>8. /\ Reserved(b) <= spend[b] /\ spend[b] <= Cap /\ spend[b] \in Nat
        /\ lostReplies = 0 => spend[b] = Reserved(b)
    BY <1>0 DEF Allowance
  <1>9. CASE Releases(b, n) /\ UNCHANGED lostReplies
    <2>1. /\ \A e \in Payers \X Days : e # b => spend'[e] = spend[e]
          /\ spend'[b] = IF spend[b] > n THEN spend[b] - n ELSE 0
      BY <1>0, <1>9 DEF Releases
    <2>2. /\ Reserved(b)' <= spend'[b] /\ spend'[b] <= Cap
          /\ lostReplies = 0 => spend'[b] = Reserved(b)'
      BY <1>0, <1>6, <1>8, <2>1
    <2> QED BY <1>7, <1>9, <2>1, <2>2 DEF Allowance
  <1>10. CASE Lost /\ UNCHANGED spend
    <2>1. lostReplies' # 0
      BY <1>0, <1>10 DEF Lost
    <2>2. Reserved(b)' <= spend[b]
      BY <1>0, <1>6, <1>8
    <2> QED BY <1>7, <1>8, <1>10, <2>1, <2>2 DEF Allowance
  <1> QED BY <1>3, <1>9, <1>10

LEMMA AllowanceStep ==
  ASSUME Types, Allowance, Takers, [Next]_vars
  PROVE  Allowance'
  <1> USE DEF request, counter, store, reconciliation, transfers
  <1>1. ASSUME NEW c \in Calls, Verify(c) PROVE Allowance'
    <2>1. \/ Reaches(c, "verified")
          \/ \E a \in Answers : Ends(c, a)
      BY <1>1 DEF Verify, Answers
    <2>2. \A d \in Calls : Held(d)' <=> Held(d)
      BY <1>1, <2>1, HeldStays DEF Verify, Awaits
    <2> QED BY <1>1, <2>2, AllowanceStands DEF Verify
  <1>2. ASSUME NEW c \in Calls, Reserve(c) PROVE Allowance'
    BY <1>2, ReserveKeeps
  <1>3. ASSUME NEW c \in Calls, Settle(c) PROVE Allowance'
    <2>1. \/ Reaches(c, "retrying") \/ Reaches(c, "settled") \/ Reaches(c, "releasing")
          \/ \E a \in Answers \ {"refused"} : Ends(c, a)
      <3>1. \/ Reaches(c, "retrying")
            \/ \E reply \in Replies : Settled(c, reply)
        BY <1>3 DEF Settle
      <3> QED BY <3>1 DEF Settled, Replies, Answers
    <2>2. answer[c] = "none" /\ stage[c] \notin {"idle", "verified"}
      BY <1>3 DEF Settle, Awaits
    <2>3. \A d \in Calls : Held(d)' <=> Held(d)
      BY <2>1, <2>2, HeldStays
    <2> QED BY <1>3, <2>3, AllowanceStands DEF Settle
  <1>4. ASSUME NEW c \in Calls, Release(c) PROVE Allowance'
    BY <1>4, ReleaseKeeps
  <1>5. ASSUME NEW c \in Calls, Record(c) PROVE Allowance'
    <2>1. \A d \in Calls : Held(d)' <=> Held(d)
      BY <1>5, HeldStays DEF Record, Awaits
    <2> QED BY <1>5, <2>1, AllowanceStands DEF Record
  <1>6. ASSUME NEW c \in Calls, Deliver(c) PROVE Allowance'
    <2>1. Reaches(c, "delivered") \/ \E a \in Answers \ {"refused"} : Ends(c, a)
      BY <1>6 DEF Deliver, Answers
    <2>2. \A d \in Calls : Held(d)' <=> Held(d)
      BY <1>6, <2>1, HeldStays DEF Deliver, Awaits
    <2> QED BY <1>6, <2>2, AllowanceStands DEF Deliver
  <1>7. ASSUME NEW c \in Calls, Correct(c) PROVE Allowance'
    <2>1. \E a \in Answers \ {"refused"} : Ends(c, a)
      BY <1>7 DEF Correct, Answers
    <2>2. \A d \in Calls : Held(d)' <=> Held(d)
      BY <1>7, <2>1, HeldStays DEF Correct, Awaits
    <2> QED BY <1>7, <2>2, AllowanceStands DEF Correct
  <1>8. ASSUME NEW c \in Calls, Abandon(c) PROVE Allowance'
    <2>1. \E a \in Answers \ {"refused"} : Ends(c, a)
      BY <1>8 DEF Abandon, Answers
    <2>2. \A d \in Calls : Held(d)' <=> Held(d)
      BY <1>8, <2>1, HeldStays DEF Abandon
    <2> QED BY <1>8, <2>2, AllowanceStands DEF Abandon
  <1>9. ASSUME UNCHANGED <<request, counter>> PROVE Allowance'
    BY <1>9, AllowanceStands DEF Held
  <1> QED BY <1>1, <1>2, <1>3, <1>4, <1>5, <1>6, <1>7, <1>8, <1>9
          DEF Next, vars, ChainMoves, ReconcileLists, ReconcileReads, ReconcileChecks, Midnight

-----------------------------------------------------------------------------
(* Who took a payment *)

LEMMA TakersInit ==
  ASSUME Init
  PROVE  Takers
  BY X402Constants DEF Init, Takers, Begun

(* A step that moves no money. *)
LEMMA TakersStand ==
  ASSUME Types, Takers, UNCHANGED <<payload, chain, takenBy>>,
         \A c \in Calls : Begun(c) => Begun(c)',
         \A c \in Calls : Begun(c)' => PayerOf[payload[c]] \in Payers,
         \A c \in Calls :
           (stage'[c] = "releasing" \/ answer'[c] = "refused") =>
             stage[c] = "releasing" \/ answer[c] = "refused" \/ ~Begun(c)
  PROVE  Takers'
  BY DEF Takers, Types

(* Nobody's money is moved without a reservation, and a payment that failed *)
(* stays failed.                                                            *)
LEMMA SettleKeepsTakers ==
  ASSUME Types, Takers, NEW c \in Calls, Settle(c)
  PROVE  Takers'
  <1> DEFINE p == payload[c]
  <1>0. /\ stage \in [Calls -> Stages] /\ answer \in [Calls -> Answers] /\ payload' = payload
        /\ p \in Payloads /\ answer[c] = "none" /\ stage[c] \in {"reserved", "retrying"}
        /\ chain \in [Payloads -> {"unused", "queued", "sent", "confirmed", "failed"}]
        /\ takenBy \in [Payloads -> Calls \cup {NoCall}] /\ payload \in [Calls -> Payloads]
    BY DEF Types, Settle, Awaits
  <1>1. PICK reply \in Replies :
          /\ Facilitates(c, reply)
          /\ \/ Settled(c, reply)
             \/ reply = "pending" /\ Reaches(c, "retrying")
    BY DEF Settle, Replies
  <1>2. /\ \A d \in Calls : Begun(d)' <=> Begun(d)
        /\ \A d \in Calls \ {c} : stage'[d] = stage[d] /\ answer'[d] = answer[d]
        /\ reply # "failure" => stage'[c] # "releasing"
        /\ answer'[c] # "refused"
    BY <1>0, <1>1 DEF Settled, Replies, Reaches, Ends, Begun, Stages, Answers
  <1>3. \A q \in Payloads : takenBy[q] = c => q = p
    BY <1>0, X402Constants DEF Takers
  <1>4. /\ \A q \in Payloads \ {p} : chain'[q] = chain[q] /\ takenBy'[q] = takenBy[q]
        /\ \/ /\ chain[p] = "unused" /\ chain'[p] \in {"queued", "sent"}
              /\ takenBy'[p] = c /\ reply # "failure"
           \/ /\ takenBy'[p] = takenBy[p] /\ (chain'[p] = "unused" <=> chain[p] = "unused")
              /\ reply = "failure" /\ takenBy[p] = c => chain'[p] = "failed"
              /\ chain[p] = "failed" => chain'[p] = "failed"
    BY <1>0, <1>1 DEF Facilitates, Replies, transfers
  <1> HIDE DEF p
  <1>5. Begun(c)
    BY <1>0 DEF Begun
  <1>6. \A d \in Calls : Begun(d)' => PayerOf[payload'[d]] \in Payers
    BY <1>0, <1>2 DEF Takers
  <1>7. ASSUME NEW q \in Payloads
        PROVE  /\ takenBy'[q] = NoCall <=> chain'[q] = "unused"
               /\ takenBy'[q] # NoCall =>
                    /\ payload'[takenBy'[q]] = q /\ Begun(takenBy[q])'
                    /\ chain'[q] # "failed" =>
                         stage'[takenBy'[q]] # "releasing" /\ answer'[takenBy'[q]] # "refused"
    <2>1. CASE q # p
      <3>1. takenBy'[q] = takenBy[q] /\ chain'[q] = chain[q] /\ takenBy[q] # c
        BY <1>3, <1>4, <2>1
      <3>2. takenBy[q] # NoCall => takenBy[q] \in Calls \ {c}
        BY <1>0, <3>1
      <3> QED BY <1>0, <1>2, <3>1, <3>2 DEF Takers
    <2>2. CASE q = p /\ chain[p] = "unused" /\ takenBy'[p] = c /\ reply # "failure"
                     /\ chain'[p] \in {"queued", "sent"}
      BY <1>0, <1>2, <1>5, <2>2, X402Constants DEF p
    <2>3. CASE /\ q = p /\ takenBy'[p] = takenBy[p] /\ (chain'[p] = "unused" <=> chain[p] = "unused")
               /\ reply = "failure" /\ takenBy[p] = c => chain'[p] = "failed"
               /\ chain[p] = "failed" => chain'[p] = "failed"
      <3>1. takenBy[p] # NoCall => takenBy[p] \in Calls
        BY <1>0
      <3>2. CASE takenBy[p] = c
        BY <1>0, <1>2, <1>5, <2>3, <3>2 DEF Takers, p
      <3>3. CASE takenBy[p] # c
        BY <1>0, <1>2, <2>3, <3>1, <3>3 DEF Takers
      <3> QED BY <3>2, <3>3
    <2> QED BY <1>4, <2>1, <2>2, <2>3
  <1> QED BY <1>6, <1>7 DEF Takers

LEMMA TakersStep ==
  ASSUME Types, Takers, [Next]_vars
  PROVE  Takers'
  <1> USE DEF request, counter, store, reconciliation, transfers
  <1>0. stage \in [Calls -> Stages] /\ answer \in [Calls -> Answers]
    BY DEF Types
  <1>1. ASSUME NEW c \in Calls, Verify(c) PROVE Takers'
    <2>1. /\ \A d \in Calls : Begun(d)' <=> Begun(d)
          /\ \A d \in Calls \ {c} : stage'[d] = stage[d] /\ answer'[d] = answer[d]
          /\ ~Begun(c)
      BY <1>0, <1>1 DEF Verify, Awaits, Reaches, Ends, Begun
    <2>2. UNCHANGED <<payload, chain, takenBy>>
      BY <1>1 DEF Verify
    <2>3. \A d \in Calls : Begun(d)' => PayerOf[payload[d]] \in Payers
      BY <2>1 DEF Takers
    <2> QED BY <2>1, <2>2, <2>3, TakersStand
  <1>2. ASSUME NEW c \in Calls, Reserve(c) PROVE Takers'
    <2>1. /\ \A d \in Calls \ {c} : stage'[d] = stage[d] /\ answer'[d] = answer[d]
          /\ ~Begun(c)
      BY <1>0, <1>2 DEF Reserve, Awaits, Reaches, Ends, Begun
    <2>2. Begun(c)' => PayerOf[payload[c]] \in Payers
      <3>1. PayerOf[payload[c]] \in Payers \cup {NoPayer}
        BY X402Constants DEF Types
      <3>2. PayerOf[payload[c]] = NoPayer => UNCHANGED stage
        BY <1>2 DEF Reserve, Ends
      <3> QED BY <2>1, <3>1, <3>2 DEF Begun
    <2>3. UNCHANGED <<payload, chain, takenBy>>
      BY <1>2 DEF Reserve
    <2>4. \A d \in Calls : Begun(d)' => PayerOf[payload[d]] \in Payers
      BY <2>1, <2>2 DEF Takers, Begun
    <2>5. \A d \in Calls : Begun(d) => Begun(d)'
      BY <2>1 DEF Begun
    <2> QED BY <2>1, <2>3, <2>4, <2>5, TakersStand
  <1>3. ASSUME NEW c \in Calls, Settle(c) PROVE Takers'
    BY <1>3, SettleKeepsTakers
  <1>4. ASSUME NEW c \in Calls, Release(c) PROVE Takers'
    BY <1>0, <1>4, TakersStand DEF Release, Awaits, Ends, Begun, Takers
  <1>5. ASSUME NEW c \in Calls, Record(c) PROVE Takers'
    BY <1>0, <1>5, TakersStand DEF Record, Awaits, Reaches, Begun, Takers
  <1>6. ASSUME NEW c \in Calls, Deliver(c) PROVE Takers'
    BY <1>0, <1>6, TakersStand DEF Deliver, Awaits, Reaches, Ends, Begun, Takers
  <1>7. ASSUME NEW c \in Calls, Correct(c) PROVE Takers'
    BY <1>0, <1>7, TakersStand DEF Correct, Awaits, Ends, Begun, Takers
  <1>8. ASSUME NEW c \in Calls, Abandon(c) PROVE Takers'
    BY <1>0, <1>8, TakersStand DEF Abandon, Ends, Begun, Takers
  <1>9. ASSUME NEW p \in Payloads, ChainMoves(p) PROVE Takers'
    <2>1. /\ UNCHANGED <<payload, stage, answer, takenBy>>
          /\ \A q \in Payloads : chain'[q] = "unused" <=> chain[q] = "unused"
          /\ \A q \in Payloads : chain[q] = "failed" => chain'[q] = "failed"
      BY <1>9 DEF ChainMoves, Types
    <2> QED BY <2>1 DEF Takers, Begun
  <1>10. ASSUME UNCHANGED <<request, transfers>> PROVE Takers'
    BY <1>10 DEF Takers, Begun
  <1> QED BY <1>1, <1>2, <1>3, <1>4, <1>5, <1>6, <1>7, <1>8, <1>9, <1>10
          DEF Next, vars, ReconcileLists, ReconcileReads, ReconcileChecks, Midnight

(* What moves in a payer's day was reserved in it, by a call of its own. *)
LEMMA TakenIsReserved ==
  ASSUME Types, Takers, NEW b \in Payers \X Days
  PROVE  Total(Amount, TakenIn(b)) <= Reserved(b)
  <1>1. ASSUME NEW p \in TakenIn(b)
        PROVE  /\ takenBy[p] \in HeldIn(b) /\ payload[takenBy[p]] = p
               /\ Amount[p] \in Nat /\ Amount[p] <= Prices[takenBy[p]]
    <2>1. /\ p \in Payloads /\ takenBy[p] # NoCall /\ takenBy[p] \in Calls /\ chain[p] # "failed"
          /\ <<PayerOf[p], reservedOn[takenBy[p]]>> = b
      BY DEF TakenIn, Types
    <2>2. Held(takenBy[p]) /\ payload[takenBy[p]] = p
      BY <2>1 DEF Takers, Held, Begun
    <2>3. Amount[p] \in Nat /\ Prices[takenBy[p]] = Amount[p]
      BY <2>1, <2>2, X402Constants DEF Prices
    <2> QED BY <2>1, <2>2, <2>3 DEF HeldIn, Bucket
  <1>2. \A p, q \in TakenIn(b) : takenBy[p] = takenBy[q] => p = q
    BY <1>1
  <1>3. IsFiniteSet(HeldIn(b)) /\ \A c \in HeldIn(b) : Prices[c] \in Nat
    BY HeldFacts
  <1> PICK f : f = Prices
    OBVIOUS
  <1> PICK h : h = takenBy
    OBVIOUS
  <1>4. Total(Amount, TakenIn(b)) <= Total(f, HeldIn(b))
    <2>1. \A p \in TakenIn(b) : h[p] \in HeldIn(b) /\ Amount[p] \in Nat /\ Amount[p] <= f[h[p]]
      BY <1>1
    <2> QED BY <1>2, <1>3, <2>1, TotalCarries
  <1> QED BY <1>4, HeldFacts

LEMMA AllowanceIsKept ==
  ASSUME Types, Allowance, Takers
  PROVE  AllowanceKept
  <1>1. ASSUME NEW b \in Payers \X Days
        PROVE  /\ spend[b] >= Reserved(b) /\ Total(Amount, TakenIn(b)) <= Cap
               /\ lostReplies = 0 => spend[b] = Reserved(b)
    <2>1. Reserved(b) \in Nat /\ spend[b] \in Nat /\ Cap \in Nat
      BY HeldFacts, X402Constants DEF Types
    <2>2. IsFiniteSet(TakenIn(b)) /\ \A p \in TakenIn(b) : Amount[p] \in Nat
      BY X402Constants, FS_Subset DEF TakenIn
    <2>3. Total(Amount, TakenIn(b)) \in Nat
      BY <2>2, UnitsFinite
    <2> QED BY <2>1, <2>3, TakenIsReserved DEF Allowance
  <1> QED BY <1>1 DEF AllowanceKept, SpendCoversReservations, NoAllowanceLost, DailyCapHolds

-----------------------------------------------------------------------------
(* What is in the books *)

(* What a receipt may speak of does not change back. *)
LEMMA FactsStay ==
  ASSUME Types, [Next]_vars
  PROVE  /\ payload' = payload
         /\ \A c \in Calls : stage[c] = "delivered" => stage'[c] = "delivered"
         /\ \A p \in Payloads : chain[p] \in {"confirmed", "failed"} => chain'[p] = chain[p]
  <1> USE DEF request, counter, store, reconciliation, transfers
  <1>0. stage \in [Calls -> Stages]
    BY DEF Types
  <1>1. ASSUME NEW c \in Calls, Settle(c)
        PROVE  \A p \in Payloads : chain[p] \in {"confirmed", "failed"} => chain'[p] = chain[p]
    <2>1. PICK reply \in Replies : Facilitates(c, reply)
      BY <1>1 DEF Settle, Replies
    <2> QED BY <2>1 DEF Facilitates, Types
  <1>2. ASSUME NEW p \in Payloads, ChainMoves(p)
        PROVE  \A q \in Payloads : chain[q] \in {"confirmed", "failed"} => chain'[q] = chain[q]
    BY <1>2 DEF ChainMoves, Types
  <1>3. ASSUME NEW c \in Calls, Settle(c) PROVE stage[c] # "delivered" /\ UNCHANGED payload
    BY <1>3 DEF Settle, Awaits
  <1>4. ASSUME NEW c \in Calls, Settle(c), NEW d \in Calls, d # c PROVE stage'[d] = stage[d]
    <2>1. \/ Reaches(c, "retrying")
          \/ \E reply \in Replies : Settled(c, reply)
      BY <1>4 DEF Settle
    <2> QED BY <1>0, <1>4, <2>1 DEF Reaches, Ends, Settled, Replies
  <1>5. ASSUME NEW c \in Calls,
               Verify(c) \/ Reserve(c) \/ Release(c) \/ Record(c) \/ Deliver(c) \/ Correct(c)
                 \/ Abandon(c)
        PROVE  /\ UNCHANGED <<payload, chain>>
               /\ \A d \in Calls : stage[d] = "delivered" => stage'[d] = "delivered"
    BY <1>0, <1>5 DEF Verify, Reserve, Release, Record, Deliver, Correct, Abandon, Awaits,
       Reaches, Ends
  <1>6. ASSUME ReconcileLists \/ (\E k \in Calls : ReconcileReads(k) \/ ReconcileChecks(k))
                 \/ Midnight \/ UNCHANGED vars
        PROVE  UNCHANGED <<payload, stage, chain>>
    BY <1>6 DEF vars, ReconcileLists, ReconcileReads, ReconcileChecks, Midnight
  <1>7. ASSUME NEW p \in Payloads, ChainMoves(p) PROVE UNCHANGED <<payload, stage>>
    BY <1>7 DEF ChainMoves
  <1> QED BY <1>1, <1>2, <1>3, <1>4, <1>5, <1>6, <1>7 DEF Next

LEMMA TrueStays ==
  ASSUME Types, [Next]_vars, NEW r \in Receipts \cup {NoReceipt}, True(r)
  PROVE  True(r)'
  <1>1. CASE r = NoReceipt
    BY <1>1 DEF True
  <1>2. CASE r \in Receipts
    <2>1. r.writer \in Calls /\ payload[r.writer] \in Payloads
      BY <1>2 DEF Receipts, Types
    <2> QED BY <2>1, FactsStay DEF True
  <1> QED BY <1>1, <1>2

(* Which records of the books and of the reconciliation a step writes. *)
LEMMA EvidenceStep ==
  ASSUME Types, Takers, Evidence, [Next]_vars
  PROVE  Evidence'
  <1> USE DEF request, counter, store, reconciliation, transfers
  <1>0. Types'
    BY TypesStep
  <1>1. ASSUME NEW k \in Calls PROVE True(receipts[k])'
    <2>1. ASSUME receipts'[k] = receipts[k] PROVE True(receipts[k])'
      <3>1. receipts[k] \in Receipts \cup {NoReceipt}
        BY DEF Types
      <3> PICK r : r = receipts[k]
        OBVIOUS
      <3>2. True(r)'
        BY <3>1, TrueStays DEF Evidence
      <3> QED BY <2>1, <3>2 DEF True
    <2>2. ASSUME NEW c \in Calls, Record(c), receipts'[k] # receipts[k] PROVE True(receipts[k])'
      <3>1. receipts'[k] = Obligation(c)
        BY <2>2 DEF Record, Writes, Types
      <3> QED BY <3>1 DEF True, Obligation
    <2>3. ASSUME NEW c \in Calls, Correct(c), receipts'[k] # receipts[k]
          PROVE  True(receipts[k])'
      <3>1. receipts'[k] = [Obligation(c) EXCEPT !.delivered = TRUE]
        BY <2>3 DEF Correct, Writes, Types
      <3>2. stage'[c] = "delivered"
        BY <2>3 DEF Correct, Awaits, Ends
      <3> QED BY <3>1, <3>2 DEF True, Obligation
    <2>4. ASSUME NEW j \in Calls, ReconcileChecks(j), receipts'[k] # receipts[k]
          PROVE  True(receipts[k])'
      <3>1. PICK r \in Receipts : r = read[j]
        BY <2>4 DEF ReconcileChecks, Types
      <3>2. PICK s \in StatusOf(payload[r.writer]) : receipts'[k] = Checked(r, s)
        BY <2>4, <3>1 DEF ReconcileChecks, Writes, Types
      <3>3. /\ r.writer \in Calls /\ Checked(r, s).writer = r.writer
            /\ Checked(r, s).delivered = r.delivered /\ Checked(r, s).confirmation = s
        BY <3>1 DEF Receipts, Checked
      <3>4. r.delivered => stage[r.writer] = "delivered"
        BY <3>1, X402Constants DEF Evidence, True
      <3>5. s \in {"confirmed", "failed"} => s = chain[payload[r.writer]]
        BY <3>2 DEF StatusOf
      <3>6. UNCHANGED <<stage, chain, payload>>
        BY <2>4 DEF ReconcileChecks
      <3> QED BY <3>2, <3>3, <3>4, <3>5, <3>6 DEF True
    <2>5. \/ receipts'[k] = receipts[k]
          \/ \E c \in Calls : Record(c) \/ Correct(c) \/ ReconcileChecks(c)
      BY DEF Next, vars, Verify, Reserve, Settle, Release, Deliver, Abandon, ChainMoves,
         ReconcileLists, ReconcileReads, Midnight
    <2> QED BY <2>1, <2>2, <2>3, <2>4, <2>5
  <1>2. ASSUME NEW k \in Calls PROVE True(read[k])'
    <2>1. read'[k] = read[k] \/ read'[k] = receipts[k] \/ read'[k] = NoReceipt
      <3>1. \/ read' = read
            \/ \E j \in Calls : ReconcileReads(j) \/ ReconcileChecks(j)
        BY DEF Next, vars, Verify, Reserve, Settle, Release, Record, Deliver, Correct,
           Abandon, ChainMoves, ReconcileLists, Midnight
      <3>2. ASSUME NEW j \in Calls, ReconcileReads(j) \/ ReconcileChecks(j)
            PROVE  \/ read' = [read EXCEPT ![j] = receipts[j]]
                   \/ read' = [read EXCEPT ![j] = NoReceipt]
        BY <3>2 DEF ReconcileReads, ReconcileChecks
      <3> QED BY <3>1, <3>2 DEF Types
    <2>2. CASE read'[k] = NoReceipt
      BY <2>2 DEF True
    <2>3. CASE read'[k] = read[k] \/ read'[k] = receipts[k]
      <3>1. PICK r \in Receipts \cup {NoReceipt} : r = read'[k] /\ (r = read[k] \/ r = receipts[k])
        BY <2>3 DEF Types
      <3>2. True(r)'
        BY <3>1, TrueStays DEF Evidence
      <3> QED BY <3>1, <3>2 DEF True
    <2> QED BY <2>1, <2>2, <2>3
  <1> QED BY <1>1, <1>2 DEF Evidence

LEMMA RailInvInit ==
  ASSUME Init
  PROVE  RailInv
  <1>1. Evidence
    BY DEF Init, Evidence, True
  <1> QED BY <1>1, TypesInit, AllowanceInit, TakersInit DEF RailInv

LEMMA RailInvStep ==
  ASSUME RailInv, [Next]_vars
  PROVE  RailInv'
  BY TypesStep, AllowanceStep, TakersStep, EvidenceStep DEF RailInv

LEMMA RailInvHolds == Spec => []RailInv
  <1>1. RailInv /\ [Next]_vars => RailInv'
    BY RailInvStep
  <1> QED BY RailInvInit, <1>1, PTL DEF Spec

(* What a receipt says of the delivery and of the chain is so. *)
SaysTruly == ReceiptIsTrue /\ ConfirmationIsEvidence

(* The allowance of a payer's day is neither overrun nor eaten up, and no   *)
(* receipt says what is not so, for any calls, payments and prices, whatever*)
(* replies and writes are lost and however calls share a millisecond        *)
(* (x402-spend.ts, x402-receipts.ts, x402-reconcile.ts).                    *)
THEOREM AllowanceAndEvidence == Spec => [](AllowanceKept /\ SaysTruly)
  <1>1. RailInv => AllowanceKept /\ SaysTruly
    BY AllowanceIsKept
       DEF RailInv, SaysTruly, ReceiptIsTrue, ConfirmationIsEvidence, Evidence, True
  <1> QED BY <1>1, RailInvHolds, PTL

-----------------------------------------------------------------------------
(* Calls that do not share a millisecond *)

LEMMA OwnKeysInit ==
  ASSUME Init
  PROVE  OwnKeys
  BY DEF Init, OwnKeys, Own, RecordStands, ServedIsAccountable

(* What is on file stays there: nobody else writes under its key. *)
LEMMA OnFileStays ==
  ASSUME Types, OwnKeys, Types', NEW c \in Calls, OnFile(c), at'[c] = at[c],
         receipts'[c] # NoReceipt, Own(receipts'[c], c)
  PROVE  OnFile(c)'
  BY DEF OwnKeys, OnFile, Own, Types

LEMMA OwnKeysStep ==
  ASSUME ~SameMillisecond, Types, Takers, OwnKeys, [Next]_vars
  PROVE  OwnKeys'
  <1> USE DEF request, counter, store, reconciliation, transfers
  <1>0. /\ Types' /\ stage \in [Calls -> Stages] /\ answer \in [Calls -> Answers]
        /\ at \in [Calls -> Calls \cup {NoCall}] /\ persisted \in [Calls -> BOOLEAN]
        /\ receipts \in [Calls -> Receipts \cup {NoReceipt}]
        /\ read \in [Calls -> Receipts \cup {NoReceipt}]
    BY TypesStep DEF Types
  <1>1. ASSUME UNCHANGED <<at, persisted, receipts, read, logged>>,
               \A c \in Calls : stage'[c] \in {"recorded", "delivered"} =>
                                  stage[c] \in {"recorded", "delivered"},
               \A c \in Calls : answer'[c] = "served" => answer[c] = "served"
        PROVE  OwnKeys'
    BY <1>1 DEF OwnKeys, RecordStands, ServedIsAccountable, OnFile
  <1>2. ASSUME NEW c \in Calls, Verify(c) PROVE OwnKeys'
    BY <1>0, <1>1, <1>2 DEF Verify, Reaches, Ends
  <1>3. ASSUME NEW c \in Calls, Reserve(c) PROVE OwnKeys'
    BY <1>0, <1>1, <1>3 DEF Reserve, Reaches, Ends
  <1>4. ASSUME NEW c \in Calls, Settle(c) PROVE OwnKeys'
    <2>1. \/ Reaches(c, "retrying")
          \/ \E reply \in Replies : Settled(c, reply)
      BY <1>4 DEF Settle
    <2>2. /\ \A d \in Calls : stage'[d] \in {"recorded", "delivered"} =>
                                stage[d] \in {"recorded", "delivered"}
          /\ \A d \in Calls : answer'[d] = "served" => answer[d] = "served"
      BY <1>0, <2>1 DEF Reaches, Ends, Settled, Replies
    <2> QED BY <1>1, <1>4, <2>2 DEF Settle
  <1>5. ASSUME NEW c \in Calls, Release(c) PROVE OwnKeys'
    BY <1>0, <1>1, <1>5 DEF Release, Ends
  <1>6. ASSUME NEW c \in Calls, Record(c) PROVE OwnKeys'
    <2>1. KeysOf(c) = {c}
      BY DEF KeysOf
    <2>2. PICK ok \in BOOLEAN :
            /\ Writes(c, Obligation(c), ok)
            /\ at' = [at EXCEPT ![c] = c]
            /\ persisted' = [persisted EXCEPT ![c] = ok]
      BY <1>6, <2>1 DEF Record, Recorded
    <2>3. Obligation(c) \in Receipts /\ Obligation(c).writer = c /\ Obligation(c) # NoReceipt
      BY ObligationType, X402Constants DEF Obligation
    <2>4. /\ receipts'[c] = Obligation(c) \/ (~ok /\ receipts'[c] = receipts[c])
          /\ \A k \in Calls \ {c} : receipts'[k] = receipts[k]
      BY <1>0, <2>2 DEF Writes
    <2>5. /\ stage[c] = "settled" /\ answer' = answer /\ logged' = logged /\ read' = read
          /\ stage' = [stage EXCEPT ![c] = "recorded"] /\ answer[c] = "none"
      BY <1>6 DEF Record, Awaits, Reaches
    <2>6. \A k \in Calls : Own(receipts'[k], k) /\ Own(read'[k], k)
      BY <2>3, <2>4, <2>5 DEF OwnKeys, Own
    <2>7. \A d \in Calls \ {c} : OnFile(d)' <=> OnFile(d)
      BY <1>0, <2>2, <2>4 DEF OnFile, OwnKeys
    <2>8. ok => OnFile(c)'
      BY <1>0, <2>2, <2>3, <2>4, X402Constants DEF OnFile
    <2>9. RecordStands'
      BY <1>0, <2>2, <2>7, <2>8 DEF OwnKeys, RecordStands
    <2>10. ServedIsAccountable'
      BY <2>5, <2>7 DEF OwnKeys, ServedIsAccountable
    <2>11. /\ \A d \in Calls : at'[d] \in {d, NoCall}
           /\ \A d \in Calls : stage'[d] \in {"recorded", "delivered"} => at'[d] = d
      BY <1>0, <2>2, <2>5 DEF OwnKeys
    <2> QED BY <2>6, <2>9, <2>10, <2>11 DEF OwnKeys
  <1>7. ASSUME NEW c \in Calls, Deliver(c) PROVE OwnKeys'
    BY <1>0, <1>1, <1>7 DEF Deliver, Awaits, Reaches, Ends
  <1>8. ASSUME NEW c \in Calls, Correct(c) PROVE OwnKeys'
    <2>1. stage[c] = "delivered" /\ answer[c] = "none" /\ at[c] = c
      BY <1>8 DEF Correct, Awaits, OwnKeys
    <2> DEFINE r == [Obligation(c) EXCEPT !.delivered = TRUE]
    <2>2. PICK ok \in BOOLEAN :
            /\ Writes(c, r, ok)
            /\ persisted' = [persisted EXCEPT ![c] = ok \/ persisted[c]]
            /\ logged' = IF ~(ok \/ persisted[c]) THEN logged \cup {c} ELSE logged
      BY <1>8, <2>1 DEF Correct, ReportsLoss
    <2>3. r \in Receipts /\ r.writer = c /\ r # NoReceipt
      BY ObligationType, X402Constants DEF Obligation
    <2> HIDE DEF r
    <2>4. /\ receipts'[c] = r \/ (~ok /\ receipts'[c] = receipts[c])
          /\ \A k \in Calls \ {c} : receipts'[k] = receipts[k]
      BY <1>0, <2>2 DEF Writes
    <2>5. /\ stage' = stage /\ answer' = [answer EXCEPT ![c] = "served"]
          /\ at' = at /\ read' = read
      BY <1>8 DEF Correct, Ends
    <2>6. \A k \in Calls : Own(receipts'[k], k) /\ Own(read'[k], k)
      BY <2>3, <2>4, <2>5 DEF OwnKeys, Own
    <2>7. \A d \in Calls \ {c} : OnFile(d)' <=> OnFile(d)
      BY <1>0, <2>4, <2>5 DEF OnFile, OwnKeys
    <2>8. OnFile(c) \/ ok => OnFile(c)'
      BY <1>0, <2>1, <2>3, <2>4, <2>5, X402Constants DEF OnFile
    <2>9. RecordStands'
      BY <1>0, <2>2, <2>7, <2>8 DEF OwnKeys, RecordStands
    <2>10. ServedIsAccountable'
      <3>1. logged \subseteq logged' /\ (OnFile(c)' \/ c \in logged')
        BY <2>2, <2>8 DEF OwnKeys, RecordStands
      <3> QED BY <1>0, <2>5, <2>7, <3>1 DEF OwnKeys, ServedIsAccountable
    <2> QED BY <2>5, <2>6, <2>9, <2>10 DEF OwnKeys
  <1>9. ASSUME NEW c \in Calls, Abandon(c) PROVE OwnKeys'
    BY <1>0, <1>1, <1>9 DEF Abandon, Ends
  <1>10. ASSUME NEW k \in Calls, ReconcileReads(k) PROVE OwnKeys'
    <2>1. /\ UNCHANGED <<at, persisted, receipts, logged, stage, answer>>
          /\ read' = [read EXCEPT ![k] = receipts[k]]
      BY <1>10 DEF ReconcileReads
    <2>2. \A j \in Calls : Own(read'[j], j)
      BY <1>0, <2>1 DEF OwnKeys
    <2> QED BY <2>1, <2>2 DEF OwnKeys, RecordStands, ServedIsAccountable, OnFile
  <1>11. ASSUME NEW k \in Calls, ReconcileChecks(k) PROVE OwnKeys'
    <2>1. PICK r \in Receipts : r = read[k] /\ r # NoReceipt
      BY <1>0, <1>11 DEF ReconcileChecks
    <2>2. /\ UNCHANGED <<at, persisted, logged, stage, answer>>
          /\ read' = [read EXCEPT ![k] = NoReceipt]
      BY <1>11 DEF ReconcileChecks
    <2>3. PICK s \in StatusOf(payload[r.writer]) :
            \/ \E ok \in BOOLEAN : Writes(k, Checked(r, s), ok)
            \/ UNCHANGED receipts
      BY <1>11, <2>1 DEF ReconcileChecks
    <2>4. Checked(r, s) \in Receipts /\ Checked(r, s).writer = k /\ Checked(r, s) # NoReceipt
      <3>1. Checked(r, s) \in Receipts /\ Checked(r, s).writer = r.writer
        BY DEF Checked, StatusOf, Receipts
      <3> QED BY <2>1, <3>1, X402Constants DEF OwnKeys, Own
    <2>5. /\ receipts'[k] = Checked(r, s) \/ receipts'[k] = receipts[k]
          /\ \A j \in Calls \ {k} : receipts'[j] = receipts[j]
      BY <1>0, <2>3 DEF Writes
    <2>6. \A j \in Calls : Own(receipts'[j], j) /\ Own(read'[j], j)
      BY <1>0, <2>2, <2>4, <2>5 DEF OwnKeys, Own
    <2>7. \A c \in Calls : OnFile(c) => OnFile(c)'
      BY <1>0, <2>2, <2>4, <2>5 DEF OnFile, OwnKeys
    <2> QED BY <2>2, <2>6, <2>7 DEF OwnKeys, RecordStands, ServedIsAccountable
  <1>12. ASSUME \/ UNCHANGED vars \/ ReconcileLists \/ Midnight
                \/ \E p \in Payloads : ChainMoves(p)
         PROVE  OwnKeys'
    BY <1>1, <1>12 DEF vars, ReconcileLists, Midnight, ChainMoves
  <1> QED BY <1>2, <1>3, <1>4, <1>5, <1>6, <1>7, <1>8, <1>9, <1>10, <1>11, <1>12 DEF Next

(* Every payment is accounted for, against the payer's cap and in the books,*)
(* for any calls, payments and prices, whatever is lost, where no two calls *)
(* of one offer record in one millisecond: what a call was told is recorded *)
(* stays on file, and a payer that was served is on file or in the log      *)
(* (deliverPaid of offers.ts with x402-spend.ts and x402-receipts.ts).      *)
THEOREM PaymentsAreAccounted ==
  ASSUME ~SameMillisecond
  PROVE  Spec => []PaymentsAccounted
  <1>1. Init => OwnKeys
    BY OwnKeysInit
  <1>2. RailInv /\ OwnKeys /\ [Next]_vars => OwnKeys'
    BY OwnKeysStep DEF RailInv
  <1>3. OwnKeys /\ AllowanceKept /\ SaysTruly => PaymentsAccounted
    BY DEF OwnKeys, SaysTruly, PaymentsAccounted, ReceiptsAreTrue
  <1> QED BY <1>1, <1>2, <1>3, RailInvHolds, AllowanceAndEvidence, PTL DEF Spec

-----------------------------------------------------------------------------
(* The rail keeps what PaidRequest promises. *)

Outcomes == [c \in Calls |-> Outcome(c)]
Kept == [p \in Payloads |-> IF chain[p] = "failed" THEN NoCall ELSE takenBy[p]]

(* How a call's outcome follows its stage and its answer. *)
LEMMA OutcomeMoves ==
  ASSUME Types, Types', NEW c \in Calls,
         \A d \in Calls \ {c} : stage'[d] = stage[d] /\ answer'[d] = answer[d]
  PROVE  /\ Outcomes' = [Outcomes EXCEPT ![c] = Outcome(c)']
         /\ Outcomes[c] = Outcome(c)
  <1>1. \A d \in Calls \ {c} : Outcome(d)' = Outcome(d)
    BY DEF Outcome
  <1> QED BY <1>1 DEF Outcomes

LEMMA OutcomesStay ==
  ASSUME UNCHANGED <<stage, answer>>
  PROVE  Outcomes' = Outcomes
  BY DEF Outcomes, Outcome

(* The payments the promise counts are those the rail does. *)
LEMMA TakenAlike ==
  ASSUME Types, Takers, NEW who \in Payers, NEW d \in Days
  PROVE  Promise!TakenIn(who, d) = TakenIn(<<who, d>>)
  BY X402Constants DEF Promise!TakenIn, TakenIn, Types, Takers

LEMMA AmountAdds ==
  ASSUME NEW S \in SUBSET Payloads, NEW p \in Payloads \ S
  PROVE  Total(Amount, S \cup {p}) = Total(Amount, S) + Amount[p]
  <1>1. IsFiniteSet(S) /\ p \notin S
    BY X402Constants, FS_Subset
  <1>2. \A q \in S \cup {p} : Amount[q] \in Nat
    BY X402Constants
  <1> QED BY <1>1, <1>2, TotalAdds

LEMMA SpentIs ==
  ASSUME NEW who, NEW d
  PROVE  Promise!Spent(who, d) = Total(Amount, Promise!TakenIn(who, d))
  BY DEF Promise!Spent, Promise!Total, Promise!Units, Promise!Cardinality, Total, Units, Cardinality

LEMMA AllowanceIsKeptNext == RailInv' => AllowanceKept'
  <1>1. RailInv => AllowanceKept
    BY AllowanceIsKept DEF RailInv
  <1> QED BY <1>1, PTL

(* A call that takes its payment stays within the cap of its bucket. *)
LEMMA TakeIsWithinCap ==
  ASSUME RailInv, RailInv', NEW c \in Calls, Settle(c),
         chain[payload[c]] = "unused", chain'[payload[c]] # "failed",
         takenBy' = [takenBy EXCEPT ![payload[c]] = c],
         \A q \in Payloads \ {payload[c]} : chain'[q] = chain[q]
  PROVE  Promise!Spent(PayerOf[payload[c]], reservedOn[c]) + Amount[payload[c]] <= Cap
  <1> PICK p \in Payloads : p = payload[c]
    BY DEF RailInv, Types
  <1> PICK who : who = PayerOf[p]
    OBVIOUS
  <1> PICK d \in Days : d = reservedOn[c]
    BY DEF RailInv, Types
  <1>0. /\ UNCHANGED <<payload, reservedOn>> /\ Begun(c) /\ takenBy[p] = NoCall
        /\ takenBy \in [Payloads -> Calls \cup {NoCall}]
    BY DEF Settle, request, Awaits, Begun, RailInv, Takers, Types
  <1>1. who \in Payers
    BY <1>0 DEF RailInv, Takers
  <1> PICK b \in Payers \X Days : b = <<who, d>>
    BY <1>1
  <1>2. TakenIn(b)' = TakenIn(b) \cup {p} /\ p \notin TakenIn(b)
    <2>1. \A q \in Payloads : q \in TakenIn(b)' <=> q \in TakenIn(b) \/ q = p
      BY <1>0, X402Constants DEF TakenIn
    <2> QED BY <1>0, <2>1 DEF TakenIn
  <1>3. Total(Amount, TakenIn(b)') <= Cap
    <2>1. AllowanceKept'
      BY AllowanceIsKeptNext
    <2> QED BY <2>1 DEF AllowanceKept, DailyCapHolds
  <1>4. Total(Amount, TakenIn(b) \cup {p}) = Total(Amount, TakenIn(b)) + Amount[p]
    <2>1. TakenIn(b) \in SUBSET Payloads /\ p \in Payloads \ TakenIn(b)
      BY <1>2 DEF TakenIn
    <2> QED BY <2>1, AmountAdds
  <1>5. Promise!Spent(who, d) = Total(Amount, TakenIn(b))
    <2>1. Promise!TakenIn(who, d) = TakenIn(b)
      BY <1>1, TakenAlike DEF RailInv
    <2>2. Promise!Spent(who, d) = Total(Amount, Promise!TakenIn(who, d))
      BY SpentIs
    <2> QED BY <2>1, <2>2
  <1> QED BY <1>2, <1>3, <1>4, <1>5

(* The steps of the promise, in the rail's terms. *)
LEMMA ToAssign ==
  ASSUME NEW c \in Calls, NEW d \in Days, Outcomes[c] = "open",
         \A p \in Payloads : Kept[p] # c,
         reservedOn' = [reservedOn EXCEPT ![c] = d], UNCHANGED <<payload, Outcomes, Kept>>
  PROVE  Promise!Assign(c, d)
  BY DEF Promise!Assign, Outcomes, Kept

LEMMA ToTake ==
  ASSUME NEW c \in Calls, Outcomes[c] = "open", Kept[payload[c]] = NoCall,
         Promise!Spent(PayerOf[payload[c]], reservedOn[c]) + Amount[payload[c]] <= Cap,
         Kept' = [Kept EXCEPT ![payload[c]] = c],
         NEW o \in {"open", "doubtful", "owed"}, Outcomes' = [Outcomes EXCEPT ![c] = o],
         UNCHANGED <<payload, reservedOn>>
  PROVE  Promise!Take(c)
  BY DEF Promise!Take, Promise!Becomes, Outcomes, Kept

LEMMA ToRefuse ==
  ASSUME NEW c \in Calls, Outcomes[c] = "open", Kept[payload[c]] # c,
         Outcomes' = [Outcomes EXCEPT ![c] = "refused"], UNCHANGED <<payload, reservedOn, Kept>>
  PROVE  Promise!Refuse(c)
  BY DEF Promise!Refuse, Promise!Becomes, Outcomes, Kept

LEMMA ToDoubt ==
  ASSUME NEW c \in Calls, Outcomes[c] = "open",
         Outcomes' = [Outcomes EXCEPT ![c] = "doubtful"], UNCHANGED <<payload, reservedOn, Kept>>
  PROVE  Promise!Doubt(c)
  BY DEF Promise!Doubt, Promise!Becomes, Outcomes, Kept

LEMMA ToOwe ==
  ASSUME NEW c \in Calls, Outcomes[c] = "open", Kept[payload[c]] # NoCall,
         Outcomes' = [Outcomes EXCEPT ![c] = "owed"], UNCHANGED <<payload, reservedOn, Kept>>
  PROVE  Promise!Owe(c)
  BY DEF Promise!Owe, Promise!Becomes, Outcomes, Kept

LEMMA ToServe ==
  ASSUME NEW c \in Calls, Outcomes[c] = "owed",
         Outcomes' = [Outcomes EXCEPT ![c] = "served"], UNCHANGED <<payload, reservedOn, Kept>>
  PROVE  Promise!Serve(c)
  BY DEF Promise!Serve, Promise!Becomes, Outcomes, Kept

LEMMA ToReturn ==
  ASSUME NEW p \in Payloads, Kept[p] # NoCall, Kept' = [Kept EXCEPT ![p] = NoCall],
         UNCHANGED <<payload, Outcomes, reservedOn>>
  PROVE  Promise!Return(p)
  BY DEF Promise!Return, Outcomes, Kept

LEMMA ToStutter ==
  ASSUME UNCHANGED <<payload, Outcomes, reservedOn, Kept>>
  PROVE  UNCHANGED Promise!vars
  BY DEF Promise!vars, Outcomes, Kept

Promised == Promise!Next \/ UNCHANGED Promise!vars

(* A call's settlement is a step of the promise. *)
LEMMA SettlePromised ==
  ASSUME RailInv, RailInv', NEW c \in Calls, Settle(c)
  PROVE  Promised
  <1> PICK p \in Payloads : p = payload[c]
    BY DEF RailInv, Types
  <1>0. /\ stage \in [Calls -> Stages] /\ answer \in [Calls -> Answers]
        /\ answer[c] = "none" /\ stage[c] \in {"reserved", "retrying"}
        /\ chain \in [Payloads -> {"unused", "queued", "sent", "confirmed", "failed"}]
        /\ takenBy \in [Payloads -> Calls \cup {NoCall}]
        /\ UNCHANGED <<payload, reservedOn>> /\ Types /\ Types' /\ Takers
    BY DEF RailInv, Types, Settle, Awaits, request
  <1>1. PICK reply \in Replies :
          /\ Facilitates(c, reply)
          /\ \/ Settled(c, reply)
             \/ reply = "pending" /\ Reaches(c, "retrying")
    BY DEF Settle, Replies
  <1>2. PICK o \in {"open", "doubtful", "owed"} :
          /\ o = Outcome(c)'
          /\ reply = "success" => o = "owed"
          /\ reply = "failure" => o = "open"
    BY <1>0, <1>1 DEF Settled, Replies, Reaches, Ends, Outcome
  <1>3. Outcomes' = [Outcomes EXCEPT ![c] = o] /\ Outcomes[c] = "open"
    <2>1. \A d \in Calls \ {c} : stage'[d] = stage[d] /\ answer'[d] = answer[d]
      BY <1>0, <1>1 DEF Settled, Replies, Reaches, Ends
    <2>2. Outcome(c) = "open"
      BY <1>0 DEF Outcome
    <2> QED BY <1>0, <1>2, <2>1, <2>2, OutcomeMoves
  <1>4. /\ \A q \in Payloads : Kept[q] = IF chain[q] = "failed" THEN NoCall ELSE takenBy[q]
        /\ Kept \in [Payloads -> Calls \cup {NoCall}]
        /\ Kept' = [q \in Payloads |-> IF chain'[q] = "failed" THEN NoCall ELSE takenBy'[q]]
        /\ chain[p] = "unused" <=> takenBy[p] = NoCall
    BY <1>0 DEF Kept, Takers
  <1>5. CASE /\ chain[p] = "unused" /\ takenBy' = [takenBy EXCEPT ![p] = c]
             /\ \E s \in {"queued", "sent"} : chain' = [chain EXCEPT ![p] = s]
    <2>1. chain'[p] # "failed" /\ \A q \in Payloads \ {p} : chain'[q] = chain[q]
      BY <1>0, <1>5
    <2>2. Promise!Spent(PayerOf[payload[c]], reservedOn[c]) + Amount[payload[c]] <= Cap
      BY <1>5, <2>1, TakeIsWithinCap
    <2>3. Kept[payload[c]] = NoCall
      BY <1>4, <1>5
    <2>4. Kept' = [Kept EXCEPT ![payload[c]] = c]
      <3>1. \A q \in Payloads : chain'[q] = chain[q] \/ q = p
        BY <2>1
      <3>2. takenBy'[p] = c /\ \A q \in Payloads \ {p} : takenBy'[q] = takenBy[q]
        BY <1>0, <1>5
      <3>3. \A q \in Payloads : Kept'[q] = IF q = p THEN c ELSE Kept[q]
        BY <1>4, <2>1, <3>1, <3>2
      <3>4. DOMAIN Kept = Payloads /\ DOMAIN Kept' = Payloads /\ Kept' = [q \in Payloads |-> Kept'[q]]
        BY <1>4
      <3> QED BY <3>3, <3>4
    <2>5. Promise!Take(c)
      BY <1>0, <1>2, <1>3, <2>2, <2>3, <2>4, ToTake
    <2> QED BY <2>5 DEF Promised, Promise!Next
  <1>6. CASE takenBy[p] = c /\ chain[p] = "queued" /\ chain' = [chain EXCEPT ![p] = "failed"]
             /\ takenBy' = takenBy /\ reply = "failure"
    <2>1. Kept[p] # NoCall /\ Kept' = [Kept EXCEPT ![p] = NoCall]
      BY <1>0, <1>4, <1>6
    <2>2. Outcomes' = Outcomes
      BY <1>2, <1>3, <1>6 DEF Outcomes
    <2> QED BY <1>0, <2>1, <2>2, ToReturn DEF Promised, Promise!Next
  <1>7. CASE /\ takenBy' = takenBy
             /\ chain' = chain \/ (chain[p] = "queued" /\ chain' = [chain EXCEPT ![p] = "sent"])
             /\ reply = "success" => chain[p] \notin {"unused", "failed"}
    <2>1. Kept' = Kept
      BY <1>0, <1>4, <1>7
    <2>2. CASE o = "open"
      <3>1. Outcomes' = Outcomes
        BY <1>3, <2>2 DEF Outcomes
      <3> QED BY <1>0, <2>1, <3>1, ToStutter DEF Promised
    <2>3. CASE o = "doubtful"
      BY <1>0, <1>3, <2>1, <2>3, ToDoubt DEF Promised, Promise!Next
    <2>4. CASE o = "owed"
      <3>1. reply = "success"
        BY <1>0, <1>1, <1>2, <2>4 DEF Settled, Replies, Reaches, Ends, Outcome
      <3>2. Kept[payload[c]] # NoCall
        BY <1>4, <1>7, <3>1
      <3> QED BY <1>0, <1>3, <2>1, <2>4, <3>2, ToOwe DEF Promised, Promise!Next
    <2> QED BY <2>2, <2>3, <2>4
  <1> QED BY <1>1, <1>5, <1>6, <1>7 DEF Facilitates, Replies, transfers

(* Every step of the rail is a step of the promise, or none. *)
LEMMA StepPromised ==
  ASSUME RailInv, RailInv', [Next]_vars
  PROVE  Promised
  <1> USE DEF request, counter, store, reconciliation, transfers
  <1>0. /\ stage \in [Calls -> Stages] /\ answer \in [Calls -> Answers]
        /\ takenBy \in [Payloads -> Calls \cup {NoCall}] /\ payload \in [Calls -> Payloads]
        /\ Types /\ Types' /\ Takers
    BY DEF RailInv, Types
  <1>1. ASSUME UNCHANGED <<stage, answer, chain, takenBy, payload, reservedOn>> PROVE Promised
    BY <1>1, OutcomesStay, ToStutter DEF Promised, Kept
  <1>2. ASSUME NEW c \in Calls, ~Begun(c) \/ stage[c] = "releasing" PROVE Kept[payload[c]] # c
    BY <1>0, <1>2, X402Constants DEF Kept, Takers
  <1>3. ASSUME NEW c \in Calls, ~Begun(c), NEW p \in Payloads PROVE Kept[p] # c
    BY <1>0, <1>3, X402Constants DEF Kept, Takers
  <1>4. ASSUME UNCHANGED <<chain, takenBy>> PROVE Kept' = Kept
    BY <1>4 DEF Kept
  <1>5. ASSUME NEW c \in Calls, Verify(c) PROVE Promised
    <2>1. UNCHANGED <<payload, reservedOn, chain, takenBy>> /\ ~Begun(c)
      BY <1>5 DEF Verify, Awaits, Begun
    <2>2. Outcomes[c] = "open" /\ Outcomes' = [Outcomes EXCEPT ![c] = Outcome(c)']
      BY <1>0, <1>5, OutcomeMoves DEF Verify, Awaits, Reaches, Ends, Outcome
    <2>3. Outcome(c)' = "open" \/ Outcome(c)' = "refused"
      BY <1>0, <1>5 DEF Verify, Awaits, Reaches, Ends, Outcome
    <2>4. CASE Outcome(c)' = "open"
      <3>1. Outcomes' = Outcomes
        BY <2>2, <2>4 DEF Outcomes
      <3> QED BY <1>4, <2>1, <3>1, ToStutter DEF Promised
    <2>5. CASE Outcome(c)' = "refused"
      BY <1>2, <1>4, <2>1, <2>2, <2>5, ToRefuse DEF Promised, Promise!Next
    <2> QED BY <2>3, <2>4, <2>5
  <1>6. ASSUME NEW c \in Calls, Reserve(c) PROVE Promised
    <2>1. UNCHANGED <<payload, chain, takenBy>> /\ ~Begun(c)
      BY <1>6 DEF Reserve, Awaits, Begun
    <2>2. Outcomes[c] = "open" /\ Outcomes' = [Outcomes EXCEPT ![c] = Outcome(c)']
      BY <1>0, <1>6, OutcomeMoves DEF Reserve, Awaits, Reaches, Ends, Outcome
    <2>3. \/ /\ Reaches(c, "reserved") /\ reservedOn' = [reservedOn EXCEPT ![c] = day]
          \/ /\ Ends(c, "refused") \/ Ends(c, "unavailable")
             /\ UNCHANGED reservedOn
      BY <1>6 DEF Reserve
    <2>4. CASE Reaches(c, "reserved") /\ reservedOn' = [reservedOn EXCEPT ![c] = day]
      <3>1. Outcome(c)' = "open"
        BY <1>0, <1>6, <2>4 DEF Reserve, Awaits, Reaches, Outcome
      <3>2. Outcomes' = Outcomes
        BY <2>2, <3>1 DEF Outcomes
      <3>3. Promise!Assign(c, day)
        <4> PICK d \in Days : d = day
          BY <1>0 DEF Types
        <4>1. \A p \in Payloads : Kept[p] # c
          BY <1>3, <2>1
        <4> QED BY <1>4, <2>1, <2>2, <2>4, <3>2, <4>1, ToAssign
      <3> QED BY <1>0, <3>3 DEF Promised, Promise!Next, Types
    <2>5. CASE (Ends(c, "refused") \/ Ends(c, "unavailable")) /\ UNCHANGED reservedOn
      <3>1. Outcome(c)' = "refused"
        BY <1>0, <1>6, <2>5 DEF Reserve, Awaits, Ends, Outcome
      <3> QED BY <1>2, <1>4, <2>1, <2>2, <2>5, <3>1, ToRefuse DEF Promised, Promise!Next
    <2> QED BY <2>3, <2>4, <2>5
  <1>7. ASSUME NEW c \in Calls, Settle(c) PROVE Promised
    BY <1>7, SettlePromised
  <1>8. ASSUME NEW c \in Calls, Release(c) PROVE Promised
    <2>1. UNCHANGED <<payload, reservedOn, chain, takenBy>> /\ stage[c] = "releasing"
      BY <1>8 DEF Release, Awaits
    <2>2. Outcomes[c] = "open" /\ Outcomes' = [Outcomes EXCEPT ![c] = "refused"]
      BY <1>0, <1>8, OutcomeMoves DEF Release, Awaits, Ends, Outcome
    <2> QED BY <1>2, <1>4, <2>1, <2>2, ToRefuse DEF Promised, Promise!Next
  <1>9. ASSUME NEW c \in Calls, Record(c) \/ Deliver(c) PROVE Promised
    <2>1. UNCHANGED <<payload, reservedOn, chain, takenBy>>
      BY <1>9 DEF Record, Deliver
    <2>2. Outcome(c)' = Outcome(c) /\ Outcomes' = [Outcomes EXCEPT ![c] = Outcome(c)']
      BY <1>0, <1>9, OutcomeMoves DEF Record, Deliver, Awaits, Reaches, Ends, Outcome
    <2>3. Outcomes' = Outcomes
      BY <2>2 DEF Outcomes
    <2> QED BY <1>4, <2>1, <2>3, ToStutter DEF Promised
  <1>10. ASSUME NEW c \in Calls, Correct(c) PROVE Promised
    <2>1. UNCHANGED <<payload, reservedOn, chain, takenBy>>
      BY <1>10 DEF Correct
    <2>2. Outcomes[c] = "owed" /\ Outcomes' = [Outcomes EXCEPT ![c] = "served"]
      BY <1>0, <1>10, OutcomeMoves DEF Correct, Awaits, Ends, Outcome
    <2> QED BY <1>4, <2>1, <2>2, ToServe DEF Promised, Promise!Next
  <1>11. ASSUME NEW c \in Calls, Abandon(c) PROVE Promised
    <2>1. UNCHANGED <<payload, reservedOn, chain, takenBy>>
      BY <1>11 DEF Abandon
    <2>2. Outcomes[c] = Outcome(c) /\ Outcomes' = [Outcomes EXCEPT ![c] = Outcome(c)']
      BY <1>0, <1>11, OutcomeMoves DEF Abandon, Ends
    <2>3. \/ Outcome(c) = "owed" /\ Outcome(c)' = "owed"
          \/ Outcome(c) = "open" /\ Outcome(c)' = "doubtful"
      BY <1>0, <1>11 DEF Abandon, Ends, Outcome
    <2>4. CASE Outcome(c) = "owed" /\ Outcome(c)' = "owed"
      <3>1. Outcomes' = Outcomes
        BY <2>2, <2>4 DEF Outcomes
      <3> QED BY <1>4, <2>1, <3>1, ToStutter DEF Promised
    <2>5. CASE Outcome(c) = "open" /\ Outcome(c)' = "doubtful"
      BY <1>4, <2>1, <2>2, <2>5, ToDoubt DEF Promised, Promise!Next
    <2> QED BY <2>3, <2>4, <2>5
  <1>12. ASSUME NEW p \in Payloads, ChainMoves(p) PROVE Promised
    <2>1. UNCHANGED <<payload, reservedOn, stage, answer, takenBy>>
      BY <1>12 DEF ChainMoves
    <2>2. CASE chain' = [chain EXCEPT ![p] = "failed"]
      <3>1. Kept[p] # NoCall /\ Kept' = [Kept EXCEPT ![p] = NoCall]
        <4>1. chain[p] \in {"queued", "sent"} /\ takenBy[p] \in Calls /\ takenBy[p] # NoCall
          BY <1>0, <1>12, X402Constants DEF ChainMoves, Takers
        <4>2. Kept[p] = takenBy[p]
          BY <4>1 DEF Kept
        <4>3. chain \in [Payloads -> {"unused", "queued", "sent", "confirmed", "failed"}]
          BY <1>0 DEF Types
        <4>4. Kept' = [Kept EXCEPT ![p] = NoCall]
          BY <2>1, <2>2, <4>3 DEF Kept
        <4> QED BY <4>1, <4>2, <4>4
      <3> QED BY <2>1, <3>1, OutcomesStay, ToReturn DEF Promised, Promise!Next
    <2>3. CASE chain' # [chain EXCEPT ![p] = "failed"]
      <3>1. Kept' = Kept
        BY <1>0, <1>12, <2>1, <2>3 DEF ChainMoves, Kept, Types
      <3> QED BY <2>1, <3>1, OutcomesStay, ToStutter DEF Promised
    <2> QED BY <2>2, <2>3
  <1>13. ASSUME \/ UNCHANGED vars \/ ReconcileLists \/ Midnight
                \/ \E k \in Calls : ReconcileReads(k) \/ ReconcileChecks(k)
         PROVE  Promised
    BY <1>1, <1>13 DEF vars, ReconcileLists, ReconcileReads, ReconcileChecks, Midnight
  <1> QED BY <1>5, <1>6, <1>7, <1>8, <1>9, <1>10, <1>11, <1>12, <1>13 DEF Next

(* The payment rail keeps what PaidRequest promises: a payment is taken at  *)
(* most once and within the day's cap, a refused request has not taken one, *)
(* and only a taken payment makes a request owed, whatever is lost, however *)
(* calls interleave and wherever one ends (handleAcceptRequest of offers.ts *)
(* with x402.ts and x402-spend.ts).                                         *)
THEOREM RailKeepsPromise == Spec => ImplementsPaidRequest
  <1>1. Init => Promise!Init
    <2> SUFFICES ASSUME Init PROVE Promise!Init
      OBVIOUS
    <2>1. Outcomes = [c \in Calls |-> "open"]
      BY DEF Init, Outcomes, Outcome
    <2>2. Kept = [p \in Payloads |-> NoCall]
      BY DEF Init, Kept
    <2>3. payload \in [Calls -> Payloads] /\ reservedOn \in [Calls -> Days]
      BY X402Constants DEF Init, Days
    <2> QED BY <2>1, <2>2, <2>3 DEF Promise!Init, Outcomes, Kept
  <1>2. RailInv /\ RailInv' /\ [Next]_vars => [Promise!Next]_(Promise!vars)
    BY StepPromised DEF Promised
  <1> QED BY <1>1, <1>2, RailInvHolds, PTL DEF Spec, ImplementsPaidRequest, Promise!Spec
-----------------------------------------------------------------------------
(* Quotes.  The whole of what an offer promises is an invariant of the      *)
(* tokens signed: what was asked for, what is there, what is left.          *)

QuotesSpec == QuotesInit /\ [][QuotesNext]_quoteVars

-----------------------------------------------------------------------------
(* What is quoted and what is delivered *)

Files == {FederalFile} \cup NextFiles \cup {FirstRegistry[d] : d \in DOMAIN FirstRegistry}
QuotedScopes ==
  {OfRiding(r) : r \in Ridings} \cup {OfPoint(f) : f \in Files}
    \cup {OfShape(s, p) : s \in Shapes, p \in Provinces}
Offers == [id : Nat, scope : QuotedScopes, maximum : Nat, price : Nat, expires : Nat]
Payments == [offer : Offers, amount : Nat]

QuoteTypes ==
  /\ file \in [Ridings -> FileOf] /\ covered \subseteq Provinces
  /\ registry \in [DOMAIN FirstRegistry -> Files] /\ clock \in Nat
  /\ offers \subseteq Offers /\ IsFiniteSet(offers)
  /\ paid \in Seq(Payments)
  /\ changed \subseteq offers
  /\ \A due \in owed : due.why = "refused" => due.offer \in changed

(* An offer asks the published price, and unless the world has changed what *)
(* it names is there to be delivered.                                       *)
Priced(o) == o.price = IF IsPoint(o.scope) THEN PointPrice ELSE Price(o.maximum)
OfferStands(o) ==
  \/ o \in changed
  \/ IF Named(o.scope) THEN Resolves(o.scope.riding)
     ELSE IF IsPoint(o.scope)
     THEN FileOfDataset(RouteOf(o.scope.dataset)) = o.scope.dataset
     ELSE o.scope.province \in covered
Sound(o) == Priced(o) /\ OfferStands(o)

PaidFor(o) == \E n \in DOMAIN paid : paid[n].offer = o /\ paid[n].amount = o.price

AcceptOK(a) ==
  a.offer \in offers /\ PaidFor(a.offer) /\ SameBoundary(a.offer.scope, a.boundary)

CursorOK(c) ==
  /\ c.offer \in offers /\ PaidFor(c.offer)
  /\ c.scope = c.offer.scope /\ ~IsPoint(c.scope) /\ c.expires = c.offer.expires
  /\ c.after \in Nat /\ c.remaining \in Nat \ {0}
  /\ c.after + c.remaining <= c.offer.maximum

(* What a page is, of the place that was quoted or of a file that was read  *)
(* as it is.                                                                *)
PlaceAsQuoted(page) ==
  LET scope == page.offer.scope
  IN IF Named(scope) THEN page.offer \in changed \/ page.place = file[scope.riding]
     ELSE IF IsPoint(scope) THEN page.offer \in changed \/ page.place.shape = scope.dataset
     ELSE page.place = [shape |-> scope.shape, province |-> scope.province]

PageOK(page) ==
  /\ page.offer \in offers /\ PaidFor(page.offer)
  /\ PlaceAsQuoted(page)
  /\ page.after > 0 => page.at < page.offer.expires
  /\ page.after + page.count <= Greatest(page.offer.maximum, 1)

QuoteInv ==
  /\ QuoteTypes
  /\ \A o \in offers : Sound(o)
  /\ \A a \in accepting : AcceptOK(a)
  /\ \A c \in cursors : CursorOK(c)
  /\ \A page \in pages : PageOK(page)

(* The kinds of scope exclude one another. *)
LEMMA ScopeKinds ==
  /\ \A r \in Ridings : /\ OfRiding(r) \in QuotedScopes
                        /\ Named(OfRiding(r)) /\ OfRiding(r).riding = r
                        /\ ~IsPoint(OfRiding(r)) /\ OfRiding(r).shape = Absent
  /\ \A f \in Files : /\ OfPoint(f) \in QuotedScopes
                      /\ ~Named(OfPoint(f)) /\ IsPoint(OfPoint(f))
                      /\ OfPoint(f).dataset = f /\ OfPoint(f).shape = Absent
  /\ \A s \in Shapes, p \in Provinces :
       /\ OfShape(s, p) \in QuotedScopes
       /\ ~Named(OfShape(s, p)) /\ ~IsPoint(OfShape(s, p))
       /\ OfShape(s, p).shape = s /\ OfShape(s, p).province = p
  <1>1. Absent \notin Files /\ Absent \notin Ridings
    BY QuoteConstants DEF Files
  <1> QED BY <1>1 DEF OfRiding, OfPoint, OfShape, Named, IsPoint, QuotedScopes

LEMMA ScopeKind ==
  ASSUME NEW scope \in QuotedScopes
  PROVE  \/ \E r \in Ridings : scope = OfRiding(r)
         \/ \E f \in Files : scope = OfPoint(f)
         \/ \E s \in Shapes, p \in Provinces : scope = OfShape(s, p)
  BY DEF QuotedScopes

(* A file a route names is the one that is read when its own name is routed *)
(* back.                                                                    *)
LEMMA RoutesBack ==
  ASSUME QuoteTypes, NEW d
  PROVE  /\ FileOfDataset(d) \in Files
         /\ FileOfDataset(RouteOf(FileOfDataset(d))) = FileOfDataset(d)
  <1> DEFINE f == FileOfDataset(d)
  <1>1. Federal \notin DOMAIN registry /\ registry \in [DOMAIN FirstRegistry -> Files]
    BY QuoteConstants DEF QuoteTypes
  <1>2. f \in Files /\ (f = FederalFile \/ \E e \in DOMAIN registry : registry[e] = f)
    BY <1>1 DEF FileOfDataset, Files
  <1> HIDE DEF f
  <1>3. CASE \E e \in DOMAIN registry : registry[e] = f
    <2>1. RouteOf(f) \in DOMAIN registry /\ registry[RouteOf(f)] = f
      BY <1>3 DEF RouteOf
    <2> QED BY <1>2, <2>1 DEF FileOfDataset, f
  <1>4. CASE ~\E e \in DOMAIN registry : registry[e] = f
    <2>1. RouteOf(f) = Federal /\ f = FederalFile
      BY <1>2, <1>4 DEF RouteOf
    <2> QED BY <1>1, <1>2, <2>1 DEF FileOfDataset, f
  <1> QED BY <1>3, <1>4

LEMMA PriceIsNat ==
  ASSUME NEW m \in Nat
  PROVE  Price(m) \in Nat
  BY QuoteConstants DEF Price

LEMMA MaximumIsNat ==
  ASSUME NEW halves \in AskedHalves
  PROVE  Maximum(halves) \in Nat
  BY QuoteConstants DEF Maximum

-----------------------------------------------------------------------------
LEMMA QuoteInvInit ==
  ASSUME QuotesInit
  PROVE  QuoteInv
  <1>1. FirstRegistry \in [DOMAIN FirstRegistry -> Files]
    BY QuoteConstants DEF Files
  <1> QED BY <1>1, FS_EmptySet DEF QuotesInit, QuoteInv, QuoteTypes

(* A new offer, priced as published, of what is there. *)
LEMMA IssuesKeeps ==
  ASSUME QuoteInv, NEW scope \in QuotedScopes, NEW m \in Nat, NEW price \in Nat,
         Issues(scope, m, price), price = IF IsPoint(scope) THEN PointPrice ELSE Price(m),
         IF Named(scope) THEN Resolves(scope.riding)
         ELSE IF IsPoint(scope) THEN FileOfDataset(RouteOf(scope.dataset)) = scope.dataset
         ELSE scope.province \in covered
  PROVE  QuoteInv'
  <1> DEFINE new == SignedOffer(scope, m, price)
  <1>0. /\ UNCHANGED <<file, covered, registry, clock, changed, accepting, cursors, pages, paid,
                       owed>>
        /\ offers' = offers \cup {new}
    BY DEF Issues, world
  <1>1. new \in Offers /\ new.scope = scope /\ new.maximum = m /\ new.price = price
    <2>1. Cardinality(offers) + 1 \in Nat /\ clock + OfferTTL \in Nat
      BY FS_CardinalityType, QuoteConstants DEF QuoteInv, QuoteTypes
    <2> QED BY <2>1 DEF SignedOffer, Offers
  <1> HIDE DEF new
  <1>2. QuoteTypes'
    <2>1. IsFiniteSet(offers')
      BY <1>0, FS_AddElement DEF QuoteInv, QuoteTypes
    <2> QED BY <1>0, <1>1, <2>1 DEF QuoteInv, QuoteTypes
  <1>3. ASSUME NEW o \in offers' PROVE Sound(o)'
    <2>1. Priced(o)'
      BY <1>0, <1>1 DEF QuoteInv, Sound, Priced
    <2>2. OfferStands(o)'
      BY <1>0, <1>1 DEF QuoteInv, Sound, OfferStands, Resolves, FileOfDataset, RouteOf
    <2> QED BY <2>1, <2>2 DEF Sound
  <1>4. \A a \in accepting' : AcceptOK(a)'
    BY <1>0 DEF QuoteInv, AcceptOK, PaidFor
  <1>5. \A c \in cursors' : CursorOK(c)'
    BY <1>0 DEF QuoteInv, CursorOK, PaidFor
  <1>6. \A page \in pages' : PageOK(page)'
    BY <1>0 DEF QuoteInv, PageOK, PaidFor, PlaceAsQuoted
  <1> QED BY <1>2, <1>3, <1>4, <1>5, <1>6 DEF QuoteInv

LEMMA QuotesKeep ==
  ASSUME QuoteInv,
         \/ \E d \in Datasets : QuotesPoint(d)
         \/ \E r \in Ridings : QuotesRiding(r)
         \/ \E s \in Shapes, p \in Provinces : QuotesShape(s, p)
  PROVE  QuoteInv'
  <1>1. ASSUME NEW d \in Datasets, QuotesPoint(d) PROVE QuoteInv'
    <2> PICK f : f = FileOfDataset(d)
      OBVIOUS
    <2>1. f \in Files /\ FileOfDataset(RouteOf(f)) = f
      BY RoutesBack DEF QuoteInv
    <2>2. Issues(OfPoint(f), 1, PointPrice) /\ PointPrice \in Nat
      BY <1>1, QuoteConstants DEF QuotesPoint
    <2> QED BY <2>1, <2>2, ScopeKinds, IssuesKeeps
  <1>2. ASSUME NEW r \in Ridings, QuotesRiding(r) PROVE QuoteInv'
    <2>1. PICK halves \in AskedHalves :
            Issues(OfRiding(r), Maximum(halves), Price(Maximum(halves)))
      BY <1>2 DEF QuotesRiding, IssuesArea
    <2>2. Maximum(halves) \in Nat /\ Price(Maximum(halves)) \in Nat
      BY MaximumIsNat, PriceIsNat
    <2>3. Resolves(r)
      BY <1>2 DEF QuotesRiding
    <2> QED BY <2>1, <2>2, <2>3, ScopeKinds, IssuesKeeps
  <1>3. ASSUME NEW s \in Shapes, NEW p \in Provinces, QuotesShape(s, p) PROVE QuoteInv'
    <2>1. PICK halves \in AskedHalves :
            Issues(OfShape(s, p), Maximum(halves), Price(Maximum(halves)))
      BY <1>3 DEF QuotesShape, IssuesArea
    <2>2. Maximum(halves) \in Nat /\ Price(Maximum(halves)) \in Nat
      BY MaximumIsNat, PriceIsNat
    <2>3. p \in covered
      BY <1>3 DEF QuotesShape
    <2> QED BY <2>1, <2>2, <2>3, ScopeKinds, IssuesKeeps
  <1> QED BY <1>1, <1>2, <1>3

(* A payment is for the price of the offer, and what was paid stays paid. *)
LEMMA PaysKeeps ==
  ASSUME QuoteInv, NEW offer \in offers, NEW boundary, Pays(offer, boundary)
  PROVE  QuoteInv'
  <1> DEFINE new == [offer |-> offer, amount |-> offer.price]
  <1>0. /\ UNCHANGED <<file, covered, registry, clock, changed, offers, cursors, pages, owed>>
        /\ paid' = Append(paid, new)
        /\ accepting' = accepting \cup {[offer |-> offer, boundary |-> boundary]}
        /\ SameBoundary(offer.scope, boundary)
    BY DEF Pays, world, Payable
  <1>1. new \in Payments /\ new.offer = offer /\ new.amount = offer.price
    BY DEF QuoteInv, QuoteTypes, Offers, Payments
  <1> HIDE DEF new
  <1>2. /\ paid' \in Seq(Payments) /\ Len(paid') = Len(paid) + 1
        /\ \A n \in DOMAIN paid : n \in DOMAIN paid' /\ paid'[n] = paid[n]
        /\ Len(paid) + 1 \in DOMAIN paid' /\ paid'[Len(paid) + 1] = new
    BY <1>0, <1>1 DEF QuoteInv, QuoteTypes
  <1>3. ASSUME NEW o PROVE PaidFor(o) => PaidFor(o)'
    BY <1>2 DEF PaidFor
  <1>4. PaidFor(offer)'
    BY <1>1, <1>2 DEF PaidFor
  <1>5. QuoteTypes'
    BY <1>0, <1>2 DEF QuoteInv, QuoteTypes
  <1>6. \A o \in offers' : Sound(o)'
    BY <1>0 DEF QuoteInv, Sound, Priced, OfferStands, Resolves, FileOfDataset, RouteOf
  <1>7. ASSUME NEW a \in accepting' PROVE AcceptOK(a)'
    <2>1. CASE a \in accepting
      BY <1>0, <1>3, <2>1 DEF QuoteInv, AcceptOK
    <2>2. CASE a = [offer |-> offer, boundary |-> boundary]
      BY <1>0, <1>4, <2>2 DEF AcceptOK
    <2> QED BY <1>0, <2>1, <2>2
  <1>8. \A c \in cursors' : CursorOK(c)'
    BY <1>0, <1>3 DEF QuoteInv, CursorOK
  <1>9. \A page \in pages' : PageOK(page)'
    BY <1>0, <1>3 DEF QuoteInv, PageOK, PlaceAsQuoted
  <1> QED BY <1>5, <1>6, <1>7, <1>8, <1>9 DEF QuoteInv

(* A page and its cursor add up to no more than the allowance. *)
LEMMA SizeFacts ==
  ASSUME NEW allowance \in Nat
  PROVE  /\ Size(allowance) \in Nat \ {0} /\ Size(allowance) <= Greatest(allowance, 1)
         /\ allowance > 0 => Size(allowance) <= allowance
  BY QuoteConstants DEF Size, Least, Greatest

LEMMA DeliversKeeps ==
  ASSUME QuoteInv, NEW offer \in offers, PaidFor(offer), ~IsPoint(offer.scope),
         NEW boundary, Deliverable(offer.scope, boundary),
         NEW after \in Nat, NEW allowance \in Nat,
         after + allowance <= offer.maximum, allowance = 0 => after = 0,
         after > 0 => clock < offer.expires,
         Delivers(offer, offer.scope, boundary, after, allowance),
         UNCHANGED <<file, covered, registry, clock, changed, offers, paid, owed>>,
         accepting' \subseteq accepting
  PROVE  QuoteInv'
  <1> PICK scope \in QuotedScopes : scope = offer.scope
    BY DEF QuoteInv, QuoteTypes, Offers
  <1> PICK place : place = PlaceOf(scope, boundary)
    OBVIOUS
  <1> PICK rows : rows = Rows[<<place.shape, place.province>>]
    OBVIOUS
  <1> PICK count : count = Least(Size(allowance), Greatest(rows - after, 0))
    OBVIOUS
  <1> PICK remaining : remaining = Greatest(allowance - count, 0)
    OBVIOUS
  <1> PICK page : page = [offer |-> offer, place |-> place, after |-> after, count |-> count,
                          at |-> clock]
    OBVIOUS
  <1> PICK next : next = SignedCursor(offer, scope, after + count, remaining)
    OBVIOUS
  <1>1. /\ pages' = pages \cup {page}
        /\ cursors' = cursors \cup (IF rows > after + count /\ remaining > 0 THEN {next} ELSE {})
    BY DEF Delivers
  <1>2. rows \in Nat /\ (IF Named(scope) THEN place = file[scope.riding]
                         ELSE place = [shape |-> scope.shape, province |-> scope.province])
    <2>1. CASE \E r \in Ridings : scope = OfRiding(r)
      <3>1. PICK r \in Ridings : scope = OfRiding(r)
        BY <2>1
      <3>2. place = file[r] /\ Resolves(r) /\ Named(scope) /\ scope.riding = r
        BY <3>1, ScopeKinds DEF PlaceOf, Deliverable
      <3>3. place \in [shape : Shapes, province : Provinces]
        BY <3>2, QuoteConstants DEF Resolves, QuoteInv, QuoteTypes
      <3>4. Rows[<<place.shape, place.province>>] \in Nat
        BY <3>3, QuoteConstants
      <3> QED BY <3>2, <3>4
    <2>2. CASE \E s \in Shapes, p \in Provinces : scope = OfShape(s, p)
      <3>1. PICK s \in Shapes, p \in Provinces : scope = OfShape(s, p)
        BY <2>2
      <3>2. /\ ~Named(scope) /\ ~IsPoint(scope) /\ scope.shape = s /\ scope.province = p
            /\ boundary = s
        BY <3>1, ScopeKinds DEF Deliverable, SameBoundary
      <3>3. place = [shape |-> s, province |-> p]
        BY <3>2 DEF PlaceOf
      <3>4. place.shape = s /\ place.province = p
        BY <3>3
      <3>5. Rows[<<place.shape, place.province>>] \in Nat
        BY <3>4, QuoteConstants
      <3> QED BY <3>2, <3>3, <3>5
    <2>3. CASE \E f \in Files : scope = OfPoint(f)
      BY <2>3, ScopeKinds
    <2> QED BY <2>1, <2>2, <2>3, ScopeKind
  <1>3. ~IsPoint(scope) /\ offer.maximum \in Nat /\ clock \in Nat
    BY DEF QuoteInv, QuoteTypes, Offers
  <1>4. /\ count \in Nat /\ count <= Size(allowance)
        /\ remaining \in Nat /\ (remaining > 0 => count + remaining = allowance)
    <2> PICK size : size = Size(allowance)
      OBVIOUS
    <2>1. size \in Nat
      BY SizeFacts
    <2> PICK left : left = Greatest(rows - after, 0)
      OBVIOUS
    <2>2. left \in Nat
      BY <1>2 DEF Greatest
    <2>3. count \in Nat /\ count <= size
      BY <2>1, <2>2 DEF Least
    <2>4. remaining \in Nat /\ (remaining > 0 => count + remaining = allowance)
      BY <2>3 DEF Greatest
    <2> QED BY <2>3, <2>4
  <1>5. after + count <= Greatest(offer.maximum, 1)
    <2>1. CASE allowance = 0
      <3>1. Greatest(allowance, 1) = 1
        BY <2>1 DEF Greatest
      <3>2. Size(allowance) \in Nat /\ Size(allowance) <= 1
        BY <3>1, SizeFacts
      <3>3. count <= 1 /\ after = 0
        BY <1>4, <2>1, <3>2
      <3> QED BY <1>3, <1>4, <3>3 DEF Greatest
    <2>2. CASE allowance > 0
      <3>1. count <= allowance
        BY <1>4, <2>2, SizeFacts
      <3> QED BY <1>3, <1>4, <3>1 DEF Greatest
    <2> QED BY <2>1, <2>2
  <1>6. PageOK(page)'
    <2>1. PlaceAsQuoted(page)'
      BY <1>2, <1>3 DEF PlaceAsQuoted
    <2>2. PaidFor(offer)'
      BY DEF PaidFor
    <2> QED BY <1>5, <2>1, <2>2 DEF PageOK
  <1>7. remaining > 0 => CursorOK(next)'
    <2> SUFFICES ASSUME remaining > 0 PROVE CursorOK(next)'
      OBVIOUS
    <2>1. PaidFor(offer)'
      BY DEF PaidFor
    <2>2. after + count + remaining <= offer.maximum
      BY <1>3, <1>4
    <2> QED BY <1>3, <1>4, <2>1, <2>2 DEF CursorOK, SignedCursor
  <1>8. \A o \in offers' : Sound(o)'
    BY DEF QuoteInv, Sound, Priced, OfferStands, Resolves, FileOfDataset, RouteOf
  <1>9. \A a \in accepting' : AcceptOK(a)'
    BY DEF QuoteInv, AcceptOK, PaidFor
  <1>10. ASSUME NEW c \in cursors' PROVE CursorOK(c)'
    <2>1. c \in cursors => CursorOK(c)'
      BY DEF QuoteInv, CursorOK, PaidFor
    <2> QED BY <1>1, <1>7, <2>1
  <1>11. ASSUME NEW q \in pages' PROVE PageOK(q)'
    <2>1. q \in pages => PageOK(q)'
      BY DEF QuoteInv, PageOK, PaidFor, PlaceAsQuoted
    <2> QED BY <1>1, <1>6, <2>1
  <1>12. QuoteTypes'
    BY DEF QuoteInv, QuoteTypes
  <1> QED BY <1>8, <1>9, <1>10, <1>11, <1>12 DEF QuoteInv

LEMMA FirstKeeps ==
  ASSUME QuoteInv, NEW accept \in accepting, DeliversFirst(accept)
  PROVE  QuoteInv'
  <1> PICK offer \in offers : offer = accept.offer
    BY DEF QuoteInv, AcceptOK
  <1>0. /\ UNCHANGED <<file, covered, registry, clock, changed, offers, paid>>
        /\ accepting' \subseteq accepting
        /\ PaidFor(offer) /\ SameBoundary(offer.scope, accept.boundary)
        /\ offer \in Offers /\ Sound(offer)
    BY DEF DeliversFirst, world, QuoteInv, AcceptOK, QuoteTypes
  <1>1. \A a \in accepting' : AcceptOK(a)'
    BY <1>0 DEF QuoteInv, AcceptOK, PaidFor
  <1>2. \A o \in offers' : Sound(o)'
    BY <1>0 DEF QuoteInv, Sound, Priced, OfferStands, Resolves, FileOfDataset, RouteOf
  <1>3. \A c \in cursors : CursorOK(c)'
    BY <1>0 DEF QuoteInv, CursorOK, PaidFor
  <1>4. \A q \in pages : PageOK(q)'
    BY <1>0 DEF QuoteInv, PageOK, PaidFor, PlaceAsQuoted
  <1>5. CASE IsPoint(offer.scope) /\ DeliversPoint(offer) /\ UNCHANGED owed
    <2> PICK place : place = PlaceOf(offer.scope, Absent)
      OBVIOUS
    <2> PICK page : page = [offer |-> offer, place |-> place, after |-> 0, count |-> 1,
                            at |-> clock]
      OBVIOUS
    <2>1. pages' = pages \cup {page} /\ cursors' = cursors
      BY <1>5 DEF DeliversPoint
    <2>2. ~Named(offer.scope)
      BY <1>0, <1>5, ScopeKind, ScopeKinds DEF Offers
    <2>3. place.shape = FileOfDataset(RouteOf(offer.scope.dataset))
      BY <1>5, <2>2 DEF PlaceOf
    <2>4. PlaceAsQuoted(page)'
      BY <1>0, <1>5, <2>2, <2>3 DEF PlaceAsQuoted, Sound, OfferStands
    <2>5. PaidFor(offer)'
      BY <1>0 DEF PaidFor
    <2>6. PageOK(page)'
      BY <1>0, <2>4, <2>5 DEF PageOK, Greatest, Offers
    <2>7. QuoteTypes'
      BY <1>0, <1>5 DEF QuoteInv, QuoteTypes
    <2> QED BY <1>1, <1>2, <1>3, <1>4, <2>1, <2>6, <2>7 DEF QuoteInv
  <1>6. CASE /\ ~IsPoint(offer.scope) /\ Deliverable(offer.scope, accept.boundary)
             /\ Delivers(offer, offer.scope, accept.boundary, 0, offer.maximum)
             /\ UNCHANGED owed
    <2>1. offer.maximum \in Nat
      BY <1>0 DEF Offers
    <2> PICK maximum \in Nat : maximum = offer.maximum
      BY <2>1
    <2> PICK boundary : boundary = accept.boundary
      OBVIOUS
    <2>2. /\ 0 \in Nat /\ 0 + maximum <= maximum /\ (maximum = 0 => 0 = 0)
          /\ (0 > 0 => clock < offer.expires)
      OBVIOUS
    <2>3. Delivers(offer, offer.scope, boundary, 0, maximum)
      BY <1>6
    <2> QED BY <1>0, <1>6, <2>2, <2>3, DeliversKeeps
  <1>7. CASE /\ ~IsPoint(offer.scope) /\ ~Deliverable(offer.scope, accept.boundary)
             /\ Undelivered(offer, "refused")
    <2>1. offer \in changed
      BY <1>0, <1>7 DEF Sound, OfferStands, Deliverable
    <2>2. QuoteTypes' /\ UNCHANGED <<pages, cursors>>
      BY <1>0, <1>7, <2>1 DEF QuoteInv, QuoteTypes, Undelivered
    <2> QED BY <1>1, <1>2, <1>3, <1>4, <2>2 DEF QuoteInv
  <1>8. CASE Undelivered(offer, "failed")
    <2>1. QuoteTypes' /\ UNCHANGED <<pages, cursors>>
      BY <1>0, <1>8 DEF QuoteInv, QuoteTypes, Undelivered
    <2> QED BY <1>1, <1>2, <1>3, <1>4, <2>1 DEF QuoteInv
  <1> QED BY <1>5, <1>6, <1>7, <1>8 DEF DeliversFirst

LEMMA NextKeeps ==
  ASSUME QuoteInv, NEW cursor \in cursors, NEW boundary, DeliversNext(cursor, boundary)
  PROVE  QuoteInv'
  <1> PICK offer \in offers : offer = cursor.offer
    BY DEF QuoteInv, CursorOK
  <1>1. /\ PaidFor(offer) /\ cursor.scope = offer.scope /\ ~IsPoint(offer.scope)
        /\ cursor.after \in Nat /\ cursor.remaining \in Nat \ {0}
        /\ cursor.after + cursor.remaining <= offer.maximum
        /\ cursor.expires = offer.expires
    BY DEF QuoteInv, CursorOK
  <1>2. /\ clock < offer.expires /\ Deliverable(offer.scope, boundary)
        /\ Delivers(offer, offer.scope, boundary, cursor.after, cursor.remaining)
        /\ UNCHANGED <<file, covered, registry, clock, changed, offers, accepting, paid, owed>>
    BY <1>1 DEF DeliversNext, Valid, world
  <1> QED BY <1>1, <1>2, DeliversKeeps

(* After a change every offer quoted before it is on record as changed. *)
LEMMA ChangesKeep ==
  ASSUME QuoteInv, Changes, file' \in [Ridings -> FileOf], covered' \subseteq Provinces,
         registry' \in [DOMAIN FirstRegistry -> Files]
  PROVE  QuoteInv'
  <1>0. changed' = offers /\ UNCHANGED <<clock, offers, accepting, cursors, pages, paid, owed>>
    BY DEF Changes
  <1>1. QuoteTypes'
    BY <1>0 DEF QuoteInv, QuoteTypes
  <1>2. \A o \in offers' : Sound(o)'
    BY <1>0 DEF QuoteInv, Sound, Priced, OfferStands
  <1>3. \A a \in accepting' : AcceptOK(a)'
    BY <1>0 DEF QuoteInv, AcceptOK, PaidFor
  <1>4. \A c \in cursors' : CursorOK(c)'
    BY <1>0 DEF QuoteInv, CursorOK, PaidFor
  <1>5. \A page \in pages' : PageOK(page)'
    BY <1>0 DEF QuoteInv, PageOK, PaidFor, PlaceAsQuoted
  <1> QED BY <1>1, <1>2, <1>3, <1>4, <1>5 DEF QuoteInv

LEMMA QuoteInvStep ==
  ASSUME QuoteInv, [QuotesNext]_quoteVars
  PROVE  QuoteInv'
  <1>0. QuoteTypes
    BY DEF QuoteInv
  <1>1. ASSUME NEW r \in Ridings, Republishes(r) PROVE QuoteInv'
    <2>1. file' \in [Ridings -> FileOf]
      BY <1>0, <1>1 DEF Republishes, QuoteTypes
    <2> QED BY <1>0, <1>1, <2>1, ChangesKeep DEF Republishes, QuoteTypes
  <1>2. ASSUME NEW p \in Provinces, Deploys(p) PROVE QuoteInv'
    BY <1>0, <1>2, ChangesKeep DEF Deploys, QuoteTypes
  <1>3. ASSUME NEW d \in DOMAIN registry, Registers(d) PROVE QuoteInv'
    <2>1. registry' \in [DOMAIN FirstRegistry -> Files]
      BY <1>0, <1>3 DEF Registers, QuoteTypes, Files
    <2> QED BY <1>0, <1>3, <2>1, ChangesKeep DEF Registers, QuoteTypes
  <1>4. ASSUME UNCHANGED <<file, covered, registry, offers, accepting, cursors, pages, paid,
                           owed, changed>>, clock' \in Nat
        PROVE  QuoteInv'
    BY <1>4 DEF QuoteInv, QuoteTypes, Sound, Priced, OfferStands, Resolves, FileOfDataset, RouteOf,
       AcceptOK, CursorOK, PageOK, PaidFor, PlaceAsQuoted
  <1>5. ASSUME TimePasses \/ UNCHANGED quoteVars PROVE QuoteInv'
    BY <1>0, <1>4, <1>5 DEF TimePasses, quoteVars, QuoteTypes
  <1> QED BY <1>1, <1>2, <1>3, <1>5, QuotesKeep, PaysKeeps, FirstKeeps, NextKeeps DEF QuotesNext

(* What is delivered was paid for at the published price of what was quoted,*)
(* is of the place that was quoted or of its file unless that has changed,  *)
(* is read before the offer expires and never beyond its maximum, however   *)
(* often a token is presented; and the checks of the delivery refuse nobody *)
(* who was charged unless something changed since the quote; a delivery may *)
(* break down (offers.ts, x402.ts), for any ridings, shapes, files, prices  *)
(* and page sizes.                                                          *)
THEOREM WhatIsPaidIsAsQuoted == QuotesSpec => []PaidAsQuoted
  <1>1. QuoteInv => PaidAsQuoted
    <2> SUFFICES ASSUME QuoteInv PROVE PaidAsQuoted
      OBVIOUS
    <2>1. RefusedIfChanged
      BY DEF QuoteInv, QuoteTypes, RefusedIfChanged
    <2>2. ASSUME NEW page \in pages
          PROVE  \E n \in DOMAIN paid :
                   /\ paid[n].offer = page.offer
                   /\ paid[n].amount = IF IsPoint(page.offer.scope) THEN PointPrice
                                       ELSE Price(page.offer.maximum)
      BY DEF QuoteInv, PageOK, PaidFor, Sound, Priced
    <2>3. DeliveredAsQuoted
      BY <2>2 DEF QuoteInv, PageOK, PlaceAsQuoted, DeliveredAsQuoted
    <2> QED BY <2>1, <2>3 DEF PaidAsQuoted
  <1> QED BY <1>1, QuoteInvInit, QuoteInvStep, PTL DEF QuotesSpec

-----------------------------------------------------------------------------
(* The gateway: what a request under way is, and that every share of what   *)
(* was let through is counted by one window, and every window by one share. *)

Holders == SecretKeys \cup Tokens
Keyed == SecretKeys \cup PublicKeys \cup Tokens
Addresses == {r.from : r \in Requests}
Accounts == {Owner[x] : x \in Keyed} \cup {Nothing}
Dialects == {"public", "admin", "projection", "key", "search", "batch"}

(* The ways an entry of the table may combine dialect, limit and handler. *)
Ways ==
  {<<"public", "none", "document">>, <<"public", "none", "mcp">>,
   <<"public", "none", "portal">>, <<"admin", "none", "operation">>,
   <<"key", "lookup", "lookup">>, <<"public", "demo", "lookup">>,
   <<"public", "paid", "offer">>, <<"key", "geocode", "geocode">>,
   <<"search", "search", "search">>, <<"batch", "batch", "batch">>,
   <<"batch", "batch", "document">>, <<"projection", "none", "projection">>,
   <<"public", "none", "nothing">>, <<"public", "demo", "nothing">>,
   <<"key", "lookup", "nothing">>}

WayOf(r) == <<r.auth, r.limit, r.serves>>

Visits ==
  [who : {r.who : r \in Requests}, from : Addresses, home : {r.home : r \in Requests},
   auth : Dialects, limit : {"none", "demo", "paid", "lookup", "geocode", "search", "batch"},
   serves : {"document", "mcp", "portal", "operation", "lookup", "offer", "geocode",
             "search", "batch", "projection", "nothing"},
   customer : Accounts,
   step : {"limit", "dialect", "limit again", "handle", "mcp limit", "mcp call"}]

(* What is known of a request by the step it stands at. *)
Known(r) ==
  /\ WayOf(r) \in Ways
  /\ r.step \in {"limit", "dialect"} => r.customer = Nothing
  /\ r.step \in {"limit again", "handle"} => LetsIn(r) /\ r.customer = BilledTo(r)
  /\ r.step \in {"mcp limit", "mcp call"} =>
       /\ r.serves = "mcp" /\ r.who \in Holders \cup {Nothing}
       /\ r.customer = Payer(r)

Surfaces == {"api", "demo", "paid", "demo-search", "mcp", "mcp-demo", "all"}

(* The shares there are: on the MCP surface a Customer's are not the demo's. *)
Shares ==
  {s \in [about : Holders \cup Addresses \cup Accounts, customer : Accounts,
          surface : Surfaces] :
     /\ s.surface = "mcp" => s.customer # Nothing
     /\ s.surface = "mcp-demo" => s.customer = Nothing
     /\ s.surface = "all" => s.customer # Nothing}

CounterOf(s) ==
  [shard |-> s.customer,
   bucket |-> IF s.surface = "all" THEN "customer"
              ELSE IF s.surface = "mcp-demo" THEN "mcp" ELSE s.surface,
   about |-> s.about]

FloodCounter(a) == [shard |-> Nothing, bucket |-> "flood", about |-> a]

Counted ==
  /\ IsABag(minute) /\ IsABag(admitted) /\ IsABag(tried)
  /\ BagToSet(admitted) \subseteq Shares /\ BagToSet(tried) \subseteq Addresses
  /\ \A s \in Shares : Times(CounterOf(s), minute) = Times(s, admitted)
  /\ \A a \in Addresses : Times(FloodCounter(a), minute) = Times(a, tried)

GatewayInv ==
  /\ suggest \in BOOLEAN
  /\ visit \in [Places -> Visits \cup {Free}]
  /\ \A p \in Places : visit[p] # Free => Known(visit[p])
  /\ Counted
  /\ GateHolds

LEMMA Counting ==
  ASSUME NEW B, IsABag(B), NEW S
  PROVE  /\ IsABag(B (+) SetToBag(S))
         /\ BagToSet(B (+) SetToBag(S)) = BagToSet(B) \cup S
         /\ \A e : /\ Times(e, B) \in Nat
                  /\ Times(e, B (+) SetToBag(S)) =
                       Times(e, B) + (IF e \in S THEN 1 ELSE 0)
<1> DEFINE C == [e \in DOMAIN B \cup S |->
                   (IF e \in DOMAIN B THEN B[e] ELSE 0) + (IF e \in S THEN 1 ELSE 0)]
<1>1. B (+) SetToBag(S) = C
  BY DEF (+), SetToBag
<1>2. \A e \in DOMAIN B : B[e] \in Nat /\ B[e] > 0
  BY DEF IsABag
<1>3. \A e \in DOMAIN B \cup S : C[e] \in Nat /\ C[e] > 0
  BY <1>2
<1>4. IsABag(C)
  BY <1>3 DEF IsABag
<1>5. \A e : /\ Times(e, B) \in Nat
            /\ Times(e, C) = Times(e, B) + (IF e \in S THEN 1 ELSE 0)
  BY <1>2 DEF Times, BagIn, BagToSet
<1>6. BagToSet(C) = BagToSet(B) \cup S
  BY DEF BagToSet
<1> QED BY <1>1, <1>4, <1>5, <1>6

LEMMA NothingCounted ==
  IsABag(EmptyBag) /\ BagToSet(EmptyBag) = {} /\ \A e : Times(e, EmptyBag) = 0
BY DEF EmptyBag, SetToBag, IsABag, Times, BagIn, BagToSet

LEMMA RoutesHaveWays ==
  \A e \in ROUTES :
    /\ WayOf(e) \in Ways
    /\ e.auth \in Dialects
    /\ e.limit \in {"none", "demo", "paid", "lookup", "geocode", "search", "batch"}
    /\ e.serves \in {"document", "mcp", "portal", "operation", "lookup", "offer", "geocode",
                     "search", "batch", "projection", "nothing"}
BY DEF ROUTES, Entries, WayOf, Ways, Dialects

(* Each share has a counter of its own, and none is that of a flood. *)
LEMMA CountersApart ==
  /\ \A s, t \in Shares : CounterOf(s) = CounterOf(t) => s = t
  /\ \A s \in Shares, a \in Addresses : CounterOf(s) # FloodCounter(a)
  /\ \A a, b \in Addresses : FloodCounter(a) = FloodCounter(b) => a = b
<1>1. ASSUME NEW s \in Shares, NEW t \in Shares, CounterOf(s) = CounterOf(t)
      PROVE  s = t
  <2>1. s.customer = t.customer /\ s.about = t.about
    BY <1>1 DEF CounterOf
  <2>2. s.surface = t.surface
    BY <1>1, <2>1 DEF CounterOf, Shares, Surfaces
  <2> QED BY <2>1, <2>2 DEF Shares
<1>2. \A s \in Shares, a \in Addresses : CounterOf(s) # FloodCounter(a)
  BY DEF CounterOf, FloodCounter, Shares, Surfaces
<1>3. \A a, b \in Addresses : FloodCounter(a) = FloodCounter(b) => a = b
  BY DEF FloodCounter
<1> QED BY <1>1, <1>2, <1>3

LEMMA LimitsAreNumbers ==
  /\ \A s \in Shares : LimitOfShare(s) \in Nat
  /\ \A b \in {"api", "demo", "paid", "demo-search"} : BucketLimit(b) \in Nat
  /\ Ceiling \in Nat /\ FloodGuard \in Nat /\ ApiLimit \in Nat /\ DemoLimit \in Nat
BY GatewayConstants DEF LimitOfShare, BucketLimit, Shares, Surfaces

(* Shares are let through together with their counters. *)
LEMMA CountedTogether ==
  ASSUME Counted, LimitsHold, NEW new \in SUBSET Shares,
         \A s \in new : Times(CounterOf(s), minute) < LimitOfShare(s),
         minute' = minute (+) SetToBag({CounterOf(s) : s \in new}),
         admitted' = admitted (+) SetToBag(new), tried' = tried
  PROVE  Counted' /\ LimitsHold'
<1> DEFINE names == {CounterOf(s) : s \in new}
<1>1. \A s \in Shares : CounterOf(s) \in names <=> s \in new
  BY CountersApart
<1>2. \A a \in Addresses : FloodCounter(a) \notin names
  BY CountersApart
<1>3. /\ IsABag(minute')
      /\ \A e : /\ Times(e, minute) \in Nat
               /\ Times(e, minute') = Times(e, minute) + (IF e \in names THEN 1 ELSE 0)
  BY Counting DEF Counted
<1>4. /\ IsABag(admitted') /\ BagToSet(admitted') = BagToSet(admitted) \cup new
      /\ \A e : /\ Times(e, admitted) \in Nat
               /\ Times(e, admitted') = Times(e, admitted) + (IF e \in new THEN 1 ELSE 0)
  BY Counting DEF Counted
<1> HIDE DEF names
<1>5. \A s \in Shares : Times(CounterOf(s), minute') = Times(s, admitted')
  BY <1>1, <1>3, <1>4 DEF Counted
<1>6. \A a \in Addresses : Times(FloodCounter(a), minute') = Times(a, tried')
  BY <1>2, <1>3 DEF Counted
<1>7. Counted'
  BY <1>3, <1>4, <1>5, <1>6 DEF Counted
<1>8. ASSUME NEW s \in BagToSet(admitted') PROVE Times(s, admitted') <= LimitOfShare(s)
  <2>1. s \in Shares
    BY <1>4 DEF Counted
  <2>2. LimitOfShare(s) \in Nat
    BY <2>1, LimitsAreNumbers
  <2>3. CASE s \in new
    BY <2>1, <2>2, <2>3, <1>4 DEF Counted
  <2>4. CASE s \notin new
    BY <2>2, <2>4, <1>4 DEF LimitsHold
  <2> QED BY <2>3, <2>4
<1> QED BY <1>7, <1>8 DEF LimitsHold, LimitOfShare

LEMMA FloodCounted ==
  ASSUME Counted, LimitsHold, NEW a \in Addresses,
         NEW bucket \in {"api", "demo-search"},
         Times(FloodCounter(a), minute) < FloodGuard * BucketLimit(bucket),
         minute' = minute (+) SetToBag({FloodCounter(a)}),
         tried' = tried (+) SetToBag({a}), admitted' = admitted
  PROVE  Counted' /\ LimitsHold'
<1> DEFINE most == FloodGuard * (IF DemoLimit > ApiLimit THEN DemoLimit ELSE ApiLimit)
<1>1. /\ IsABag(minute')
      /\ \A e : /\ Times(e, minute) \in Nat
               /\ Times(e, minute') =
                    Times(e, minute) + (IF e \in {FloodCounter(a)} THEN 1 ELSE 0)
  BY Counting DEF Counted
<1>2. /\ IsABag(tried') /\ BagToSet(tried') = BagToSet(tried) \cup {a}
      /\ \A e : /\ Times(e, tried) \in Nat
               /\ Times(e, tried') = Times(e, tried) + (IF e \in {a} THEN 1 ELSE 0)
  <2>1. IsABag(tried)
    BY DEF Counted
  <2> QED BY <2>1, Counting
<1>3. ASSUME NEW s \in Shares PROVE Times(CounterOf(s), minute') = Times(s, admitted')
  <2>1. Times(CounterOf(s), minute) = Times(s, admitted)
    BY DEF Counted
  <2>2. CounterOf(s) # FloodCounter(a)
    BY CountersApart
  <2> QED BY <2>1, <2>2, <1>1
<1>4. ASSUME NEW b \in Addresses PROVE Times(FloodCounter(b), minute') = Times(b, tried')
  <2>1. Times(FloodCounter(b), minute) = Times(b, tried)
    BY DEF Counted
  <2>2. FloodCounter(b) = FloodCounter(a) <=> b = a
    BY CountersApart
  <2> QED BY <2>1, <2>2, <1>1, <1>2
<1>5. Counted'
  BY <1>1, <1>2, <1>3, <1>4 DEF Counted
<1>6. FloodGuard * BucketLimit(bucket) <= most
  <2>1. FloodGuard * ApiLimit <= most /\ FloodGuard * DemoLimit <= most
    <3>1. CASE DemoLimit > ApiLimit
      <4>1. PICK d \in Nat : DemoLimit = ApiLimit + d
        BY <3>1, LimitsAreNumbers
      <4>2. FloodGuard * DemoLimit = FloodGuard * ApiLimit + FloodGuard * d
        BY <4>1, LimitsAreNumbers
      <4>3. FloodGuard * d \in Nat /\ FloodGuard * ApiLimit \in Nat
        BY LimitsAreNumbers
      <4> QED BY <3>1, <4>2, <4>3
    <3>2. CASE ~(DemoLimit > ApiLimit)
      <4>1. PICK d \in Nat : ApiLimit = DemoLimit + d
        BY <3>2, LimitsAreNumbers
      <4>2. FloodGuard * ApiLimit = FloodGuard * DemoLimit + FloodGuard * d
        BY <4>1, LimitsAreNumbers
      <4>3. FloodGuard * d \in Nat /\ FloodGuard * DemoLimit \in Nat
        BY LimitsAreNumbers
      <4> QED BY <3>2, <4>2, <4>3
    <3> QED BY <3>1, <3>2
  <2>2. BucketLimit(bucket) = ApiLimit \/ BucketLimit(bucket) = DemoLimit
    BY DEF BucketLimit
  <2> QED BY <2>1, <2>2
<1>7. most \in Nat /\ FloodGuard * BucketLimit(bucket) \in Nat
  BY LimitsAreNumbers
<1>8. ASSUME NEW b \in BagToSet(tried') PROVE Times(b, tried') <= most
  <2> HIDE DEF most
  <2>1. CASE b = a
    <3>1. Times(a, tried) = Times(FloodCounter(a), minute)
      BY DEF Counted
    <3>2. Times(a, tried) < most /\ Times(a, tried) \in Nat
      BY <3>1, <1>2, <1>6, <1>7
    <3> QED BY <3>2, <2>1, <1>2, <1>7
  <2>2. CASE b # a
    <3>1. b \in BagToSet(tried)
      BY <2>2, <1>2
    <3>2. Times(b, tried') = Times(b, tried)
      BY <2>2, <1>2
    <3>3. Times(b, tried) <= most
      BY <3>1 DEF LimitsHold, most
    <3> QED BY <3>2, <3>3
  <2> QED BY <2>1, <2>2
<1>9. \A share \in BagToSet(admitted') : Times(share, admitted') <= LimitOfShare(share)
  BY DEF LimitsHold
<1> QED BY <1>5, <1>8, <1>9 DEF LimitsHold, LimitOfShare

(* A request is decided by the counters of its own shares and no others. *)
SharesOf(r, surface) ==
  {OwnShare(r, surface)} \cup (IF Payer(r) = Nothing THEN {} ELSE {CustomerShare(r)})

LEMMA PayersAreOwners ==
  ASSUME NEW r \in Visits
  PROVE  /\ Payer(r) \in Accounts
         /\ Payer(r) # Nothing => r.who \in Keyed
         /\ OwnShare(r, "api").about \in Holders \cup Addresses
         /\ CustomerShare(r) \in [about : Accounts, customer : Accounts, surface : {"all"}]
<1>1. /\ Payer(r) \in Accounts
      /\ Payer(r) # Nothing => r.who \in Keyed
  BY DEF Payer, Accounts, Keyed
<1>2. r.from \in Addresses
  BY DEF Visits
<1>3. OwnShare(r, "api").about \in Holders \cup Addresses
  BY <1>1, <1>2 DEF OwnShare, Share, Holders, Keyed
<1> QED BY <1>1, <1>3 DEF CustomerShare, Share

LEMMA SharesAreProper ==
  ASSUME NEW r \in Visits, NEW surface \in Surfaces \ {"all"},
         surface = "mcp" => Payer(r) # Nothing,
         surface = "mcp-demo" => Payer(r) = Nothing
  PROVE  SharesOf(r, surface) \subseteq Shares
<1>1. OwnShare(r, surface) \in Shares
  BY PayersAreOwners DEF OwnShare, Share, Shares
<1>2. Payer(r) # Nothing => CustomerShare(r) \in Shares
  BY PayersAreOwners DEF CustomerShare, Share, Shares, Surfaces
<1> QED BY <1>1, <1>2 DEF SharesOf

LEMMA WindowsAreShares ==
  ASSUME NEW r \in Visits, NEW surface \in Surfaces \ {"all"},
         NEW bucket, NEW about, NEW limit,
         CounterOf(OwnShare(r, surface)) =
           [shard |-> Payer(r), bucket |-> bucket, about |-> about],
         LimitOfShare(OwnShare(r, surface)) = limit
  PROVE  LET windows == WindowsFor(bucket, about, limit, Payer(r))
         IN /\ {w.name : w \in windows} = {CounterOf(s) : s \in SharesOf(r, surface)}
            /\ HasRoom(windows) <=> \A s \in SharesOf(r, surface) :
                                     Times(CounterOf(s), minute) < LimitOfShare(s)
<1> DEFINE windows == WindowsFor(bucket, about, limit, Payer(r))
           own == RateWindow(Payer(r), bucket, about, limit)
           all == CustomerWindow(Payer(r))
<1>1. own.name = CounterOf(OwnShare(r, surface)) /\ own.limit = LimitOfShare(OwnShare(r, surface))
  BY DEF RateWindow
<1>2. all.name = CounterOf(CustomerShare(r)) /\ all.limit = LimitOfShare(CustomerShare(r))
  BY DEF CustomerWindow, RateWindow, CounterOf, CustomerShare, Share, LimitOfShare
<1>3. windows = {own} \cup (IF Payer(r) = Nothing THEN {} ELSE {all})
  BY DEF WindowsFor
<1> HIDE DEF windows, own, all
<1>4. {w.name : w \in windows} = {CounterOf(s) : s \in SharesOf(r, surface)}
  BY <1>1, <1>2, <1>3 DEF SharesOf
<1>5. HasRoom(windows) <=> \A s \in SharesOf(r, surface) :
                              Times(CounterOf(s), minute) < LimitOfShare(s)
  BY <1>1, <1>2, <1>3 DEF SharesOf, HasRoom
<1> QED BY <1>4, <1>5 DEF windows

(* What is let through had room, and what had none is refused for itself. *)
LEMMA LetThrough ==
  ASSUME Counted, LimitsHold, NEW r \in Visits, NEW surface \in Surfaces \ {"all"},
         surface = "mcp" => Payer(r) # Nothing,
         surface = "mcp-demo" => Payer(r) = Nothing,
         NEW bucket, NEW about, NEW limit,
         CounterOf(OwnShare(r, surface)) =
           [shard |-> Payer(r), bucket |-> bucket, about |-> about],
         LimitOfShare(OwnShare(r, surface)) = limit,
         HasRoom(WindowsFor(bucket, about, limit, Payer(r))),
         Count(WindowsFor(bucket, about, limit, Payer(r))), Admit(r, surface),
         tried' = tried
  PROVE  Counted' /\ LimitsHold'
<1>1. SharesOf(r, surface) \in SUBSET Shares
  BY SharesAreProper
<1>2. \A s \in SharesOf(r, surface) : Times(CounterOf(s), minute) < LimitOfShare(s)
  BY WindowsAreShares
<1>3. minute' = minute (+) SetToBag({CounterOf(s) : s \in SharesOf(r, surface)})
  BY WindowsAreShares DEF Count
<1>4. admitted' = admitted (+) SetToBag(SharesOf(r, surface))
  BY DEF Admit, SharesOf
<1> QED BY <1>1, <1>2, <1>3, <1>4, CountedTogether

LEMMA RefusedForItself ==
  ASSUME Counted, NEW r \in Visits, NEW surface \in Surfaces \ {"all"},
         surface = "mcp" => Payer(r) # Nothing,
         surface = "mcp-demo" => Payer(r) = Nothing,
         NEW bucket, NEW about, NEW limit,
         CounterOf(OwnShare(r, surface)) =
           [shard |-> Payer(r), bucket |-> bucket, about |-> about],
         LimitOfShare(OwnShare(r, surface)) = limit,
         ~HasRoom(WindowsFor(bucket, about, limit, Payer(r)))
  PROVE  Refusal(r, surface, limit) = {}
<1>1. SharesOf(r, surface) \in SUBSET Shares
  BY SharesAreProper
<1>2. PICK s \in SharesOf(r, surface) : ~(Times(CounterOf(s), minute) < LimitOfShare(s))
  BY WindowsAreShares
<1>3. Times(s, admitted) = Times(CounterOf(s), minute) /\ LimitOfShare(s) \in Nat
  BY <1>1, LimitsAreNumbers DEF Counted
<1>4. Times(s, admitted) \in Nat
  BY Counting DEF Counted
<1>5. Times(s, admitted) >= LimitOfShare(s)
  BY <1>2, <1>3, <1>4
<1>6. CASE s = OwnShare(r, surface)
  BY <1>5, <1>6 DEF Refusal, Deserved
<1>7. CASE s = CustomerShare(r)
  <2>1. LimitOfShare(s) = Ceiling
    BY <1>7 DEF LimitOfShare, CustomerShare, Share
  <2> QED BY <1>5, <1>7, <2>1 DEF Refusal, Deserved
<1> QED BY <1>2, <1>6, <1>7 DEF SharesOf

(* What the dialects let in, by the way of an entry. *)
LEMMA LetInByWay ==
  ASSUME NEW r \in Visits, Known(r), LetsIn(r)
  PROVE  /\ r.auth = "public" /\ r.serves # "mcp" => BilledTo(r) = Nothing /\ Payer(r) = Nothing
         /\ r.auth \in {"key", "search", "batch"} =>
              /\ r.who \in SecretKeys \cup PublicKeys \cup {Operator}
              /\ BilledTo(r) = Payer(r)
         /\ r.auth \in {"admin", "projection"} => BilledTo(r) = Nothing
<1>1. r.auth \in Dialects
  BY DEF Visits
<1>2. Operator \notin SecretKeys \cup PublicKeys \cup Tokens
  BY CredentialsApart
<1>3. CASE r.auth = "public"
  BY <1>3 DEF BilledTo, Payer
<1>4. CASE r.auth \in {"key", "search", "batch"}
  <2>1. r.who \in SecretKeys \cup PublicKeys \cup {Operator}
    BY <1>4 DEF LetsIn, PassesLookup, IsServerKey, PassesSearch
  <2>2. BilledTo(r) = Payer(r)
    BY <1>2, <1>4, <2>1 DEF BilledTo, Payer
  <2> QED BY <1>4, <2>1, <2>2
<1>5. CASE r.auth \in {"admin", "projection"}
  BY <1>5 DEF BilledTo
<1> QED BY <1>1, <1>3, <1>4, <1>5 DEF Dialects

(* A request whose limit comes before its dialect is its address's. *)
LEMMA LimitedByAddress ==
  ASSUME NEW r \in Visits, Known(r), ~Unlimited(r), ~LimitedLater(r)
  PROVE  /\ Payer(r) = Nothing
         /\ BucketOf(r) \in {"api", "demo", "paid", "demo-search"}
         /\ CounterOf(OwnShare(r, BucketOf(r))) =
              [shard |-> Payer(r), bucket |-> BucketOf(r), about |-> r.from]
         /\ LimitOfShare(OwnShare(r, BucketOf(r))) = BucketLimit(BucketOf(r))
<1>1. BucketOf(r) \in {"api", "demo", "paid", "demo-search"}
  BY DEF BucketOf
<1>2. Payer(r) = Nothing
  <2>1. CASE r.auth = "public"
    <3>1. r.serves # "mcp"
      BY <2>1 DEF Known, WayOf, Ways, Unlimited
    <3> QED BY <2>1, <3>1 DEF Payer
  <2>2. CASE ~PresentsCredential(r)
    BY <2>2 DEF PresentsCredential, Bearers, Payer
  <2> QED BY <2>1, <2>2 DEF LimitedLater
<1>3. OwnShare(r, BucketOf(r)) =
        [about |-> r.from, customer |-> Nothing, surface |-> BucketOf(r)]
  BY <1>2 DEF OwnShare, Share
<1> HIDE DEF Unlimited, LimitedLater
<1> QED BY <1>1, <1>2, <1>3 DEF CounterOf, LimitOfShare, BucketLimit

(* And one whose limit comes after it, its key's or its page's. *)
LEMMA LimitedByKey ==
  ASSUME NEW r \in Visits, Known(r), r.step = "limit again", ~Unlimited(r), LimitedLater(r)
  PROVE  /\ r.customer = Payer(r)
         /\ BucketOf(r) \in {"api", "demo-search"}
         /\ CounterOf(OwnShare(r, BucketOf(r))) =
              [shard |-> Payer(r), bucket |-> BucketOf(r),
               about |-> ClientOf(IdentityOf(r.who), r.from)]
         /\ LimitOfShare(OwnShare(r, BucketOf(r))) = BucketLimit(BucketOf(r))
<1>1. LetsIn(r) /\ r.customer = BilledTo(r)
  BY DEF Known
<1>2. r.auth \in {"key", "search"} /\ r.limit \in {"lookup", "geocode", "search"}
  BY DEF Known, WayOf, Ways, Unlimited, LimitedLater
<1>3. BucketOf(r) \in {"api", "demo-search"}
  BY <1>2 DEF BucketOf
<1>4. r.who \in SecretKeys \cup PublicKeys /\ r.customer = Payer(r)
  <2>1. r.who # Operator
    BY <1>2 DEF Unlimited
  <2> QED BY <1>1, <1>2, <2>1, LetInByWay
<1>5. Payer(r) = Owner[r.who] /\ Owner[r.who] # Nothing
  BY <1>2, <1>4, CredentialsApart DEF Payer
<1>6. OwnShare(r, BucketOf(r)).about = ClientOf(IdentityOf(r.who), r.from)
  BY <1>4, <1>5, CredentialsApart DEF OwnShare, Share, ClientOf, IdentityOf
<1>7. /\ OwnShare(r, BucketOf(r)).customer = Payer(r)
      /\ OwnShare(r, BucketOf(r)).surface = BucketOf(r)
  BY DEF OwnShare, Share
<1> QED BY <1>3, <1>4, <1>6, <1>7 DEF CounterOf, LimitOfShare, BucketLimit

-----------------------------------------------------------------------------

LEMMA VisitsKept ==
  ASSUME GatewayInv, suggest' = suggest, NEW p \in Places, NEW v \in Visits \cup {Free},
         visit' = [visit EXCEPT ![p] = v], v # Free => Known(v)
  PROVE  /\ suggest' \in BOOLEAN
         /\ visit' \in [Places -> Visits \cup {Free}]
         /\ \A q \in Places : visit'[q] # Free => Known(visit[q])'
<1>1. suggest' \in BOOLEAN /\ visit' \in [Places -> Visits \cup {Free}]
  BY DEF GatewayInv
<1>2. ASSUME NEW q \in Places, visit'[q] # Free
      PROVE  Known(visit[q])'
  <2>1. Known(visit'[q])
    BY <1>2 DEF GatewayInv
  <2>2. LetsIn(visit[q])' <=> LetsIn(visit'[q])
    BY DEF LetsIn
  <2> QED BY <2>1, <2>2 DEF Known
<1> QED BY <1>1, <1>2

LEMMA TheVisit ==
  ASSUME GatewayInv, NEW p \in Places, NEW step, Stands(p, step)
  PROVE  visit[p] \in Visits /\ Known(visit[p]) /\ visit[p].step = step
BY DEF GatewayInv, Stands

LEMMA Departure ==
  ASSUME GatewayInv, suggest' = suggest, NEW p \in Places, Departs(p)
  PROVE  /\ suggest' \in BOOLEAN
         /\ visit' \in [Places -> Visits \cup {Free}]
         /\ \A q \in Places : visit'[q] # Free => Known(visit[q])'
BY VisitsKept DEF Departs

LEMMA NothingLetThrough ==
  ASSUME Counted, LimitsHold, minute' = minute, admitted' = admitted, tried' = tried
  PROVE  Counted' /\ LimitsHold'
BY DEF Counted, LimitsHold, LimitOfShare

LEMMA ComesInKeeps ==
  ASSUME GatewayInv, NEW p \in Places, NEW r \in Requests, ComesIn(p, r)
  PROVE  GatewayInv'
<1>1. PICK entry \in ROUTES :
        visit' = [visit EXCEPT ![p] =
          [who |-> r.who, from |-> r.from, home |-> r.home, auth |-> entry.auth,
           limit |-> entry.limit, serves |-> entry.serves,
           customer |-> Nothing, step |-> "limit"]]
  BY DEF ComesIn, Best, Matching
<1> DEFINE v == [who |-> r.who, from |-> r.from, home |-> r.home, auth |-> entry.auth,
                 limit |-> entry.limit, serves |-> entry.serves,
                 customer |-> Nothing, step |-> "limit"]
<1>2. v \in Visits
  BY RoutesHaveWays DEF Visits, Addresses, Accounts
<1>3. Known(v)
  BY RoutesHaveWays DEF Known, WayOf
<1>4. visit' = [visit EXCEPT ![p] = v]
  BY <1>1
<1> HIDE DEF v
<1>5. UNCHANGED <<suggest, minute, admitted, tried, wrongs>>
  BY DEF ComesIn
<1>6. /\ suggest' \in BOOLEAN
      /\ visit' \in [Places -> Visits \cup {Free}]
      /\ \A q \in Places : visit'[q] # Free => Known(visit[q])'
  BY <1>2, <1>3, <1>4, <1>5, VisitsKept
<1>7. Counted' /\ LimitsHold'
  BY <1>5, NothingLetThrough DEF GatewayInv, GateHolds
<1> QED BY <1>5, <1>6, <1>7 DEF GatewayInv, GateHolds

(* A step that moves a request on. *)
LEMMA Moving ==
  ASSUME GatewayInv, suggest' = suggest, NEW p \in Places, NEW from, Stands(p, from),
         NEW to \in {"dialect", "handle", "mcp call"},
         <<from, to>> \in {<<"limit", "dialect">>, <<"limit again", "handle">>,
                          <<"mcp limit", "mcp call">>},
         Moves(p, to)
  PROVE  /\ suggest' \in BOOLEAN
         /\ visit' \in [Places -> Visits \cup {Free}]
         /\ \A q \in Places : visit'[q] # Free => Known(visit[q])'
<1> DEFINE r == visit[p]
           v == [r EXCEPT !.step = to]
<1>1. r \in Visits /\ Known(r) /\ r.step = from
  BY TheVisit
<1>2. v \in Visits
  BY <1>1 DEF Visits
<1>3. /\ WayOf(v) = WayOf(r) /\ v.customer = r.customer /\ BilledTo(v) = BilledTo(r)
      /\ Payer(v) = Payer(r) /\ (LetsIn(v) <=> LetsIn(r)) /\ v.serves = r.serves
      /\ v.who = r.who /\ v.step = to
  <2>1. /\ v.who = r.who /\ v.from = r.from /\ v.home = r.home /\ v.auth = r.auth
        /\ v.limit = r.limit /\ v.serves = r.serves /\ v.customer = r.customer
        /\ v.step = to
    BY <1>1 DEF Visits
  <2> HIDE DEF v, r
  <2>2. LetsIn(v) <=> LetsIn(r)
    BY <2>1 DEF LetsIn, PassesSearch
  <2> QED BY <2>1, <2>2 DEF WayOf, BilledTo, Payer
<1>4. visit' = [visit EXCEPT ![p] = v]
  BY DEF Moves
<1> HIDE DEF r, v
<1>5. Known(v)
  BY <1>1, <1>3 DEF Known
<1> QED BY <1>2, <1>4, <1>5, VisitsKept

(* The flood guard turns away where that many credentials were looked at. *)
LEMMA TurnedAwayByAll ==
  ASSUME Counted, NEW r \in Visits, ~HasRoom(GuardWindows(r))
  PROVE  Crowded(r)
<1> DEFINE guard == FloodGuard * BucketLimit(BucketOf(r))
           w == [name |-> FloodCounter(r.from), limit |-> guard]
<1>1. GuardWindows(r) = {w}
  BY DEF GuardWindows, WindowsFor, RateWindow, FloodCounter
<1>2. ~(Times(FloodCounter(r.from), minute) < guard)
  BY <1>1 DEF HasRoom
<1>3. Times(FloodCounter(r.from), minute) = Times(r.from, tried)
  BY DEF Counted, Visits
<1>4. Times(r.from, tried) \in Nat
  BY Counting DEF Counted
<1>5. guard \in Nat
  BY GatewayConstants DEF BucketLimit, BucketOf
<1> HIDE DEF guard
<1>6. Times(r.from, tried) >= guard
  BY <1>2, <1>3, <1>4, <1>5
<1> QED BY <1>6 DEF Crowded, guard

LEMMA LimitsFirstKeeps ==
  ASSUME GatewayInv, NEW p \in Places, LimitsFirst(p)
  PROVE  GatewayInv'
<1> DEFINE r == visit[p]
           guarded == LimitedLater(r)
           windows == IF guarded THEN GuardWindows(r) ELSE AddressWindows(r)
<1>1. /\ Stands(p, "limit") /\ suggest' = suggest
      /\ IF Unlimited(r)
         THEN Moves(p, "dialect") /\ UNCHANGED <<minute, admitted, tried, wrongs>>
         ELSE IF ~HasRoom(windows)
         THEN /\ Departs(p) /\ wrongs' = wrongs \cup TurnedAway(r)
              /\ UNCHANGED <<minute, admitted, tried>>
         ELSE /\ Moves(p, "dialect") /\ Count(windows) /\ UNCHANGED wrongs
              /\ IF guarded
                 THEN tried' = tried (+) SetToBag({r.from}) /\ UNCHANGED admitted
                 ELSE Admit(r, BucketOf(r)) /\ UNCHANGED tried
  BY DEF LimitsFirst
<1>2. r \in Visits /\ Known(r)
  BY <1>1, TheVisit
<1>3. Counted /\ LimitsHold
  BY DEF GatewayInv, GateHolds
<1>4. /\ suggest' \in BOOLEAN
      /\ visit' \in [Places -> Visits \cup {Free}]
      /\ \A q \in Places : visit'[q] # Free => Known(visit[q])'
  <2>1. CASE Moves(p, "dialect")
    BY <1>1, <2>1, Moving
  <2>2. CASE Departs(p)
    BY <1>1, <2>2, Departure
  <2> QED BY <1>1, <2>1, <2>2
<1>5. CASE Unlimited(r)
  <2>1. Counted' /\ LimitsHold'
    BY <1>1, <1>3, <1>5, NothingLetThrough
  <2> QED BY <1>1, <1>4, <1>5, <2>1 DEF GatewayInv, GateHolds
<1>8. CASE ~Unlimited(r) /\ ~HasRoom(windows)
  <2>1. UNCHANGED <<minute, admitted, tried>> /\ wrongs' = wrongs \cup TurnedAway(r)
    BY <1>1, <1>8
  <2>2. TurnedAway(r) = {}
    <3>1. CASE guarded
      BY <1>2, <1>3, <1>8, <3>1, TurnedAwayByAll DEF TurnedAway
    <3>2. CASE ~guarded
      <4> DEFINE bucket == BucketOf(r)
      <4>1. /\ Payer(r) = Nothing
            /\ bucket \in Surfaces \ {"all"} /\ bucket \notin {"mcp", "mcp-demo"}
            /\ CounterOf(OwnShare(r, bucket)) =
                 [shard |-> Payer(r), bucket |-> bucket, about |-> r.from]
            /\ LimitOfShare(OwnShare(r, bucket)) = BucketLimit(bucket)
        BY <1>2, <1>8, <3>2, LimitedByAddress DEF Surfaces
      <4>2. ~HasRoom(WindowsFor(bucket, r.from, BucketLimit(bucket), Payer(r)))
        BY <1>8, <3>2, <4>1 DEF AddressWindows
      <4>3. TurnedAway(r) = Refusal(r, bucket, BucketLimit(bucket))
        BY <3>2 DEF TurnedAway
      <4> HIDE DEF r, windows, bucket, guarded
      <4>4. Refusal(r, bucket, BucketLimit(bucket)) = {}
        BY <1>2, <1>3, <4>1, <4>2, RefusedForItself
      <4> QED BY <4>3, <4>4
    <3> QED BY <3>1, <3>2
  <2>3. Counted' /\ LimitsHold'
    BY <1>3, <2>1, NothingLetThrough
  <2> QED BY <1>1, <1>4, <2>1, <2>2, <2>3 DEF GatewayInv, GateHolds
<1>6. CASE ~Unlimited(r) /\ HasRoom(windows) /\ guarded
  <2>1. BucketOf(r) \in {"api", "demo-search"}
    BY <1>2, <1>6 DEF BucketOf, Known, WayOf, Ways, LimitedLater
  <2>2. r.from \in Addresses
    BY <1>2 DEF Visits
  <2>3. GuardWindows(r) =
          {[name |-> FloodCounter(r.from), limit |-> FloodGuard * BucketLimit(BucketOf(r))]}
    BY DEF GuardWindows, WindowsFor, RateWindow, FloodCounter
  <2>4. Times(FloodCounter(r.from), minute) < FloodGuard * BucketLimit(BucketOf(r))
    <3> DEFINE w == [name |-> FloodCounter(r.from),
                     limit |-> FloodGuard * BucketLimit(BucketOf(r))]
    <3>1. HasRoom({w})
      BY <1>6, <2>3
    <3>2. Times(w.name, minute) < w.limit
      BY <3>1 DEF HasRoom
    <3> QED BY <3>2
  <2>5. minute' = minute (+) SetToBag({FloodCounter(r.from)})
    <3>1. {w.name : w \in GuardWindows(r)} = {FloodCounter(r.from)}
      BY <2>3
    <3> QED BY <1>1, <1>6, <3>1 DEF Count
  <2>6. tried' = tried (+) SetToBag({r.from}) /\ admitted' = admitted /\ wrongs' = wrongs
    BY <1>1, <1>6
  <2> HIDE DEF r
  <2>7. Counted' /\ LimitsHold'
    BY <1>3, <2>1, <2>2, <2>4, <2>5, <2>6, FloodCounted
  <2>8. suggest' \in BOOLEAN /\ wrongs' = wrongs
    BY <1>4, <2>6
  <2> QED BY <1>4, <2>7, <2>8 DEF GatewayInv, GateHolds
<1>7. CASE ~Unlimited(r) /\ HasRoom(windows) /\ ~guarded
  <2> DEFINE bucket == BucketOf(r)
  <2>1. /\ Payer(r) = Nothing
        /\ bucket \in Surfaces \ {"all"} /\ bucket \notin {"mcp", "mcp-demo"}
        /\ CounterOf(OwnShare(r, bucket)) =
             [shard |-> Payer(r), bucket |-> bucket, about |-> r.from]
        /\ LimitOfShare(OwnShare(r, bucket)) = BucketLimit(bucket)
    BY <1>2, <1>7, LimitedByAddress DEF Surfaces
  <2>2. windows = WindowsFor(bucket, r.from, BucketLimit(bucket), Payer(r))
    BY <1>7, <2>1 DEF AddressWindows
  <2>3. Admit(r, bucket) /\ tried' = tried /\ Count(windows) /\ wrongs' = wrongs
    BY <1>1, <1>7
  <2> HIDE DEF r, windows, bucket
  <2>4. Counted' /\ LimitsHold'
    BY <1>2, <1>3, <1>7, <2>1, <2>2, <2>3, LetThrough
  <2> QED BY <1>4, <2>3, <2>4 DEF GatewayInv, GateHolds
<1> QED BY <1>5, <1>6, <1>7, <1>8

LEMMA AuthorizesKeeps ==
  ASSUME GatewayInv, NEW p \in Places, Authorizes(p)
  PROVE  GatewayInv'
<1> DEFINE r == visit[p]
           v == [r EXCEPT !.customer = BilledTo(r), !.step = "limit again"]
<1>1. Stands(p, "dialect") /\ UNCHANGED <<suggest, minute, admitted, tried, wrongs>>
  BY DEF Authorizes
<1>2. r \in Visits /\ Known(r)
  BY <1>1, TheVisit
<1>3. Counted' /\ LimitsHold'
  BY <1>1, NothingLetThrough DEF GatewayInv, GateHolds
<1>4. CASE ~LetsIn(r)
  <2>1. Departs(p)
    BY <1>4 DEF Authorizes
  <2> QED BY <1>1, <1>3, <2>1, Departure DEF GatewayInv, GateHolds
<1>5. CASE LetsIn(r)
  <2>1. visit' = [visit EXCEPT ![p] = v]
    BY <1>5 DEF Authorizes
  <2>2. BilledTo(r) \in Accounts
    BY DEF BilledTo, Accounts, Keyed
  <2>3. v \in Visits
    BY <1>2, <2>2 DEF Visits
  <2>4. /\ v.who = r.who /\ v.from = r.from /\ v.home = r.home /\ v.auth = r.auth
        /\ v.limit = r.limit /\ v.serves = r.serves /\ v.customer = BilledTo(r)
        /\ v.step = "limit again"
    BY <1>2 DEF Visits
  <2> HIDE DEF v, r
  <2>5. WayOf(v) = WayOf(r) /\ BilledTo(v) = BilledTo(r) /\ LetsIn(v)
    <3>1. LetsIn(v) <=> LetsIn(r)
      BY <2>4 DEF LetsIn, PassesSearch
    <3> QED BY <1>5, <2>4, <3>1 DEF WayOf, BilledTo
  <2>6. Known(v)
    BY <1>2, <2>4, <2>5 DEF Known
  <2> QED BY <1>1, <1>3, <2>1, <2>3, <2>6, VisitsKept DEF GatewayInv, GateHolds
<1> QED BY <1>4, <1>5

LEMMA LimitsAgainKeeps ==
  ASSUME GatewayInv, NEW p \in Places, LimitsAgain(p)
  PROVE  GatewayInv'
<1> DEFINE r == visit[p]
           bucket == BucketOf(r)
           about == ClientOf(IdentityOf(r.who), r.from)
<1>1. Stands(p, "limit again") /\ UNCHANGED <<suggest, tried>>
  BY DEF LimitsAgain
<1>2. r \in Visits /\ Known(r) /\ r.step = "limit again"
  BY <1>1, TheVisit
<1>3. Counted /\ LimitsHold /\ wrongs = {}
  BY DEF GatewayInv, GateHolds
<1>4. CASE Unlimited(r) \/ ~LimitedLater(r)
  <2>1. Moves(p, "handle") /\ UNCHANGED <<minute, admitted, wrongs>>
    BY <1>4 DEF LimitsAgain
  <2>2. Counted' /\ LimitsHold'
    BY <1>1, <1>3, <2>1, NothingLetThrough
  <2> QED BY <1>1, <2>1, <2>2, Moving DEF GatewayInv, GateHolds
<1>5. CASE ~Unlimited(r) /\ LimitedLater(r)
  <2>1. /\ r.customer = Payer(r)
        /\ bucket \in Surfaces \ {"all"} /\ bucket \notin {"mcp", "mcp-demo"}
        /\ CounterOf(OwnShare(r, bucket)) =
             [shard |-> Payer(r), bucket |-> bucket, about |-> about]
        /\ LimitOfShare(OwnShare(r, bucket)) = BucketLimit(bucket)
    BY <1>2, <1>5, LimitedByKey DEF Surfaces
  <2>2. OwnWindows(r) = WindowsFor(bucket, about, BucketLimit(bucket), Payer(r))
    BY <2>1 DEF OwnWindows
  <2>3. CASE HasRoom(OwnWindows(r))
    <3>1. /\ Moves(p, "handle") /\ Count(OwnWindows(r)) /\ Admit(r, bucket)
          /\ wrongs' = wrongs
      BY <1>5, <2>3 DEF LimitsAgain
    <3>2. /\ suggest' \in BOOLEAN
          /\ visit' \in [Places -> Visits \cup {Free}]
          /\ \A q \in Places : visit'[q] # Free => Known(visit[q])'
      BY <1>1, <3>1, Moving
    <3> HIDE DEF r, bucket, about
    <3>3. Counted' /\ LimitsHold'
      BY <1>1, <1>2, <1>3, <2>1, <2>2, <2>3, <3>1, LetThrough
    <3> QED BY <1>3, <3>1, <3>2, <3>3 DEF GatewayInv, GateHolds
  <2>4. CASE ~HasRoom(OwnWindows(r))
    <3>1. /\ Departs(p) /\ UNCHANGED <<minute, admitted>>
          /\ wrongs' = wrongs \cup Refusal(r, bucket, BucketLimit(bucket))
      BY <1>5, <2>4 DEF LimitsAgain
    <3>2. /\ suggest' \in BOOLEAN
          /\ visit' \in [Places -> Visits \cup {Free}]
          /\ \A q \in Places : visit'[q] # Free => Known(visit[q])'
      BY <1>1, <3>1, Departure
    <3> HIDE DEF r, bucket, about
    <3>3. Refusal(r, bucket, BucketLimit(bucket)) = {}
      BY <1>2, <1>3, <2>1, <2>2, <2>4, RefusedForItself
    <3>4. Counted' /\ LimitsHold'
      BY <1>1, <1>3, <3>1, NothingLetThrough
    <3> QED BY <1>3, <3>1, <3>2, <3>3, <3>4 DEF GatewayInv, GateHolds
  <2> QED BY <2>3, <2>4
<1> QED BY <1>4, <1>5

(* Whatever runs may run, and is billed if it has to be. *)
LEMMA NothingWrong ==
  ASSUME NEW r \in Visits, Known(r), NEW does, NEW good \in BOOLEAN,
         \/ r.step = "handle" /\ r.serves # "mcp" /\ does = r.serves
         \/ /\ r.step = "mcp call" /\ does \in {"lookup", "offer", "purchase"}
            /\ does = "lookup" => ~Challenged(r.who)
  PROVE  Wrongs(r, does, good, good /\ does \in Billable /\ r.customer # Nothing) = {}
<1>1. CASE r.step = "handle" /\ r.serves # "mcp" /\ does = r.serves
  <2>1. LetsIn(r) /\ r.customer = BilledTo(r)
    BY <1>1 DEF Known
  <2>2. Entitled(r, does)
    <3>1. CASE does = "operation"
      BY <1>1, <2>1, <3>1 DEF Entitled, LetsIn, Known, WayOf, Ways
    <3>2. CASE does = "projection"
      BY <1>1, <2>1, <3>2 DEF Entitled, LetsIn, Known, WayOf, Ways
    <3>3. CASE does = "geocode" \/ (does = "lookup" /\ r.auth # "public")
      <4>1. r.auth = "key"
        BY <1>1, <3>3 DEF Known, WayOf, Ways
      <4>2. r.who \in SecretKeys \cup {Operator}
        BY <2>1, <4>1 DEF LetsIn, PassesLookup, IsServerKey
      <4> QED BY <1>1, <3>3, <4>2 DEF Entitled
    <3>4. CASE does = "batch"
      <4>1. r.auth = "batch"
        BY <1>1, <3>4 DEF Known, WayOf, Ways
      <4> QED BY <2>1, <3>4, <4>1, CredentialsApart DEF Entitled, LetsIn, Payer
    <3>5. CASE does = "search"
      <4>1. r.auth = "search"
        BY <1>1, <3>5 DEF Known, WayOf, Ways
      <4> QED BY <2>1, <3>5, <4>1 DEF Entitled, LetsIn, PassesSearch
    <3>6. CASE does = "lookup" /\ r.auth = "public"
      BY <1>1, <3>6 DEF Entitled
    <3>7. CASE does \notin {"operation", "projection", "geocode", "lookup", "batch", "search"}
      BY <3>7 DEF Entitled
    <3> QED BY <3>1, <3>2, <3>3, <3>4, <3>5, <3>6, <3>7
  <2>3. does \in Billable => BilledTo(r) = Payer(r)
    <3>1. does \in Billable => r.auth \in {"public", "key", "search", "batch"}
      BY <1>1 DEF Known, WayOf, Ways, Billable
    <3> QED BY <1>1, <2>1, <3>1, LetInByWay
  <2> QED BY <2>1, <2>2, <2>3 DEF Wrongs
<1>2. CASE /\ r.step = "mcp call" /\ does \in {"lookup", "offer", "purchase"}
           /\ does = "lookup" => ~Challenged(r.who)
  <2>1. r.serves = "mcp" /\ r.customer = Payer(r)
    BY <1>2 DEF Known
  <2>2. Entitled(r, does)
    BY <1>2, <2>1 DEF Entitled, Challenged
  <2> QED BY <2>1, <2>2 DEF Wrongs
<1> QED BY <1>1, <1>2

LEMMA HandlesKeeps ==
  ASSUME GatewayInv, NEW p \in Places, Handles(p)
  PROVE  GatewayInv'
<1> DEFINE r == visit[p]
<1>1. /\ Stands(p, "handle") /\ r.serves # "mcp" /\ Does(p, r.serves) /\ Departs(p)
      /\ UNCHANGED <<suggest, minute, admitted, tried>>
  BY DEF Handles
<1>2. r \in Visits /\ Known(r) /\ r.step = "handle"
  BY <1>1, TheVisit
<1>3. PICK good \in BOOLEAN :
        wrongs' = wrongs \cup Wrongs(r, r.serves, good,
                     good /\ r.serves \in Billable /\ r.customer # Nothing)
  BY <1>1 DEF Does, GatewayInv
<1> HIDE DEF r
<1>4. wrongs' = wrongs
  BY <1>1, <1>2, <1>3, NothingWrong
<1>5. Counted' /\ LimitsHold'
  BY <1>1, NothingLetThrough DEF GatewayInv, GateHolds
<1> QED BY <1>1, <1>4, <1>5, Departure DEF GatewayInv, GateHolds

LEMMA McpAuthorizesKeeps ==
  ASSUME GatewayInv, NEW p \in Places, McpAuthorizes(p)
  PROVE  GatewayInv'
<1> DEFINE r == visit[p]
           v == [r EXCEPT !.customer = Payer(r), !.step = "mcp limit"]
<1>1. /\ Stands(p, "handle") /\ r.serves = "mcp"
      /\ UNCHANGED <<suggest, minute, admitted, tried, wrongs>>
  BY DEF McpAuthorizes
<1>2. r \in Visits /\ Known(r)
  BY <1>1, TheVisit
<1>3. Counted' /\ LimitsHold'
  BY <1>1, NothingLetThrough DEF GatewayInv, GateHolds
<1>4. CASE Departs(p)
  BY <1>1, <1>3, <1>4, Departure DEF GatewayInv, GateHolds
<1>5. CASE ~Departs(p)
  <2>1. /\ visit' = [visit EXCEPT ![p] = v]
        /\ r.who \in SecretKeys \cup Tokens \cup {Nothing}
    BY <1>5 DEF McpAuthorizes
  <2>2. Payer(r) \in Accounts
    BY <1>2, PayersAreOwners
  <2>3. v \in Visits
    BY <1>2, <2>2 DEF Visits
  <2>4. /\ v.who = r.who /\ v.from = r.from /\ v.home = r.home /\ v.auth = r.auth
        /\ v.limit = r.limit /\ v.serves = r.serves /\ v.customer = Payer(r)
        /\ v.step = "mcp limit"
    BY <1>2 DEF Visits
  <2>5. WayOf(v) = WayOf(r) /\ Payer(v) = Payer(r)
    BY <2>4 DEF WayOf, Payer
  <2> HIDE DEF v, r
  <2>6. Known(v)
    BY <1>1, <1>2, <2>1, <2>4, <2>5 DEF Known, Holders
  <2> QED BY <1>1, <1>3, <2>1, <2>3, <2>6, VisitsKept DEF GatewayInv, GateHolds
<1> QED BY <1>4, <1>5

LEMMA McpLimitsKeeps ==
  ASSUME GatewayInv, NEW p \in Places, McpLimits(p)
  PROVE  GatewayInv'
<1> DEFINE r == visit[p]
           demo == r.who = Nothing
           limit == IF demo THEN DemoLimit ELSE ApiLimit
           surface == IF demo THEN "mcp-demo" ELSE "mcp"
           about == IF demo THEN r.from ELSE r.who
           windows == WindowsFor("mcp", about, limit, r.customer)
<1>1. Stands(p, "mcp limit") /\ UNCHANGED <<suggest, tried>>
  BY DEF McpLimits
<1>2. r \in Visits /\ Known(r) /\ r.step = "mcp limit"
  BY <1>1, TheVisit
<1>3. Counted /\ LimitsHold /\ wrongs = {}
  BY DEF GatewayInv, GateHolds
<1>4. /\ r.serves = "mcp" /\ r.who \in Holders \cup {Nothing} /\ r.customer = Payer(r)
  BY <1>2 DEF Known
<1>5. Payer(r) = (IF demo THEN Nothing ELSE Owner[r.who]) /\ (~demo => Payer(r) # Nothing)
  BY <1>4, CredentialsApart DEF Payer, Holders
<1>6. OwnShare(r, surface) = [about |-> about, customer |-> Payer(r), surface |-> surface]
  BY <1>4, <1>5, CredentialsApart DEF OwnShare, Share, Holders
<1>7. /\ surface \in Surfaces \ {"all"}
      /\ surface = "mcp" => Payer(r) # Nothing
      /\ surface = "mcp-demo" => Payer(r) = Nothing
      /\ CounterOf(OwnShare(r, surface)) =
           [shard |-> Payer(r), bucket |-> "mcp", about |-> about]
      /\ LimitOfShare(OwnShare(r, surface)) = limit
  BY <1>5, <1>6 DEF Surfaces, CounterOf, LimitOfShare
<1>8. windows = WindowsFor("mcp", about, limit, Payer(r))
  BY <1>4
<1>9. CASE HasRoom(windows)
  <2>1. /\ Moves(p, "mcp call") /\ Count(windows) /\ Admit(r, surface)
        /\ wrongs' = wrongs
    BY <1>9 DEF McpLimits
  <2>2. /\ suggest' \in BOOLEAN
        /\ visit' \in [Places -> Visits \cup {Free}]
        /\ \A q \in Places : visit'[q] # Free => Known(visit[q])'
    BY <1>1, <2>1, Moving
  <2> HIDE DEF r, demo, limit, surface, about, windows
  <2>3. Counted' /\ LimitsHold'
    BY <1>1, <1>2, <1>3, <1>7, <1>8, <1>9, <2>1, LetThrough
  <2> QED BY <1>3, <2>1, <2>2, <2>3 DEF GatewayInv, GateHolds
<1>10. CASE ~HasRoom(windows)
  <2>1. /\ Departs(p) /\ UNCHANGED <<minute, admitted>>
        /\ wrongs' = wrongs \cup Refusal(r, surface, limit)
    BY <1>10 DEF McpLimits
  <2>2. /\ suggest' \in BOOLEAN
        /\ visit' \in [Places -> Visits \cup {Free}]
        /\ \A q \in Places : visit'[q] # Free => Known(visit[q])'
    BY <1>1, <2>1, Departure
  <2> HIDE DEF r, demo, limit, surface, about, windows
  <2>3. Refusal(r, surface, limit) = {}
    BY <1>2, <1>3, <1>7, <1>8, <1>10, RefusedForItself
  <2>4. Counted' /\ LimitsHold'
    BY <1>1, <1>3, <2>1, NothingLetThrough
  <2> QED BY <1>3, <2>1, <2>2, <2>3, <2>4 DEF GatewayInv, GateHolds
<1> QED BY <1>9, <1>10

LEMMA McpCallsKeeps ==
  ASSUME GatewayInv, NEW p \in Places, McpCalls(p)
  PROVE  GatewayInv'
<1> DEFINE r == visit[p]
<1>1. /\ Stands(p, "mcp call") /\ Departs(p)
      /\ LooksUp(p) \/ Does(p, "offer") \/ Does(p, "purchase")
      /\ UNCHANGED <<suggest, minute, admitted, tried>>
  BY DEF McpCalls
<1>2. r \in Visits /\ Known(r) /\ r.step = "mcp call"
  BY <1>1, TheVisit
<1>3. ASSUME NEW does \in {"lookup", "offer", "purchase"}, Does(p, does),
             does = "lookup" => ~Challenged(r.who)
      PROVE  wrongs' = wrongs
  <2>1. PICK good \in BOOLEAN :
          wrongs' = wrongs \cup Wrongs(r, does, good,
                       good /\ does \in Billable /\ r.customer # Nothing)
    BY <1>3 DEF Does, GatewayInv
  <2> HIDE DEF r
  <2> QED BY <1>2, <1>3, <2>1, NothingWrong
<1>4. wrongs' = wrongs
  BY <1>1, <1>3 DEF LooksUp
<1>5. Counted' /\ LimitsHold'
  BY <1>1, NothingLetThrough DEF GatewayInv, GateHolds
<1> QED BY <1>1, <1>4, <1>5, Departure DEF GatewayInv, GateHolds

LEMMA NewMinuteKeeps ==
  ASSUME GatewayInv, NewMinute
  PROVE  GatewayInv'
<1>1. /\ minute' = EmptyBag /\ admitted' = EmptyBag /\ tried' = EmptyBag
      /\ UNCHANGED <<suggest, visit, wrongs>>
  BY DEF NewMinute
<1>2. Counted' /\ LimitsHold'
  BY <1>1, NothingCounted DEF Counted, LimitsHold
<1>3. ASSUME NEW q \in Places, visit'[q] # Free PROVE Known(visit[q])'
  BY <1>1, <1>3 DEF GatewayInv, Known, LetsIn
<1> QED BY <1>1, <1>2, <1>3 DEF GatewayInv, GateHolds

LEMMA GatewayStep ==
  ASSUME GatewayInv, [GatewayNext]_gatewayVars
  PROVE  GatewayInv'
<1>1. CASE UNCHANGED gatewayVars
  <2>1. UNCHANGED <<suggest, visit, minute, admitted, tried, wrongs>>
    BY <1>1 DEF gatewayVars
  <2>2. Counted' /\ LimitsHold'
    BY <2>1, NothingLetThrough DEF GatewayInv, GateHolds
  <2>3. ASSUME NEW q \in Places, visit'[q] # Free PROVE Known(visit[q])'
    BY <2>1, <2>3 DEF GatewayInv, Known, LetsIn
  <2> QED BY <2>1, <2>2, <2>3 DEF GatewayInv, GateHolds
<1>2. CASE GatewayNext
  BY <1>2, ComesInKeeps, LimitsFirstKeeps, AuthorizesKeeps, LimitsAgainKeeps, HandlesKeeps,
     McpAuthorizesKeeps, McpLimitsKeeps, McpCallsKeeps, NewMinuteKeeps
  DEF GatewayNext, Serves
<1> QED BY <1>1, <1>2

(* Whatever keys, tokens, pages and surfaces its requests come by, in a     *)
(* minute no more is let through for a Customer, a key, a user or an address*)
(* than the limits say; nobody is refused unless their own share or their   *)
(* Customer's is used up, or the flood guard of their address, which its    *)
(* credentials fill together; nothing runs for whoever its dialect or its   *)
(* scope does not let in; and a lookup is billed exactly when there is a    *)
(* Customer (routes.ts, rate-limit.ts, mcp-handler.ts).                     *)
THEOREM TheGateHolds == GatewaySpec => []GateHolds
<1>1. GatewayInit => GatewayInv
  BY NothingCounted DEF GatewayInit, GatewayInv, GateHolds, LimitsHold, Counted
<1>2. GatewayInv /\ [GatewayNext]_gatewayVars => GatewayInv'
  BY GatewayStep
<1>3. GatewayInv => GateHolds
  BY DEF GatewayInv
<1> QED BY <1>1, <1>2, <1>3, PTL DEF GatewaySpec
=============================================================================
