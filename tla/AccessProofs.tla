---------------------------- MODULE AccessProofs ----------------------------
(* Proofs about who is let in.  Keys: what an isolate has cached of a key   *)
(* lives at most as long as is left until the key must be refused, and what *)
(* is left of a revoked key is known to a revocation that is under way.     *)
(* Sessions: a verdict is never younger than the end of its session.        *)
(* Members: each has the workspace of the first row with its name, which    *)
(* stays the first one, and an invitation nobody else used.                 *)
EXTENDS Credentials, Membership, SequenceTheorems, FiniteSetTheorems, TLAPS

-----------------------------------------------------------------------------
(* Keys *)

Hit == [found : BOOLEAN, left : 1 .. KeyTTL]
Read == [at : Isolates, key : Keys, found : BOOLEAN, waited : 0 .. ReadTime]

KeyTypes ==
  /\ mirror \in [Keys -> {"none", "active", "disabled"}]
  /\ cache \in [Isolates -> [Entries -> Hit \cup {None}]]
  /\ tasks \in [Isolates -> Task \cup {None}]
  /\ reads \subseteq Read
  /\ seen \in [Isolates -> SUBSET Entries]
  /\ absent \in [Isolates -> [Keys -> 0 .. KeyHorizon]]

(* A key that is being minted is unknown to all others. *)
Minting ==
  \A i \in Isolates : tasks[i] # None =>
    /\ tasks[i].op = "mint" =>
         /\ mirror[tasks[i].key] = "none"
         /\ \A l \in Isolates \ {i} : tasks[l] # None => tasks[l].key # tasks[i].key
         /\ tasks[i].step = "hash" => tasks[i].key \in ServerKeys
    /\ tasks[i].op = "revoke" => mirror[tasks[i].key] # "none"

(* What was read or cached of a key is forgotten before the horizon. *)
Timed ==
  /\ \A i \in Isolates, k \in Keys :
       mirror[k] = "none" \/ Presented(k) \in kv \/ Presented(k) \in seen[i] => absent[i][k] = 0
  /\ \A r \in reads : r.found => absent[r.at][r.key] <= r.waited
  /\ \A i \in Isolates, k \in Keys :
       LET hit == cache[i][Presented(k)]
       IN hit # None /\ hit.found => absent[i][k] + hit.left <= KeyHorizon

(* Task t is a revocation of k about to delete its hash. *)
Deleting(t, k) == t # None /\ t.op = "revoke" /\ t.key = k /\ t.step = "hash" /\ t.knows

(* Of a key none of whose calls failed and no revocation missed: once its   *)
(* record is gone, nothing of it is left but what a revocation is about to  *)
(* delete, and a revocation that knows no record is right.                  *)
Gone(k) == mirror[k] # "none" /\ IdOf(k) \notin kv
Tracked(k) ==
  /\ Gone(k) => EntriesOf(k) \cap kv = {} \/ \E i \in Isolates : Deleting(tasks[i], k)
  /\ mirror[k] = "disabled" => Gone(k)
  /\ \A i \in Isolates : tasks[i] # None /\ tasks[i].key = k =>
       /\ tasks[i].op = "mint" /\ tasks[i].step = "mirror" => IdOf(k) \in kv
       /\ tasks[i].op = "revoke" /\ (tasks[i].step # "id" \/ ~tasks[i].knows) => Gone(k)

Spared == blurred \cup missed
KeyInv == KeyTypes /\ Minting /\ Timed /\ \A k \in Keys \ Spared : Tracked(k)

(* The names of entries. *)
LEMMA EntryNames ==
  /\ \A k \in Keys : /\ EntriesOf(k) = {IdOf(k), Presented(k)}
                     /\ IdOf(k) \in Entries /\ Presented(k) \in Entries
                     /\ k \in ServerKeys => Presented(k) = HashOf(k) /\ HashOf(k) \in Entries
                     /\ k \notin ServerKeys => Presented(k) = IdOf(k)
  /\ \A k, l \in Keys : /\ IdOf(k) # HashOf(l)
                        /\ k # l => IdOf(k) # IdOf(l) /\ HashOf(k) # HashOf(l)
                        /\ k # l => Presented(k) # Presented(l) /\ IdOf(k) # Presented(l)
                                    /\ HashOf(k) # Presented(l)
  <1>1. \A k \in Keys : /\ EntriesOf(k) = {IdOf(k), Presented(k)}
                        /\ k \in ServerKeys => Presented(k) = HashOf(k)
                        /\ k \notin ServerKeys => Presented(k) = IdOf(k)
    BY DEF EntriesOf, Presented
  <1>2. \A k \in Keys : IdOf(k) \in Entries /\ Presented(k) \in Entries
    BY <1>1 DEF Entries
  <1>3. \A k, l \in Keys : /\ IdOf(k) # HashOf(l)
                           /\ k # l => IdOf(k) # IdOf(l) /\ HashOf(k) # HashOf(l)
    BY DEF IdOf, HashOf
  <1>4. ASSUME NEW k \in Keys, NEW l \in Keys, k # l
        PROVE  Presented(k) # Presented(l) /\ IdOf(k) # Presented(l) /\ HashOf(k) # Presented(l)
    <2>1. Presented(l) = IdOf(l) \/ Presented(l) = HashOf(l)
      BY DEF Presented
    <2>2. Presented(k) = IdOf(k) \/ Presented(k) = HashOf(k)
      BY DEF Presented
    <2> QED BY <2>1, <2>2, <1>3, <1>4
  <1> QED BY <1>1, <1>2, <1>3, <1>4

LEMMA KeyNumbers ==
  /\ KeyTTL \in Nat /\ KeyTTL > 0 /\ ReadTime \in Nat
  /\ KeyHorizon \in Nat /\ KeyHorizon = KeyTTL + ReadTime
  BY CredentialConstants DEF KeyHorizon

LEMMA KeyInit ==
  ASSUME Init
  PROVE  KeyInv
  <1>1. KeyTypes
    BY KeyNumbers DEF Init, KeyTypes
  <1>2. Minting /\ Timed
    BY EntryNames DEF Init, Minting, Timed
  <1>3. ASSUME NEW k \in Keys PROVE Tracked(k)
    BY <1>3, EntryNames DEF Init, Tracked, Gone
  <1> QED BY <1>1, <1>2, <1>3 DEF KeyInv

(* An isolate that caches what is so. *)
LEMMA CachesIs ==
  ASSUME KeyTypes, NEW i \in Isolates, NEW entries, NEW found \in BOOLEAN,
         Caches(i, entries, found)
  PROVE  /\ cache' \in [Isolates -> [Entries -> Hit \cup {None}]]
         /\ \A l \in Isolates, e \in Entries :
              cache'[l][e] = IF l = i /\ e \in entries THEN Fresh(found) ELSE cache[l][e]
  <1>1. Fresh(found) \in Hit /\ Fresh(found).left = KeyTTL
    BY KeyNumbers DEF Fresh, Hit
  <1> QED BY <1>1 DEF KeyTypes, Caches

LEMMA FreshIs ==
  ASSUME NEW found \in BOOLEAN
  PROVE  Fresh(found).found = found /\ Fresh(found).left = KeyTTL
  BY DEF Fresh

LEMMA MintsKeeps ==
  ASSUME KeyInv, NEW i \in Isolates, NEW k \in Keys, Mints(i, k)
  PROVE  KeyInv'
  <1> DEFINE t == [op |-> "mint", key |-> k, knows |-> TRUE, step |-> FirstPut(k)]
  <1>1. /\ tasks' = [tasks EXCEPT ![i] = t] /\ t \in Task /\ tasks[i] = None
        /\ UNCHANGED <<kv, seen, mirror, cache, reads, absent, blurred, missed>>
        /\ mirror[k] = "none" /\ Settled(k) /\ t.step # "mirror"
        /\ t.step = "hash" => k \in ServerKeys
    BY DEF Mints, Enters, Task, FirstPut
  <1>2. KeyTypes'
    BY <1>1 DEF KeyInv, KeyTypes
  <1>3. Minting'
    BY <1>1 DEF KeyInv, KeyTypes, Minting, Settled
  <1>4. Timed'
    BY <1>1 DEF KeyInv, Timed
  <1>5. ASSUME NEW l \in Keys \ Spared' PROVE Tracked(l)'
    <2>1. Tracked(l) /\ (Gone(l)' <=> Gone(l))
      BY <1>1, <1>5 DEF KeyInv, Spared, Gone
    <2>2. tasks'[i] = t /\ \A h \in Isolates : h # i => tasks'[h] = tasks[h]
      BY <1>1 DEF KeyInv, KeyTypes
    <2>3. \A h \in Isolates : Deleting(tasks[h], l) => Deleting(tasks'[h], l)
      BY <1>1, <2>2 DEF Deleting
    <2>4. t.op = "mint" /\ t.step # "mirror" /\ UNCHANGED <<kv, mirror>>
      BY <1>1
    <2> HIDE DEF t
    <2> QED BY <2>1, <2>2, <2>3, <2>4 DEF Tracked
  <1> QED BY <1>2, <1>3, <1>4, <1>5 DEF KeyInv

(* The steps that write an entry of a key that is being minted. *)
LEMMA MintPutsHashKeeps ==
  ASSUME KeyInv, NEW i \in Isolates, MintPutsHash(i)
  PROVE  KeyInv'
  <1> PICK k : k = tasks[i].key
    OBVIOUS
  <1> PICK t : t = [tasks[i] EXCEPT !.step = "id"]
    OBVIOUS
  <1>1. /\ tasks[i] \in Task /\ tasks[i] # None /\ tasks[i].op = "mint" /\ tasks[i].step = "hash"
        /\ k \in ServerKeys /\ k \in Keys /\ mirror[k] = "none"
        /\ \A l \in Isolates \ {i} : tasks[l] # None => tasks[l].key # k
    BY DEF MintPutsHash, AtStep, KeyInv, KeyTypes, Minting, Keys
  <1>2. /\ tasks' = [tasks EXCEPT ![i] = t] /\ t \in Task /\ t.key = k /\ t.op = "mint" /\ t.step = "id"
        /\ UNCHANGED <<seen, mirror, cache, reads, absent, missed>>
        /\ kv' \in {kv, kv \cup {HashOf(k)}} /\ Spared \subseteq Spared'
    BY <1>1 DEF MintPutsHash, GoesTo, Puts, Works, Fails, Task, Spared
  <1>3. KeyTypes'
    BY <1>2 DEF KeyInv, KeyTypes
  <1>4. Minting'
    BY <1>1, <1>2 DEF KeyInv, KeyTypes, Minting
  <1>5. Timed'
    BY <1>1, <1>2, EntryNames DEF KeyInv, Timed
  <1>6. ASSUME NEW l \in Keys \ Spared' PROVE Tracked(l)'
    <2>1. Tracked(l) /\ l \in Keys
      BY <1>2, <1>6 DEF KeyInv
    <2>2. Gone(l)' <=> Gone(l)
      BY <1>2, <2>1, <1>1, EntryNames DEF Gone
    <2>3. l # k => (EntriesOf(l) \cap kv' = {} <=> EntriesOf(l) \cap kv = {})
      BY <1>2, <2>1, <1>1, EntryNames
    <2>4. Gone(l) => l # k
      BY <1>1 DEF Gone
    <2>5. \A h \in Isolates : h # i => tasks'[h] = tasks[h]
      BY <1>2 DEF KeyInv, KeyTypes
    <2>6. tasks'[i] = t
      BY <1>2 DEF KeyInv, KeyTypes
    <2> QED BY <1>1, <1>2, <2>1, <2>2, <2>3, <2>4, <2>5, <2>6 DEF Tracked, Deleting
  <1> QED BY <1>3, <1>4, <1>5, <1>6 DEF KeyInv

LEMMA MintPutsIdKeeps ==
  ASSUME KeyInv, NEW i \in Isolates, MintPutsId(i)
  PROVE  KeyInv'
  <1> PICK k : k = tasks[i].key
    OBVIOUS
  <1> PICK t : t = [tasks[i] EXCEPT !.step = "mirror"]
    OBVIOUS
  <1>1. /\ tasks[i] \in Task /\ tasks[i] # None /\ tasks[i].op = "mint" /\ tasks[i].step = "id"
        /\ k \in Keys /\ mirror[k] = "none"
        /\ \A l \in Isolates \ {i} : tasks[l] # None => tasks[l].key # k
    BY DEF MintPutsId, AtStep, KeyInv, KeyTypes, Minting, Task
  <1>2. /\ tasks' = [tasks EXCEPT ![i] = t] /\ t \in Task /\ t.key = k /\ t.op = "mint" /\ t.step = "mirror"
        /\ UNCHANGED <<seen, mirror, reads, absent, missed>> /\ Caches(i, EntriesOf(k), TRUE)
        /\ kv' \in {kv, kv \cup {IdOf(k)}} /\ Spared \subseteq Spared'
        /\ k \notin Spared' => IdOf(k) \in kv'
    BY <1>1 DEF MintPutsId, GoesTo, Puts, Works, Fails, Task, Spared
  <1>3. /\ cache' \in [Isolates -> [Entries -> Hit \cup {None}]]
        /\ \A l \in Isolates, e \in Entries :
             cache'[l][e] = IF l = i /\ e \in EntriesOf(k) THEN Fresh(TRUE) ELSE cache[l][e]
    BY <1>2, KeyNumbers DEF Caches, Fresh, Hit, KeyInv, KeyTypes
  <1>4. KeyTypes'
    BY <1>2, <1>3 DEF KeyInv, KeyTypes
  <1>5. Minting'
    BY <1>1, <1>2 DEF KeyInv, KeyTypes, Minting
  <1>6. Timed'
    <2>1. \A h \in Isolates : absent[h][k] = 0
      BY <1>1 DEF KeyInv, Timed
    <2>2. \A h \in Isolates, l \in Keys : mirror'[l] = "none" \/ Presented(l) \in kv' \/ Presented(l) \in seen'[h] => absent'[h][l] = 0
      BY <1>1, <1>2, <2>1, EntryNames DEF KeyInv, Timed
    <2>3. ASSUME NEW h \in Isolates, NEW l \in Keys,
                 cache'[h][Presented(l)] # None, cache'[h][Presented(l)].found
          PROVE  absent'[h][l] + cache'[h][Presented(l)].left <= KeyHorizon
      <3>1. CASE h = i /\ Presented(l) \in EntriesOf(k)
        <4>1. l = k /\ cache'[h][Presented(l)].left = KeyTTL
          <5>1. l = k
            BY <3>1, <1>1, EntryNames
          <5>2. cache'[h][Presented(l)] = Fresh(TRUE) /\ TRUE \in BOOLEAN
            BY <3>1, <1>3, EntryNames
          <5> QED BY <5>1, <5>2, FreshIs
        <4> QED BY <4>1, <2>1, <1>2, KeyNumbers
      <3>2. CASE ~(h = i /\ Presented(l) \in EntriesOf(k))
        <4>1. cache'[h][Presented(l)] = cache[h][Presented(l)]
          BY <3>2, <1>3, EntryNames
        <4> QED BY <4>1, <2>3, <1>2 DEF KeyInv, Timed
      <3> QED BY <3>1, <3>2
    <2> QED BY <1>2, <2>2, <2>3 DEF KeyInv, Timed
  <1>7. ASSUME NEW l \in Keys \ Spared' PROVE Tracked(l)'
    <2>1. Tracked(l) /\ l \in Keys
      BY <1>2, <1>7 DEF KeyInv
    <2>2. Gone(l)' <=> Gone(l)
      BY <1>2, <2>1, <1>1, EntryNames DEF Gone
    <2>3. l # k => (EntriesOf(l) \cap kv' = {} <=> EntriesOf(l) \cap kv = {})
      BY <1>2, <2>1, <1>1, EntryNames
    <2>4. Gone(l) => l # k
      BY <1>1 DEF Gone
    <2>5. \A h \in Isolates : h # i => tasks'[h] = tasks[h]
      BY <1>2 DEF KeyInv, KeyTypes
    <2>6. tasks'[i] = t
      BY <1>2 DEF KeyInv, KeyTypes
    <2> QED BY <1>1, <1>2, <2>1, <2>2, <2>3, <2>4, <2>5, <2>6 DEF Tracked, Deleting
  <1> QED BY <1>4, <1>5, <1>6, <1>7 DEF KeyInv

LEMMA MirrorsMintKeeps ==
  ASSUME KeyInv, NEW i \in Isolates, MirrorsMint(i)
  PROVE  KeyInv'
  <1> PICK k : k = tasks[i].key
    OBVIOUS
  <1>1. /\ tasks[i] \in Task /\ tasks[i] # None /\ tasks[i].op = "mint" /\ tasks[i].step = "mirror"
        /\ k \in Keys /\ mirror[k] = "none"
        /\ \A l \in Isolates \ {i} : tasks[l] # None => tasks[l].key # k
    BY DEF MirrorsMint, AtStep, KeyInv, KeyTypes, Minting, Task
  <1>2. /\ tasks' = [tasks EXCEPT ![i] = None] /\ mirror' = [mirror EXCEPT ![k] = "active"]
        /\ UNCHANGED <<kv, seen, cache, reads, absent, blurred, missed>>
    BY DEF MirrorsMint, Leaves
  <1>3. KeyTypes'
    BY <1>1, <1>2 DEF KeyInv, KeyTypes
  <1>4. Minting'
    BY <1>1, <1>2 DEF KeyInv, KeyTypes, Minting
  <1>5. Timed'
    BY <1>1, <1>2 DEF KeyInv, KeyTypes, Timed
  <1>6. ASSUME NEW l \in Keys \ Spared' PROVE Tracked(l)'
    <2>1. Tracked(l) /\ l \in Keys
      BY <1>2, <1>6 DEF KeyInv, Spared
    <2>2. Gone(l)' <=> Gone(l)
      BY <1>1, <1>2, <2>1 DEF Gone, Tracked, KeyInv, KeyTypes
    <2>3. \A h \in Isolates : tasks'[h] # None => h # i /\ tasks'[h] = tasks[h]
      BY <1>2 DEF KeyInv, KeyTypes
    <2>4. (\E h \in Isolates : Deleting(tasks[h], l)) => \E h \in Isolates : Deleting(tasks'[h], l)
      BY <1>1, <1>2 DEF Deleting, KeyInv, KeyTypes
    <2>5. mirror'[l] = "disabled" => mirror[l] = "disabled"
      BY <1>2 DEF KeyInv, KeyTypes
    <2> QED BY <1>2, <2>1, <2>2, <2>3, <2>4, <2>5 DEF Tracked
  <1> QED BY <1>3, <1>4, <1>5, <1>6 DEF KeyInv

(* What is read from the store, or from the cache. *)
LEMMA RevokesKeeps ==
  ASSUME KeyInv, NEW i \in Isolates, NEW k \in Keys, Revokes(i, k)
  PROVE  KeyInv'
  <1>1. PICK found \in BOOLEAN : RecordFor(i, k, found) /\ Enters(i, "revoke", k, found, "id")
    BY DEF Revokes
  <1> PICK t : t = [op |-> "revoke", key |-> k, knows |-> found, step |-> "id"]
    OBVIOUS
  <1>2. /\ tasks' = [tasks EXCEPT ![i] = t] /\ t \in Task /\ tasks[i] = None
        /\ UNCHANGED <<kv, seen, mirror, reads, absent>>
        /\ mirror[k] # "none" /\ t.op = "revoke" /\ t.key = k /\ t.step = "id" /\ t.knows = found
    BY <1>1 DEF Revokes, Enters, Task
  <1>3. /\ Spared \subseteq Spared'
        /\ found => cache[i][IdOf(k)] # None \/ IdOf(k) \in seen[i]
        /\ ~found /\ k \notin Spared' => Gone(k)
    <2>1. missed' = missed \cup {l \in {k} : ~found /\ IdOf(l) \in kv}
      BY <1>1 DEF RecordFor
    <2>2. CASE cache[i][IdOf(k)] # None
      <3>1. found = cache[i][IdOf(k)].found /\ Works
        BY <1>1, <2>2 DEF RecordFor
      <3> QED BY <3>1, <2>1, <2>2, <1>2 DEF Works, Spared, Gone
    <2>3. CASE cache[i][IdOf(k)] = None
      <3>1. Reads(i, IdOf(k), k, found)
        BY <1>1, <2>3 DEF RecordFor
      <3> QED BY <3>1, <2>1, <1>2 DEF Reads, Works, Fails, Spared, Gone
    <2> QED BY <2>2, <2>3
  <1>4. /\ cache' \in [Isolates -> [Entries -> Hit \cup {None}]]
        /\ \A l \in Isolates, e \in Entries :
             \/ cache'[l][e] = cache[l][e]
             \/ l = i /\ e = IdOf(k) /\ cache'[l][e] = Fresh(found) /\ (found => IdOf(k) \in seen[i])
    <2>1. CASE cache[i][IdOf(k)] # None
      BY <1>1, <2>1 DEF RecordFor, KeyInv, KeyTypes
    <2>2. CASE cache[i][IdOf(k)] = None
      <3>1. Caches(i, {IdOf(k)}, found)
        BY <1>1, <2>2 DEF RecordFor
      <3> QED BY <3>1, <1>3, <2>2, CachesIs DEF KeyInv
    <2> QED BY <2>1, <2>2
  <1>5. KeyTypes'
    BY <1>2, <1>4 DEF KeyInv, KeyTypes
  <1>6. Minting'
    BY <1>2 DEF KeyInv, KeyTypes, Minting
  <1>7. Timed'
    <2>1. ASSUME NEW h \in Isolates, NEW l \in Keys,
                 cache'[h][Presented(l)] # None, cache'[h][Presented(l)].found
          PROVE  absent'[h][l] + cache'[h][Presented(l)].left <= KeyHorizon
      <3>1. CASE cache'[h][Presented(l)] = cache[h][Presented(l)]
        BY <3>1, <2>1, <1>2 DEF KeyInv, Timed
      <3>2. CASE cache'[h][Presented(l)] # cache[h][Presented(l)]
        <4>1. h = i /\ Presented(l) = IdOf(k) /\ cache'[h][Presented(l)] = Fresh(found) /\ (found => IdOf(k) \in seen[i])
          BY <3>2, <1>4, EntryNames
        <4>2. l = k /\ found /\ cache'[h][Presented(l)].left = KeyTTL
          BY <4>1, <2>1, EntryNames, FreshIs
        <4>3. absent[h][l] = 0
          BY <4>1, <4>2 DEF KeyInv, Timed
        <4> QED BY <4>2, <4>3, <1>2, KeyNumbers
      <3> QED BY <3>1, <3>2
    <2> QED BY <1>2, <2>1 DEF KeyInv, Timed
  <1>8. ASSUME NEW l \in Keys \ Spared' PROVE Tracked(l)'
    <2>1. Tracked(l) /\ l \in Keys
      BY <1>3, <1>8 DEF KeyInv
    <2>2. Gone(l)' <=> Gone(l)
      BY <1>2 DEF Gone
    <2>3. \A h \in Isolates : h # i => tasks'[h] = tasks[h]
      BY <1>2 DEF KeyInv, KeyTypes
    <2>4. tasks'[i] = t
      BY <1>2 DEF KeyInv, KeyTypes
    <2>5. (\E h \in Isolates : Deleting(tasks[h], l)) => \E h \in Isolates : Deleting(tasks'[h], l)
      BY <1>2, <2>3 DEF Deleting
    <2>7. t.key = l /\ ~t.knows => Gone(l)
      BY <1>2, <1>3, <1>8
    <2> QED BY <1>2, <2>1, <2>2, <2>3, <2>4, <2>5, <2>7 DEF Tracked
  <1> QED BY <1>5, <1>6, <1>7, <1>8 DEF KeyInv

LEMMA RevokeDeletesIdKeeps ==
  ASSUME KeyInv, NEW i \in Isolates, RevokeDeletesId(i)
  PROVE  KeyInv'
  <1> PICK k : k = tasks[i].key
    OBVIOUS
  <1> PICK t : t = [tasks[i] EXCEPT !.step = "hash"]
    OBVIOUS
  <1>1. /\ tasks[i] \in Task /\ tasks[i] # None /\ tasks[i].op = "revoke" /\ tasks[i].step = "id"
        /\ k \in Keys /\ mirror[k] # "none"
    BY DEF RevokeDeletesId, AtStep, KeyInv, KeyTypes, Minting, Task
  <1>2. /\ tasks' = [tasks EXCEPT ![i] = t] /\ t \in Task /\ t.key = k /\ t.op = "revoke"
        /\ t.step = "hash" /\ t.knows = tasks[i].knows
        /\ UNCHANGED <<seen, mirror, cache, reads, absent, missed>>
        /\ kv' \subseteq kv /\ kv' \in {kv, kv \ {IdOf(k)}} /\ Spared \subseteq Spared'
        /\ k \notin Spared' => IdOf(k) \notin kv'
    BY <1>1 DEF RevokeDeletesId, GoesTo, Deletes, Works, Fails, Task, Spared
  <1>3. KeyTypes'
    BY <1>2 DEF KeyInv, KeyTypes
  <1>4. Minting'
    BY <1>1, <1>2 DEF KeyInv, KeyTypes, Minting
  <1>5. Timed'
    BY <1>2 DEF KeyInv, Timed
  <1>6. ASSUME NEW l \in Keys \ Spared' PROVE Tracked(l)'
    <2>1. Tracked(l) /\ l \in Keys
      BY <1>2, <1>6 DEF KeyInv
    <2>2. (Gone(l) => Gone(l)') /\ (l # k => (Gone(l)' => Gone(l))) /\ (l = k => Gone(l)')
      BY <1>1, <1>2, <1>6, <2>1, EntryNames DEF Gone
    <2>3. \A h \in Isolates : h # i => tasks'[h] = tasks[h]
      BY <1>2 DEF KeyInv, KeyTypes
    <2>4. tasks'[i] = t
      BY <1>2 DEF KeyInv, KeyTypes
    <2>5. (\E h \in Isolates : Deleting(tasks[h], l)) => \E h \in Isolates : Deleting(tasks'[h], l)
      BY <1>1, <2>3 DEF Deleting
    <2>6. t # None
      BY <1>2, CredentialConstants
    <2>7. Gone(l)' => EntriesOf(l) \cap kv' = {} \/ \E h \in Isolates : Deleting(tasks'[h], l)
      <3>1. CASE Gone(l)
        BY <3>1, <2>1, <2>5, <1>2 DEF Tracked
      <3>2. CASE ~Gone(l) /\ l = k
        <4>1. t.knows
          BY <3>2, <1>1, <1>2, <2>1 DEF Tracked
        <4>2. t.op = "revoke" /\ t.key = l /\ t.step = "hash"
          BY <3>2, <1>2
        <4>3. Deleting(tasks'[i], l)
          BY <2>4, <2>6, <4>1, <4>2 DEF Deleting
        <4> QED BY <4>3
      <3> QED BY <3>1, <3>2, <2>2
    <2>8. \A h \in Isolates : tasks'[h] # None /\ tasks'[h].key = l =>
       /\ tasks'[h].op = "mint" /\ tasks'[h].step = "mirror" => IdOf(l) \in kv'
       /\ tasks'[h].op = "revoke" /\ (tasks'[h].step # "id" \/ ~tasks'[h].knows) => Gone(l)'
      <3>1. ASSUME NEW h \in Isolates, h # i, tasks[h] # None, tasks[h].key = l,
                   tasks[h].op = "mint", tasks[h].step = "mirror"
            PROVE  IdOf(l) \in kv'
        <4>1. l # k
          BY <1>1, <3>1 DEF KeyInv, Minting
        <4>2. IdOf(l) \in kv
          BY <3>1, <2>1 DEF Tracked
        <4>3. IdOf(l) # IdOf(k)
          BY <4>1, <1>1, <2>1, EntryNames
        <4> QED BY <4>2, <4>3, <1>2
      <3>2. ASSUME NEW h \in Isolates, h # i, tasks[h] # None, tasks[h].key = l,
                   tasks[h].op = "revoke", tasks[h].step # "id" \/ ~tasks[h].knows
            PROVE  Gone(l)'
        BY <3>2, <2>1, <2>2 DEF Tracked
      <3>3. t.op # "mint" /\ (t.key = l => Gone(l)')
        BY <1>2, <2>2
      <3> QED BY <3>1, <3>2, <3>3, <2>3, <2>4
    <2> QED BY <1>2, <2>1, <2>2, <2>7, <2>8 DEF Tracked
  <1> QED BY <1>3, <1>4, <1>5, <1>6 DEF KeyInv

LEMMA RevokeDeletesHashKeeps ==
  ASSUME KeyInv, NEW i \in Isolates, RevokeDeletesHash(i)
  PROVE  KeyInv'
  <1> PICK k : k = tasks[i].key
    OBVIOUS
  <1> PICK t : t = [tasks[i] EXCEPT !.step = "mirror"]
    OBVIOUS
  <1>1. /\ tasks[i] \in Task /\ tasks[i] # None /\ tasks[i].op = "revoke" /\ tasks[i].step = "hash"
        /\ k \in Keys /\ mirror[k] # "none"
    BY DEF RevokeDeletesHash, AtStep, KeyInv, KeyTypes, Minting, Task
  <1>2. /\ tasks' = [tasks EXCEPT ![i] = t] /\ t \in Task /\ t.key = k /\ t.op = "revoke"
        /\ t.step = "mirror"
        /\ UNCHANGED <<seen, mirror, reads, absent, missed>>
        /\ kv' \subseteq kv /\ kv' \in {kv, kv \ {HashOf(k)}} /\ Spared \subseteq Spared'
        /\ k \in ServerKeys /\ tasks[i].knows /\ k \notin Spared' => HashOf(k) \notin kv'
    BY <1>1 DEF RevokeDeletesHash, GoesTo, Deletes, Works, Fails, Task, Spared
  <1>3. /\ cache' \in [Isolates -> [Entries -> Hit \cup {None}]]
        /\ \A l \in Isolates, e \in Entries : cache'[l][e] \in {cache[l][e], None}
    BY DEF RevokeDeletesHash, ForgetsKeys, KeyInv, KeyTypes
  <1>4. KeyTypes'
    BY <1>2, <1>3 DEF KeyInv, KeyTypes
  <1>5. Minting'
    BY <1>1, <1>2 DEF KeyInv, KeyTypes, Minting
  <1>6. Timed'
    BY <1>2, <1>3, EntryNames DEF KeyInv, Timed
  <1>7. ASSUME NEW l \in Keys \ Spared' PROVE Tracked(l)'
    <2>1. Tracked(l) /\ l \in Keys
      BY <1>2, <1>7 DEF KeyInv
    <2>2. (IdOf(l) \in kv' <=> IdOf(l) \in kv) /\ (Gone(l)' <=> Gone(l))
      BY <1>1, <1>2, <2>1, EntryNames DEF Gone
    <2>3. \A h \in Isolates : h # i => tasks'[h] = tasks[h]
      BY <1>2 DEF KeyInv, KeyTypes
    <2>4. tasks'[i] = t
      BY <1>2 DEF KeyInv, KeyTypes
    <2>5. l = k => Gone(l)
      BY <1>1, <2>1 DEF Tracked
    <2>6. Gone(l)' => EntriesOf(l) \cap kv' = {} \/ \E h \in Isolates : Deleting(tasks'[h], l)
      <3>1. CASE l = k /\ tasks[i].knows
        <4>1. IdOf(l) \notin kv'
          BY <3>1, <2>2, <2>5 DEF Gone
        <4>2. Presented(l) \notin kv'
          BY <3>1, <4>1, <1>2, <1>7, <2>1, EntryNames
        <4> QED BY <4>1, <4>2, <2>1, EntryNames
      <3>2. CASE ~(l = k /\ tasks[i].knows)
        <4>1. \A h \in Isolates : Deleting(tasks[h], l) => Deleting(tasks'[h], l)
          BY <3>2, <2>3 DEF Deleting
        <4> QED BY <4>1, <1>2, <2>1, <2>2 DEF Tracked
      <3> QED BY <3>1, <3>2
    <2>8. \A h \in Isolates : tasks'[h] # None /\ tasks'[h].key = l =>
       /\ tasks'[h].op = "mint" /\ tasks'[h].step = "mirror" => IdOf(l) \in kv'
       /\ tasks'[h].op = "revoke" /\ (tasks'[h].step # "id" \/ ~tasks'[h].knows) => Gone(l)'
      BY <1>2, <2>1, <2>2, <2>3, <2>4, <2>5 DEF Tracked
    <2> QED BY <1>2, <2>1, <2>2, <2>6, <2>8 DEF Tracked
  <1> QED BY <1>4, <1>5, <1>6, <1>7 DEF KeyInv

LEMMA MirrorsRevokeKeeps ==
  ASSUME KeyInv, NEW i \in Isolates, MirrorsRevoke(i)
  PROVE  KeyInv'
  <1> PICK k : k = tasks[i].key
    OBVIOUS
  <1>1. /\ tasks[i] \in Task /\ tasks[i] # None /\ tasks[i].op = "revoke" /\ tasks[i].step = "mirror"
        /\ k \in Keys /\ mirror[k] # "none"
    BY DEF MirrorsRevoke, AtStep, KeyInv, KeyTypes, Minting, Task
  <1>2. /\ tasks' = [tasks EXCEPT ![i] = None] /\ mirror' = [mirror EXCEPT ![k] = "disabled"]
        /\ UNCHANGED <<kv, seen, cache, reads, absent, blurred, missed>>
    BY DEF MirrorsRevoke, Leaves
  <1>3. KeyTypes'
    BY <1>1, <1>2 DEF KeyInv, KeyTypes
  <1>4. Minting'
    BY <1>1, <1>2 DEF KeyInv, KeyTypes, Minting
  <1>5. Timed'
    BY <1>1, <1>2 DEF KeyInv, KeyTypes, Timed
  <1>6. ASSUME NEW l \in Keys \ Spared' PROVE Tracked(l)'
    <2>1. Tracked(l) /\ l \in Keys
      BY <1>2, <1>6 DEF KeyInv, Spared
    <2>2. Gone(l)' <=> Gone(l)
      BY <1>1, <1>2, <2>1 DEF Gone, KeyInv, KeyTypes
    <2>3. \A h \in Isolates : tasks'[h] # None => h # i /\ tasks'[h] = tasks[h]
      BY <1>2 DEF KeyInv, KeyTypes
    <2>4. \A h \in Isolates : Deleting(tasks[h], l) => Deleting(tasks'[h], l)
      BY <1>1, <1>2 DEF Deleting, KeyInv, KeyTypes
    <2>5. mirror'[l] = "disabled" => Gone(l)
      BY <1>1, <1>2, <2>1 DEF KeyInv, KeyTypes, Tracked
    <2> QED BY <1>2, <2>1, <2>2, <2>3, <2>4, <2>5 DEF Tracked
  <1> QED BY <1>3, <1>4, <1>5, <1>6 DEF KeyInv

LEMMA TaskDiesKeeps ==
  ASSUME KeyInv, NEW i \in Isolates, TaskDies(i)
  PROVE  KeyInv'
  <1> PICK k : k = tasks[i].key
    OBVIOUS
  <1>1. /\ tasks' = [tasks EXCEPT ![i] = None] /\ UNCHANGED <<kv, seen, mirror, cache, reads, absent, missed>>
        /\ Spared' = Spared \cup {k}
    BY DEF TaskDies, Leaves, Fails, Spared
  <1>2. KeyTypes' /\ Minting' /\ Timed'
    BY <1>1 DEF KeyInv, KeyTypes, Minting, Timed
  <1>3. ASSUME NEW l \in Keys \ Spared' PROVE Tracked(l)'
    <2>1. Tracked(l) /\ l # k
      BY <1>1, <1>3 DEF KeyInv
    <2>2. Gone(l)' <=> Gone(l)
      BY <1>1 DEF Gone
    <2>3. \A h \in Isolates : tasks'[h] # None => h # i /\ tasks'[h] = tasks[h]
      BY <1>1 DEF KeyInv, KeyTypes
    <2>4. \A h \in Isolates : Deleting(tasks[h], l) => Deleting(tasks'[h], l)
      BY <1>1, <2>1 DEF Deleting, KeyInv, KeyTypes
    <2> QED BY <1>1, <2>1, <2>2, <2>3, <2>4 DEF Tracked
  <1> QED BY <1>2, <1>3 DEF KeyInv

LEMMA PresentsKeeps ==
  ASSUME KeyInv, NEW i \in Isolates, NEW k \in Keys, Presents(i, k)
  PROVE  KeyInv'
  <1>1. PICK found \in BOOLEAN :
          /\ Reads(i, Presented(k), k, found)
          /\ reads' = reads \cup {[at |-> i, key |-> k, found |-> found, waited |-> 0]}
    BY DEF Presents
  <1> PICK r : r = [at |-> i, key |-> k, found |-> found, waited |-> 0]
    OBVIOUS
  <1>2. /\ reads' = reads \cup {r} /\ r \in Read /\ r.key = k /\ r.waited = 0 /\ r.found = found
        /\ UNCHANGED <<kv, seen, mirror, cache, tasks, absent, missed>> /\ mirror[k] # "none"
        /\ Spared \subseteq Spared' /\ r.at = i
        /\ found => Presented(k) \in seen[i]
    BY <1>1, KeyNumbers DEF Presents, Read, Reads, Works, Fails, Spared
  <1>3. KeyTypes' /\ Minting'
    BY <1>2 DEF KeyInv, KeyTypes, Minting
  <1>4. Timed'
    <2>1. r.found => absent[i][k] <= r.waited
      BY <1>2 DEF KeyInv, Timed
    <2> QED BY <1>2, <2>1 DEF KeyInv, Timed
  <1>5. ASSUME NEW l \in Keys \ Spared' PROVE Tracked(l)'
    <2>1. Tracked(l) /\ (Gone(l)' <=> Gone(l))
      BY <1>2, <1>5 DEF KeyInv, Gone
    <2> QED BY <1>2, <2>1 DEF Tracked
  <1> QED BY <1>3, <1>4, <1>5 DEF KeyInv

LEMMA ReadArrivesKeeps ==
  ASSUME KeyInv, NEW r \in reads, ReadArrives(r)
  PROVE  KeyInv'
  <1> PICK entries : entries = IF r.found THEN EntriesOf(r.key) ELSE {Presented(r.key)}
    OBVIOUS
  <1>1. /\ r \in Read /\ r.at \in Isolates /\ r.key \in Keys /\ r.found \in BOOLEAN
        /\ r.waited \in 0 .. ReadTime
    BY DEF KeyInv, KeyTypes, Read
  <1>2. /\ reads' = reads \ {r} /\ Caches(r.at, entries, r.found)
        /\ UNCHANGED <<kv, seen, mirror, tasks, absent, blurred, missed>>
    BY DEF ReadArrives
  <1>3. /\ cache' \in [Isolates -> [Entries -> Hit \cup {None}]]
        /\ \A l \in Isolates, e \in Entries :
             cache'[l][e] = IF l = r.at /\ e \in entries THEN Fresh(r.found) ELSE cache[l][e]
    BY <1>1, <1>2, CachesIs DEF KeyInv
  <1>4. KeyTypes' /\ Minting'
    BY <1>2, <1>3 DEF KeyInv, KeyTypes, Minting
  <1>5. entries \subseteq {IdOf(r.key), Presented(r.key)}
    BY <1>1, EntryNames
  <1>6. Timed'
    <2>1. ASSUME NEW h \in Isolates, NEW l \in Keys,
                 cache'[h][Presented(l)] # None, cache'[h][Presented(l)].found
          PROVE  absent'[h][l] + cache'[h][Presented(l)].left <= KeyHorizon
      <3>1. CASE h = r.at /\ Presented(l) \in entries
        <4>1. l = r.key
          BY <3>1, <1>1, <1>5, EntryNames
        <4>2. cache'[h][Presented(l)] = Fresh(r.found)
          BY <3>1, <1>3, EntryNames
        <4>3. r.found /\ cache'[h][Presented(l)].left = KeyTTL
          BY <4>2, <2>1, <1>1, FreshIs
        <4>4. absent[h][l] <= r.waited /\ absent[h][l] \in Nat
          BY <3>1, <1>1, <4>1, <4>3, KeyNumbers DEF KeyInv, Timed, KeyTypes
        <4> QED BY <4>3, <4>4, <1>1, <1>2, KeyNumbers
      <3>2. CASE ~(h = r.at /\ Presented(l) \in entries)
        <4>1. cache'[h][Presented(l)] = cache[h][Presented(l)]
          BY <3>2, <1>3, EntryNames
        <4> QED BY <4>1, <2>1, <1>2 DEF KeyInv, Timed
      <3> QED BY <3>1, <3>2
    <2> QED BY <1>2, <2>1 DEF KeyInv, Timed
  <1>7. ASSUME NEW l \in Keys \ Spared' PROVE Tracked(l)'
    <2>1. Tracked(l) /\ l \in Keys /\ (Gone(l)' <=> Gone(l))
      BY <1>2, <1>7 DEF KeyInv, Spared, Gone
    <2> QED BY <1>2, <2>1 DEF Tracked
  <1> QED BY <1>4, <1>6, <1>7 DEF KeyInv

LEMMA PropagatesKeeps ==
  ASSUME KeyInv, NEW i \in Isolates, NEW e \in Entries, Propagates(i, e)
  PROVE  KeyInv'
  <1>1. /\ UNCHANGED <<kv, mirror, cache, tasks, reads, absent, blurred, missed>>
        /\ seen' \in [Isolates -> SUBSET Entries]
        /\ \A h \in Isolates, f \in Entries : f \in seen'[h] => f \in seen[h] \/ f \in kv
    BY DEF Propagates, KeyInv, KeyTypes
  <1>2. KeyTypes' /\ Minting'
    BY <1>1 DEF KeyInv, KeyTypes, Minting
  <1>3. Timed'
    BY <1>1, EntryNames DEF KeyInv, Timed
  <1>4. ASSUME NEW l \in Keys \ Spared' PROVE Tracked(l)'
    BY <1>1, <1>4 DEF KeyInv, Spared, Tracked, Gone
  <1> QED BY <1>2, <1>3, <1>4 DEF KeyInv

LEMMA KeysTick ==
  ASSUME KeyInv, Tick
  PROVE  KeyInv'
  <1>1. UNCHANGED <<kv, seen, mirror, tasks, blurred, missed>>
    BY DEF Tick
  <1>2. ASSUME NEW i \in Isolates, NEW e \in Entries, cache'[i][e] # None
        PROVE  /\ cache[i][e] # None /\ cache[i][e] \in Hit /\ cache'[i][e] \in Hit
               /\ cache'[i][e].found = cache[i][e].found
               /\ cache'[i][e].left = cache[i][e].left - 1
    <2> PICK hit : hit = cache[i][e]
      OBVIOUS
    <2>1. cache'[i][e] = Aged(hit) /\ hit \in Hit \cup {None}
      BY DEF Tick, KeyInv, KeyTypes
    <2>2. hit # None /\ hit.left # 1 /\ cache'[i][e] = [hit EXCEPT !.left = @ - 1]
      BY <2>1, <1>2 DEF Aged
    <2>3. hit \in Hit
      BY <2>1, <2>2
    <2> QED BY <2>2, <2>3, KeyNumbers DEF Hit
  <1>3. ASSUME NEW r \in reads'
        PROVE  \E s \in reads : /\ r \in Read /\ s \in Read /\ r.key = s.key /\ r.found = s.found
                                 /\ r.at = s.at
                                 /\ r.waited = s.waited + 1
    <2>1. PICK s \in reads : r = [s EXCEPT !.waited = @ + 1]
      BY DEF Tick, Waits
    <2>2. s \in Read /\ s.waited < ReadTime
      BY DEF Tick, KeyInv, KeyTypes
    <2> QED BY <2>1, <2>2, KeyNumbers DEF Read
  <1>4. ASSUME NEW i \in Isolates, NEW k \in Keys
        PROVE  /\ absent'[i][k] \in 0 .. KeyHorizon /\ absent'[i][k] <= absent[i][k] + 1
               /\ absent[i][k] \in 0 .. KeyHorizon
               /\ mirror[k] = "none" \/ Presented(k) \in kv \/ Presented(k) \in seen[i]
                  => absent'[i][k] = 0
    BY KeyNumbers DEF Tick, Lesser, KeyInv, KeyTypes
  <1>5. KeyTypes'
    <2>1. cache' \in [Isolates -> [Entries -> Hit \cup {None}]]
      <3>1. \A i \in Isolates, e \in Entries : cache'[i][e] \in Hit \cup {None}
        BY <1>2
      <3>2. cache' = [i \in Isolates |-> [e \in Entries |-> cache'[i][e]]]
        BY DEF Tick
      <3> QED BY <3>1, <3>2
    <2>2. absent' \in [Isolates -> [Keys -> 0 .. KeyHorizon]]
      BY <1>4 DEF Tick
    <2> QED BY <1>1, <1>3, <2>1, <2>2 DEF KeyInv, KeyTypes
  <1>6. Minting'
    BY <1>1 DEF KeyInv, Minting
  <1>7. Timed'
    <2>1. ASSUME NEW r \in reads', r.found PROVE absent'[r.at][r.key] <= r.waited
      <3>1. PICK s \in reads : /\ r \in Read /\ s \in Read /\ r.key = s.key /\ r.found = s.found
                               /\ r.at = s.at
                               /\ r.waited = s.waited + 1
        BY <1>3
      <3>2. absent[s.at][s.key] <= s.waited /\ s.at \in Isolates /\ s.key \in Keys /\ s.waited \in 0 .. ReadTime
        BY <2>1, <3>1 DEF KeyInv, Timed, Read
      <3> QED BY <3>1, <3>2, <1>4, KeyNumbers
    <2>2. ASSUME NEW i \in Isolates, NEW k \in Keys,
                 cache'[i][Presented(k)] # None, cache'[i][Presented(k)].found
          PROVE  absent'[i][k] + cache'[i][Presented(k)].left <= KeyHorizon
      <3> PICK h : h = cache[i][Presented(k)]
        OBVIOUS
      <3>1. h # None /\ h \in Hit /\ h.found /\ cache'[i][Presented(k)].left = h.left - 1
        BY <1>2, <2>2, EntryNames
      <3>2. absent[i][k] + h.left <= KeyHorizon /\ h.left \in 1 .. KeyTTL
        BY <3>1 DEF KeyInv, Timed, Hit
      <3> QED BY <3>1, <3>2, <1>4, KeyNumbers
    <2> QED BY <1>1, <1>4, <2>1, <2>2 DEF Timed
  <1>8. ASSUME NEW k \in Keys \ Spared' PROVE Tracked(k)'
    <2>1. Tracked(k) /\ k \in Keys /\ (Gone(k)' <=> Gone(k))
      BY <1>1, <1>8 DEF KeyInv, Spared, Gone
    <2> QED BY <1>1, <2>1 DEF Tracked
  <1> QED BY <1>5, <1>6, <1>7, <1>8 DEF KeyInv

LEMMA KeysKeep ==
  ASSUME KeyInv, [Next]_vars
  PROVE  KeyInv'
  <1>1. ASSUME KeyStep PROVE KeyInv'
    <2>1. ASSUME NEW i \in Isolates, NEW k \in Keys \cap using,
                 Mints(i, k) \/ Revokes(i, k) \/ Presents(i, k)
          PROVE  KeyInv'
      <3>1. k \in Keys
        OBVIOUS
      <3> QED BY <2>1, <3>1, MintsKeeps, RevokesKeeps, PresentsKeeps
    <2>2. ASSUME NEW i \in Isolates,
                 MintPutsHash(i) \/ MintPutsId(i) \/ MirrorsMint(i)
          PROVE  KeyInv'
      BY <2>2, MintPutsHashKeeps, MintPutsIdKeeps, MirrorsMintKeeps
    <2>3. ASSUME NEW i \in Isolates,
                 RevokeDeletesId(i) \/ RevokeDeletesHash(i) \/ MirrorsRevoke(i) \/ TaskDies(i)
          PROVE  KeyInv'
      BY <2>3, RevokeDeletesIdKeeps, RevokeDeletesHashKeeps, MirrorsRevokeKeeps, TaskDiesKeeps
    <2>4. ASSUME NEW r \in reads, ReadArrives(r) PROVE KeyInv'
      BY <2>4, ReadArrivesKeeps
    <2>5. ASSUME NEW i \in Isolates, NEW e \in Entries, Propagates(i, e) PROVE KeyInv'
      BY <2>5, PropagatesKeeps
    <2> QED BY <1>1, <2>1, <2>2, <2>3, <2>4, <2>5 DEF KeyStep
  <1>2. ASSUME UNCHANGED keyVars PROVE KeyInv'
    <2>1. UNCHANGED <<kv, seen, mirror, cache, tasks, reads, absent, blurred, missed>>
      BY <1>2 DEF keyVars
    <2>2. KeyTypes' /\ Minting' /\ Timed'
      BY <2>1 DEF KeyInv, KeyTypes, Minting, Timed
    <2>3. ASSUME NEW k \in Keys \ Spared' PROVE Tracked(k)'
      BY <2>1, <2>3 DEF KeyInv, Spared, Tracked, Gone
    <2> QED BY <2>2, <2>3 DEF KeyInv
  <1> QED BY <1>1, <1>2, KeysTick DEF Next, vars

-----------------------------------------------------------------------------
(* Sessions *)

Verdict == [live : BOOLEAN, age : 0 .. VerdictHorizon]
Check ==
  [at : Isolates, session : Sessions, cached : Verdict \cup {None}, waited : 0 .. ReadTime,
   answer : {"live", "over", "error"}]

SessionTypes ==
  /\ verdicts \in [Isolates -> [Sessions -> Verdict \cup {None}]]
  /\ checks \subseteq Check
  /\ ended \in [Sessions -> 0 .. VerdictHorizon]

(* A verdict that a session lives was true when it had its present age less.*)
OldEnough ==
  /\ \A s \in alive \cap Sessions : ended[s] = 0
  /\ \A i \in Isolates, s \in Sessions :
       verdicts[i][s] # None /\ verdicts[i][s].live => ended[s] <= verdicts[i][s].age
  /\ \A check \in checks :
       /\ check.answer = "live" => ended[check.session] <= check.waited
       /\ check.cached # None /\ check.cached.live =>
            ended[check.session] <= check.cached.age + check.waited

SessionInv == SessionTypes /\ OldEnough

LEMMA SessionNumbers ==
  /\ VerdictTTL \in Nat /\ VerdictTTL > 0 /\ Grace \in Nat /\ ReadTime \in Nat
  /\ VerdictHorizon \in Nat /\ VerdictHorizon = VerdictTTL + Grace + ReadTime
  BY CredentialConstants DEF VerdictHorizon

LEMMA SessionInit ==
  ASSUME Init
  PROVE  SessionInv
  BY SessionNumbers DEF Init, SessionInv, SessionTypes, OldEnough

LEMMA ChecksKeeps ==
  ASSUME SessionInv, NEW i \in Isolates, NEW s \in Sessions, Checks(i, s)
  PROVE  SessionInv'
  <1>1. PICK answer \in {"row", "error"} :
          checks' = checks \cup
            {[at |-> i, session |-> s, cached |-> verdicts[i][s], waited |-> 0,
              answer |-> IF answer = "error" THEN "error"
                         ELSE IF s \in alive THEN "live" ELSE "over"]}
    BY DEF Checks
  <1> PICK check : check = [at |-> i, session |-> s, cached |-> verdicts[i][s], waited |-> 0,
              answer |-> IF answer = "error" THEN "error"
                         ELSE IF s \in alive THEN "live" ELSE "over"]
    OBVIOUS
  <1>2. /\ checks' = checks \cup {check} /\ UNCHANGED <<alive, verdicts, ended>>
        /\ check.session = s /\ check.cached = verdicts[i][s] /\ check.waited = 0
        /\ check.answer = "live" => s \in alive
    BY <1>1 DEF Checks
  <1>3. check \in Check
    <2>1. verdicts[i][s] \in Verdict \cup {None} /\ 0 \in 0 .. ReadTime
      BY SessionNumbers DEF SessionInv, SessionTypes
    <2> QED BY <2>1 DEF Check
  <1>4. SessionTypes'
    BY <1>2, <1>3 DEF SessionInv, SessionTypes
  <1>5. /\ check.answer = "live" => ended[check.session] <= check.waited
        /\ check.cached # None /\ check.cached.live =>
             ended[check.session] <= check.cached.age + check.waited
    <2>1. check.answer = "live" => ended[s] = 0
      BY <1>2 DEF SessionInv, OldEnough
    <2>2. ASSUME check.cached # None, check.cached.live
          PROVE  ended[s] <= check.cached.age + check.waited
      <3>1. ended[s] <= check.cached.age /\ check.cached \in Verdict
        BY <1>2, <2>2 DEF SessionInv, SessionTypes, OldEnough
      <3> QED BY <3>1, <1>2, SessionNumbers DEF Verdict, SessionInv, SessionTypes
    <2> QED BY <1>2, <2>1, <2>2
  <1>6. OldEnough'
    BY <1>2, <1>5 DEF SessionInv, OldEnough
  <1> QED BY <1>4, <1>6 DEF SessionInv

LEMMA CheckArrivesKeeps ==
  ASSUME SessionInv, NEW check \in checks, CheckArrives(check)
  PROVE  SessionInv'
  <1> PICK lives \in BOOLEAN : lives = (check.answer = "live")
    OBVIOUS
  <1> PICK v : v = [live |-> lives, age |-> check.waited]
    OBVIOUS
  <1>1. /\ check \in Check /\ check.at \in Isolates /\ check.session \in Sessions
        /\ check.waited \in 0 .. ReadTime
    BY DEF SessionInv, SessionTypes, Check
  <1>2. v \in Verdict /\ v.age = check.waited /\ (v.live => check.answer = "live")
    <2>1. v.live = lives /\ v.age = check.waited
      OBVIOUS
    <2>2. check.waited \in 0 .. VerdictHorizon
      BY <1>1, SessionNumbers
    <2>3. v \in Verdict
      BY <2>2 DEF Verdict
    <2>4. v.live => check.answer = "live"
      BY <2>1, Zenon
    <2> QED BY <2>1, <2>3, <2>4
  <1>3. /\ checks' = checks \ {check} /\ UNCHANGED <<alive, ended>>
        /\ \/ verdicts' = verdicts
           \/ verdicts' = [verdicts EXCEPT ![check.at][check.session] = v]
    BY DEF CheckArrives
  <1>4. /\ verdicts' \in [Isolates -> [Sessions -> Verdict \cup {None}]]
        /\ \A i \in Isolates, s \in Sessions :
             verdicts'[i][s] = verdicts[i][s] \/ (verdicts'[i][s] = v /\ s = check.session)
    <2> PICK a \in Isolates, s \in Sessions : a = check.at /\ s = check.session
      BY <1>1
    <2> PICK of : of = [verdicts[a] EXCEPT ![s] = v]
      OBVIOUS
    <2>1. /\ verdicts \in [Isolates -> [Sessions -> Verdict \cup {None}]]
          /\ of \in [Sessions -> Verdict \cup {None}]
          /\ \A r \in Sessions : of[r] = IF r = s THEN v ELSE verdicts[a][r]
      BY <1>2 DEF SessionInv, SessionTypes
    <2>2. verdicts' = verdicts \/ verdicts' = [verdicts EXCEPT ![a] = of]
      BY <1>3
    <2> QED BY <2>1, <2>2
  <1>5. SessionTypes'
    BY <1>3, <1>4 DEF SessionInv, SessionTypes
  <1>6. OldEnough'
    <2>1. ASSUME NEW i \in Isolates, NEW s \in Sessions, verdicts'[i][s] # None, verdicts'[i][s].live
          PROVE  ended[s] <= verdicts'[i][s].age
      <3>1. CASE verdicts'[i][s] = verdicts[i][s]
        BY <3>1, <2>1 DEF SessionInv, OldEnough
      <3>2. CASE verdicts'[i][s] = v /\ s = check.session
        BY <3>2, <2>1, <1>2 DEF SessionInv, OldEnough
      <3> QED BY <3>1, <3>2, <1>4
    <2> QED BY <1>3, <2>1 DEF SessionInv, OldEnough
  <1> QED BY <1>5, <1>6 DEF SessionInv

LEMMA SessionsTick ==
  ASSUME SessionInv, Tick
  PROVE  SessionInv'
  <1>1. ASSUME NEW s \in Sessions
        PROVE  /\ ended[s] \in 0 .. VerdictHorizon /\ ended'[s] \in 0 .. VerdictHorizon
               /\ ended'[s] <= ended[s] + 1 /\ (s \in alive => ended'[s] = 0)
    BY SessionNumbers DEF Tick, Lesser, SessionInv, SessionTypes
  <1>2. ASSUME NEW i \in Isolates, NEW s \in Sessions, verdicts'[i][s] # None
        PROVE  /\ verdicts[i][s] # None /\ verdicts[i][s] \in Verdict /\ verdicts'[i][s] \in Verdict
               /\ verdicts'[i][s].live = verdicts[i][s].live
               /\ verdicts'[i][s].age = Lesser(verdicts[i][s].age + 1, VerdictHorizon)
    <2> PICK v : v = verdicts[i][s]
      OBVIOUS
    <2>1. /\ verdicts'[i][s] = IF v = None THEN None
                             ELSE [v EXCEPT !.age = Lesser(@ + 1, VerdictHorizon)]
          /\ v \in Verdict \cup {None}
      BY DEF Tick, SessionInv, SessionTypes
    <2>2. v # None /\ v \in Verdict /\ verdicts'[i][s] = [v EXCEPT !.age = Lesser(@ + 1, VerdictHorizon)]
      BY <2>1, <1>2
    <2> QED BY <2>2, SessionNumbers DEF Verdict, Lesser
  <1>3. ASSUME NEW r \in checks'
        PROVE  \E c \in checks :
                 /\ r \in Check /\ c \in Check /\ r.session = c.session /\ r.answer = c.answer
                 /\ r.cached = c.cached /\ r.waited = c.waited + 1
    <2>1. PICK c \in checks : r = [c EXCEPT !.waited = @ + 1]
      BY DEF Tick, Waits
    <2>2. c \in Check /\ c.waited < ReadTime
      BY DEF Tick, SessionInv, SessionTypes
    <2> QED BY <2>1, <2>2, SessionNumbers DEF Check
  <1>4. SessionTypes'
    <2>1. verdicts' \in [Isolates -> [Sessions -> Verdict \cup {None}]]
      <3>1. \A i \in Isolates, s \in Sessions : verdicts'[i][s] \in Verdict \cup {None}
        BY <1>2
      <3>2. verdicts' = [i \in Isolates |-> [s \in Sessions |-> verdicts'[i][s]]]
        BY DEF Tick
      <3> QED BY <3>1, <3>2
    <2>2. ended' \in [Sessions -> 0 .. VerdictHorizon]
      BY <1>1 DEF Tick
    <2> QED BY <1>3, <2>1, <2>2 DEF SessionTypes
  <1>5. OldEnough'
    <2>1. \A s \in alive' \cap Sessions : ended'[s] = 0
      BY <1>1 DEF Tick
    <2>2. ASSUME NEW i \in Isolates, NEW s \in Sessions, verdicts'[i][s] # None, verdicts'[i][s].live
          PROVE  ended'[s] <= verdicts'[i][s].age
      <3> PICK v : v = verdicts[i][s]
        OBVIOUS
      <3>1. /\ v # None /\ v \in Verdict /\ v.live
            /\ verdicts'[i][s].age = Lesser(v.age + 1, VerdictHorizon)
        BY <1>2, <2>2
      <3>2. ended[s] <= v.age /\ v.age \in Nat
        BY <3>1, SessionNumbers DEF SessionInv, OldEnough, Verdict
      <3> QED BY <3>1, <3>2, <1>1, SessionNumbers DEF Lesser
    <2>3. ASSUME NEW r \in checks'
          PROVE  /\ r.answer = "live" => ended'[r.session] <= r.waited
                 /\ r.cached # None /\ r.cached.live => ended'[r.session] <= r.cached.age + r.waited
      <3>1. PICK c \in checks :
              /\ r \in Check /\ c \in Check /\ r.session = c.session /\ r.answer = c.answer
              /\ r.cached = c.cached /\ r.waited = c.waited + 1
        BY <1>3
      <3>2. /\ c.answer = "live" => ended[c.session] <= c.waited
            /\ c.cached # None /\ c.cached.live => ended[c.session] <= c.cached.age + c.waited
        BY DEF SessionInv, OldEnough
      <3>3. /\ c.session \in Sessions /\ c.waited \in 0 .. ReadTime
            /\ c.cached # None => c.cached.age \in 0 .. VerdictHorizon
        BY <3>1 DEF Check, Verdict
      <3> PICK s : s = c.session
        OBVIOUS
      <3>4. ended'[s] <= ended[s] + 1 /\ ended[s] \in Nat /\ ended'[s] \in Nat
        BY <3>3, <1>1, SessionNumbers
      <3>5. r.answer = "live" => ended'[s] <= r.waited
        BY <3>1, <3>2, <3>3, <3>4, SessionNumbers
      <3>6. r.cached # None /\ r.cached.live => ended'[s] <= r.cached.age + r.waited
        BY <3>1, <3>2, <3>3, <3>4, SessionNumbers
      <3> QED BY <3>1, <3>5, <3>6
    <2> QED BY <2>1, <2>2, <2>3 DEF OldEnough
  <1> QED BY <1>4, <1>5 DEF SessionInv

LEMMA SessionsKeep ==
  ASSUME SessionInv, [Next]_vars
  PROVE  SessionInv'
  <1>1. ASSUME NEW s \in Sessions, SessionEnds(s) PROVE SessionInv'
    BY <1>1 DEF SessionEnds, SessionInv, SessionTypes, OldEnough
  <1>2. ASSUME UNCHANGED sessionVars PROVE SessionInv'
    BY <1>2 DEF sessionVars, SessionInv, SessionTypes, OldEnough
  <1>3. ASSUME SessionStep PROVE SessionInv'
    <2>1. ASSUME NEW i \in Isolates, NEW s \in Sessions \cap using, Checks(i, s) PROVE SessionInv'
      <3>1. s \in Sessions
        OBVIOUS
      <3> QED BY <3>1, <2>1, ChecksKeeps
    <2> QED BY <1>3, <1>1, <2>1, CheckArrivesKeeps DEF SessionStep
  <1> QED BY <1>2, <1>3, SessionsTick DEF Next, vars

-----------------------------------------------------------------------------

(* What is known of keys and sessions gives what is promised of them. *)
LEMMA AccessFollows ==
  ASSUME KeyInv, SessionInv
  PROVE  AccessEnds
  <1>1. StaleAtMostTTL
    <2>1. ASSUME NEW i \in Isolates, NEW k \in Keys,
                 cache[i][Presented(k)] # None, cache[i][Presented(k)].found
          PROVE  absent[i][k] < KeyHorizon
      <3> PICK h : h = cache[i][Presented(k)]
        OBVIOUS
      <3>1. absent[i][k] + h.left <= KeyHorizon
        BY <2>1 DEF KeyInv, Timed
      <3>2. h \in Hit
        BY <2>1, EntryNames DEF KeyInv, KeyTypes
      <3> QED BY <3>1, <3>2, KeyNumbers DEF Hit, KeyInv, KeyTypes
    <2> QED BY <2>1 DEF StaleAtMostTTL
  <1>2. RevokedIsGone
    <2>1. ASSUME NEW k \in Keys \ (blurred \cup missed), mirror[k] = "disabled", Settled(k)
          PROVE  EntriesOf(k) \cap kv = {}
      BY <2>1 DEF KeyInv, Spared, Tracked, Settled, Deleting
    <2> QED BY <2>1 DEF RevokedIsGone
  <1>3. SessionEndHonoured
    <2>1. ASSUME NEW i \in Isolates, NEW s \in Sessions, IsFresh(verdicts[i][s]), verdicts[i][s].live
          PROVE  ended[s] < VerdictTTL
      <3> PICK v : v = verdicts[i][s]
        OBVIOUS
      <3>1. v # None /\ v.age < VerdictTTL /\ v \in Verdict /\ ended[s] <= v.age
        BY <2>1 DEF IsFresh, SessionInv, SessionTypes, OldEnough
      <3> QED BY <3>1, SessionNumbers DEF Verdict, SessionInv, SessionTypes
    <2>2. ASSUME NEW check \in checks, Passes(check)
          PROVE  ended[check.session] - check.waited < VerdictTTL + Grace
      <3>1. /\ check \in Check /\ check.waited \in Nat /\ ended[check.session] \in Nat
            /\ check.cached # None => check.cached.age \in Nat
        BY SessionNumbers DEF SessionInv, SessionTypes, Check, Verdict
      <3>2. CASE check.answer = "live"
        <4>1. ended[check.session] <= check.waited
          BY <3>2 DEF SessionInv, OldEnough
        <4> QED BY <4>1, <3>1, SessionNumbers
      <3>3. CASE Stands(check)
        <4>1. /\ check.cached # None /\ check.cached.age < VerdictTTL + Grace
              /\ ended[check.session] <= check.cached.age + check.waited
          BY <3>3 DEF Stands, SessionInv, OldEnough
        <4> QED BY <4>1, <3>1, SessionNumbers
      <3> QED BY <2>2, <3>2, <3>3 DEF Passes
    <2> QED BY <2>1, <2>2 DEF SessionEndHonoured
  <1> QED BY <1>1, <1>2, <1>3 DEF AccessEnds, RevocationHolds

(* Access that was taken away ends, on every isolate, within the lifetimes  *)
(* of api-keys.ts and oauth-token.ts, counted for a key from when its       *)
(* deletion reached the isolate's place, for any keys, sessions, lifetimes, *)
(* failures and delays of the store; and nothing of a revoked key is left   *)
(* in the store unless one of the calls about it failed or one of its       *)
(* revocations missed its record, as one does where the store does not show *)
(* it yet.                                                                  *)
THEOREM AccessIsTakenAway == Spec => []AccessEnds
<1>1. Init => KeyInv /\ SessionInv
  BY KeyInit, SessionInit
<1>2. KeyInv /\ SessionInv /\ [Next]_vars => (KeyInv /\ SessionInv)'
  BY KeysKeep, SessionsKeep
<1>3. KeyInv /\ SessionInv => AccessEnds
  BY AccessFollows
<1> QED BY <1>1, <1>2, <1>3, PTL DEF Spec

-----------------------------------------------------------------------------
(* Members *)

Invitation ==
  [workspace : Nat, email : People, by : People \cup {Nobody},
   status : {"pending", "accepted", "expired", "superseded"}]
Member == [workspace : Nat, user : People, role : {"member", "owner"}, invite : Nat]

MemberTypes ==
  /\ accounts \subseteq People /\ workspaces \in Nat
  /\ members \in Seq(Member)
  /\ invitations \in Seq(Invitation)
  /\ calls \in [Visits -> Call \cup {Nobody}]
  /\ acted \subseteq People \X Nat
  /\ refused \subseteq halfway

(* A call on its way from a new account to the workspace that invited it. *)
Redeeming(x) == x.step \in {"redeem", "expire", "accept", "join"}

(* What a call that is about to take its step may rely on. *)
CallOK(x) ==
  /\ x.step = "account" => x.kind = "signup"
  /\ ((x.step = "account" /\ x.with # 0) \/ Redeeming(x)) =>
       x.kind = "signup" /\ x.with \in Invitations /\ invitations[x.with].email = x.user
  /\ Redeeming(x) => x.user \in accounts
  /\ x.step = "expire" => invitations[x.with].status # "accepted"
  /\ x.step = "join" =>
       /\ invitations[x.with].status = "accepted" /\ invitations[x.with].by = x.user
       /\ \A n \in DOMAIN members : members[n].invite # x.with
  /\ x.step = "billing" => RowsOf(x.user) # {} /\ x.workspace = FirstRow(x.user).workspace
  /\ x.kind = "invite" => x.with \in People
  /\ x.step \in {"supersede", "insert"} => x.kind = "invite" /\ x.workspace \in billed

Active(c) == calls[c] # Nobody

(* Two calls of one person are not both redeeming. *)
Alone ==
  \A c, d \in Visits : Active(c) /\ Active(d) /\ c # d /\ calls[c].user = calls[d].user =>
    ~(Redeeming(calls[c]) /\ Redeeming(calls[d]))

(* Each member was admitted by an invitation of its own; each person with a *)
(* row has a first one.                                                     *)
Rows ==
  /\ \A u \in People : RowsOf(u) # {} => \E n \in RowsOf(u) : \A m \in RowsOf(u) : n <= m
  /\ \A n \in DOMAIN members :
       /\ members[n].role = "owner" => members[n].invite = 0
       /\ members[n].role = "member" =>
            LET i == invitations[members[n].invite]
            IN /\ members[n].invite \in Invitations
               /\ i.status = "accepted" /\ i.by = members[n].user
               /\ i.email = members[n].user /\ i.workspace = members[n].workspace
               /\ \A m \in DOMAIN members \ {n} : members[m].invite # members[n].invite

(* A workspace somebody is in has its row, or a call about to make it, *)
(* unless that one died.                                               *)
Provisioning(x, row) ==
  x # Nobody /\ x.step = "provision" /\ x.user = row.user /\ x.workspace = row.workspace
Cut(row) == <<row.user, row.workspace>> \in halfway
Billed ==
  /\ \A i \in Invitations : invitations[i].workspace \in billed
  /\ \A n \in DOMAIN members :
       \/ <<members[n].user, members[n].workspace>> \in halfway
       \/ members[n].workspace \in billed
       \/ \E c \in Visits : Provisioning(calls[c], members[n])

ActedFirst ==
  \A a \in acted : RowsOf(a[1]) # {} /\ a[2] = FirstRow(a[1]).workspace

CallsOK == \A c \in Visits : Active(c) => CallOK(calls[c])

MemberInv == MemberTypes /\ CallsOK /\ Alone /\ Rows /\ Billed /\ ActedFirst

(* The first row of a person. *)
LEMMA FirstRowIs ==
  ASSUME NEW u, NEW n \in RowsOf(u), \A m \in RowsOf(u) : n <= m,
         members \in Seq(Member)
  PROVE  FirstRow(u) = members[n]
  <1>1. RowsOf(u) \subseteq Nat
    BY DEF RowsOf
  <1>2. ASSUME NEW l \in RowsOf(u), \A m \in RowsOf(u) : l <= m PROVE l = n
    <2>1. l <= n /\ n <= l
      BY <1>2
    <2> QED BY <1>1, <2>1
  <1>3. (CHOOSE l \in RowsOf(u) : \A m \in RowsOf(u) : l <= m) = n
    BY <1>2
  <1> QED BY <1>3 DEF FirstRow

LEMMA MemberBegins ==
  ASSUME MembershipInit
  PROVE  MemberInv
  <1>1. /\ members = <<>> /\ invitations = <<>> /\ DOMAIN members = {} /\ Invitations = {}
        /\ \A c \in Visits : calls[c] = Nobody
    BY DEF MembershipInit, Invitations
  <1>2. MemberTypes
    BY DEF MembershipInit, MemberTypes
  <1>3. CallsOK /\ Alone
    BY <1>1 DEF CallsOK, Alone, Active
  <1>4. Rows /\ Billed
    BY <1>1 DEF Rows, Billed, RowsOf
  <1>5. ActedFirst
    BY DEF MembershipInit, ActedFirst
  <1> QED BY <1>2, <1>3, <1>4, <1>5 DEF MemberInv

(* Of the calls, a step changes the one that takes it. *)
LEMMA OthersKeep ==
  ASSUME MemberInv, NEW c \in Visits, NEW x \in Call \cup {Nobody},
         calls' = [calls EXCEPT ![c] = x],
         x # Nobody => CallOK(x)',
         \A d \in Visits \ {c} : \A y : y = calls[d] /\ y # Nobody => CallOK(y)',
         \/ x = Nobody
         \/ /\ Active(c) /\ x.user = calls[c].user
            /\ Redeeming(x) => Redeeming(calls[c]) \/ x.user \notin accounts
         \/ ~Redeeming(x)
  PROVE  /\ calls' \in [Visits -> Call \cup {Nobody}] /\ CallsOK' /\ Alone'
         /\ \A d \in Visits : calls'[d] = IF d = c THEN x ELSE calls[d]
  <1>1. /\ \A d \in Visits : calls'[d] = IF d = c THEN x ELSE calls[d]
        /\ calls' \in [Visits -> Call \cup {Nobody}]
    BY DEF MemberInv, MemberTypes
  <1>2. CallsOK'
    <2>1. ASSUME NEW d \in Visits, Active(d)' PROVE CallOK(calls[d])'
      <3> PICK y : y = calls'[d]
        OBVIOUS
      <3>1. y # Nobody /\ CallOK(y)'
        BY <2>1, <1>1 DEF Active
      <3> QED BY <3>1
    <2> QED BY <2>1 DEF CallsOK
  <1>3. Alone'
    <2>1. ASSUME NEW b \in Visits, NEW d \in Visits, b # d, b # c, d # c, Active(b)', Active(d)',
                 calls'[b].user = calls'[d].user
          PROVE  ~(Redeeming(calls'[b]) /\ Redeeming(calls'[d]))
      BY <2>1, <1>1 DEF MemberInv, Alone, Active
    <2>2. ASSUME NEW d \in Visits, d # c, Active(d), x # Nobody, calls[d].user = x.user
          PROVE  ~(Redeeming(calls[d]) /\ Redeeming(x))
      <3>1. CASE Active(c) /\ x.user = calls[c].user
                 /\ (Redeeming(x) => Redeeming(calls[c]) \/ x.user \notin accounts)
        <4>1. Redeeming(calls[d]) => x.user \in accounts
          BY <2>2 DEF MemberInv, CallsOK, CallOK
        <4> QED BY <4>1, <2>2, <3>1 DEF MemberInv, Alone
      <3>2. CASE ~Redeeming(x)
        BY <3>2
      <3> QED BY <2>2, <3>1, <3>2
    <2> QED BY <2>1, <2>2, <1>1 DEF Alone, Active
  <1> QED BY <1>1, <1>2, <1>3

(* A row of a workspace that has none yet is provided for. *)
LEMMA BilledStays ==
  ASSUME MemberInv, NEW c \in Visits, NEW x,
         \A d \in Visits : calls'[d] = IF d = c THEN x ELSE calls[d],
         halfway \subseteq halfway', billed \subseteq billed',
         \A row \in Member : Provisioning(calls[c], row) =>
           Provisioning(x, row) \/ Cut(row)' \/ row.workspace \in billed'
  PROVE  \A n \in DOMAIN members :
           \/ <<members[n].user, members[n].workspace>> \in halfway'
           \/ members[n].workspace \in billed'
           \/ \E d \in Visits : Provisioning(calls'[d], members[n])
  <1> SUFFICES ASSUME NEW n \in DOMAIN members
               PROVE  \/ <<members[n].user, members[n].workspace>> \in halfway'
                      \/ members[n].workspace \in billed'
                      \/ \E d \in Visits : Provisioning(calls'[d], members[n])
    OBVIOUS
  <1> PICK row \in Member : row = members[n]
    BY ElementOfSeq, LenProperties DEF MemberInv, MemberTypes
  <1>1. ASSUME NEW d \in Visits, Provisioning(calls[d], row)
        PROVE  Cut(row)' \/ row.workspace \in billed' \/ Provisioning(calls'[d], row)
    BY <1>1 DEF Cut
  <1>2. \/ Cut(row) \/ row.workspace \in billed
        \/ \E d \in Visits : Provisioning(calls[d], row)
    BY DEF MemberInv, Billed, Cut
  <1> QED BY <1>1, <1>2 DEF Cut

(* A step that changes neither rows nor invitations. *)
LEMMA CallMoves ==
  ASSUME MemberInv, NEW c \in Visits, NEW x \in Call \cup {Nobody},
         calls' = [calls EXCEPT ![c] = x],
         accounts \subseteq accounts', accounts' \subseteq People, workspaces' \in Nat,
         UNCHANGED <<members, invitations>>, billed \subseteq billed',
         halfway \subseteq halfway', refused' \subseteq halfway',
         \A a \in acted' \ acted :
           a \in People \X Nat /\ RowsOf(a[1]) # {} /\ a[2] = FirstRow(a[1]).workspace,
         x # Nobody => CallOK(x)',
         \/ x = Nobody
         \/ /\ Active(c) /\ x.user = calls[c].user
            /\ Redeeming(x) => Redeeming(calls[c]) \/ x.user \notin accounts
         \/ ~Redeeming(x),
         \A row \in Member : Provisioning(calls[c], row) =>
           Provisioning(x, row) \/ Cut(row)' \/ row.workspace \in billed'
  PROVE  MemberInv'
  <1>1. ASSUME NEW d \in Visits \ {c}, NEW y, y = calls[d], y # Nobody PROVE CallOK(y)'
    <2>1. CallOK(y)
      BY <1>1 DEF MemberInv, CallsOK, Active
    <2> QED BY <2>1 DEF CallOK, RowsOf, FirstRow, Invitations
  <1>2. /\ calls' \in [Visits -> Call \cup {Nobody}] /\ CallsOK' /\ Alone'
        /\ \A d \in Visits : calls'[d] = IF d = c THEN x ELSE calls[d]
    BY <1>1, OthersKeep
  <1>3. MemberTypes'
    BY <1>2 DEF MemberInv, MemberTypes
  <1>4. Rows'
    BY DEF MemberInv, Rows, RowsOf, Invitations
  <1>5. Billed'
    BY <1>2, BilledStays DEF MemberInv, Billed, Invitations
  <1>6. ActedFirst'
    BY DEF MemberInv, ActedFirst, RowsOf, FirstRow
  <1> QED BY <1>2, <1>3, <1>4, <1>5, <1>6 DEF MemberInv

(* The call that is at a step. *)
LEMMA AtIs ==
  ASSUME MemberInv, NEW c \in Visits, NEW step, At(c, step)
  PROVE  calls[c] \in Call /\ calls[c] # Nobody /\ Active(c) /\ calls[c].step = step /\ CallOK(calls[c])
  BY DEF At, Active, MemberInv, MemberTypes, CallsOK

(* A call that ends its work, or goes to a step that relies on nothing new. *)
LEMMA BeginsKeeps ==
  ASSUME MemberInv, NEW c \in Visits, NEW kind \in {"signup", "visit", "invite"}, NEW u \in People,
         NEW step \in {"account", "context"}, NEW with \in Nat \cup People,
         Begins(c, kind, u, step, with),
         UNCHANGED <<accounts, tenancy, invitations, told, halfway>>,
         step = "account" => kind = "signup",
         step = "account" /\ with # 0 => with \in Invitations /\ invitations[with].email = u,
         kind = "invite" => with \in People
  PROVE  MemberInv'
  <1> PICK x : x = [kind |-> kind, user |-> u, step |-> step, with |-> with,
                    workspace |-> 0, again |-> FALSE]
    OBVIOUS
  <1>1. x \in Call /\ x.kind = kind /\ x.user = u /\ x.step = step /\ x.with = with
    BY DEF Call
  <1>2. /\ calls[c] = Nobody /\ calls' = [calls EXCEPT ![c] = x]
        /\ UNCHANGED <<accounts, workspaces, members, billed, invitations, acted, refused>>
        /\ halfway' = halfway
    BY DEF Begins, tenancy, told
  <1>3. CallOK(x)'
    BY <1>1, <1>2 DEF CallOK, Redeeming, Invitations
  <1>4. accounts \subseteq accounts' /\ accounts' \subseteq People /\ workspaces' \in Nat
        /\ billed \subseteq billed' /\ refused' \subseteq halfway' /\ acted' \ acted = {}
    BY <1>2 DEF MemberInv, MemberTypes
  <1>5. ~Redeeming(x)
    BY <1>1 DEF Redeeming
  <1>6. \A row \in Member : ~Provisioning(calls[c], row)
    BY <1>2 DEF Provisioning
  <1> QED BY <1>1, <1>2, <1>3, <1>4, <1>5, <1>6, CallMoves

LEMMA ArrivesKeeps ==
  ASSUME MemberInv, NEW c \in Visits, Arrives(c)
  PROVE  MemberInv'
  <1>1. ASSUME NEW u \in People, NEW i \in 0 .. Len(invitations), SignsUp(c, u, i) PROVE MemberInv'
    <2>1. /\ Begins(c, "signup", u, "account", i)
          /\ i # 0 => i \in Invitations /\ invitations[i].email = u
          /\ UNCHANGED <<accounts, tenancy, invitations, told, halfway>>
          /\ i \in Nat \cup People
      BY <1>1 DEF SignsUp
    <2> QED BY <2>1, BeginsKeeps
  <1>2. ASSUME NEW u \in People, Comes(c, u, "visit", 0) PROVE MemberInv'
    BY <1>2, BeginsKeeps DEF Comes
  <1>3. ASSUME NEW u \in People, NEW friend \in People, ComesToInvite(c, u, friend) PROVE MemberInv'
    BY <1>3, BeginsKeeps DEF ComesToInvite, Comes
  <1> QED BY <1>1, <1>2, <1>3 DEF Arrives

LEMMA CreatesAccountKeeps ==
  ASSUME MemberInv, NEW c \in Visits, CreatesAccount(c)
  PROVE  MemberInv'
  <1> PICK y : y = calls[c]
    OBVIOUS
  <1> PICK x : x = IF y.user \in accounts THEN Nobody
                   ELSE [y EXCEPT !.step = IF y.with = 0 THEN "ensure" ELSE "redeem"]
    OBVIOUS
  <1>1. y \in Call /\ Active(c) /\ y.step = "account" /\ CallOK(y)
    BY AtIs DEF CreatesAccount
  <1>2. /\ calls' = [calls EXCEPT ![c] = x] /\ accounts' = accounts \cup {y.user}
        /\ UNCHANGED <<workspaces, members, billed, invitations, acted, refused, halfway>>
    BY DEF CreatesAccount, Finishes, Goes, tenancy, told
  <1>3. x # Nobody => /\ x \in Call /\ x.user = y.user /\ x.with = y.with /\ x.kind = y.kind
                      /\ y.user \notin accounts
                      /\ x.step \in {"ensure", "redeem"} /\ (x.step = "redeem" => y.with # 0)
    BY <1>1 DEF Call
  <1>4. x # Nobody => CallOK(x)'
    BY <1>1, <1>2, <1>3 DEF CallOK, Redeeming, Invitations
  <1>5. y.user \in People
    BY <1>1 DEF Call
  <1>6. \A row \in Member : ~Provisioning(calls[c], row)
    BY <1>1 DEF Provisioning
  <1> QED BY <1>1, <1>2, <1>3, <1>4, <1>5, <1>6, CallMoves DEF MemberInv, MemberTypes

LEMMA DiesKeeps ==
  ASSUME MemberInv, NEW c \in Visits, Dies(c)
  PROVE  MemberInv'
  <1> PICK y : y = calls[c]
    OBVIOUS
  <1>1. /\ y \in Call /\ calls' = [calls EXCEPT ![c] = Nobody]
        /\ halfway \subseteq halfway'
        /\ y.step = "provision" => <<y.user, y.workspace>> \in halfway'
        /\ UNCHANGED <<accounts, workspaces, members, billed, invitations, acted, refused>>
    BY DEF Dies, At, Finishes, tenancy, told, MemberInv, MemberTypes
  <1>2. \A row \in Member : Provisioning(calls[c], row) => Cut(row)'
    BY <1>1 DEF Provisioning, Cut
  <1> QED BY <1>1, <1>2, CallMoves DEF MemberInv, MemberTypes

(* A call that takes a step and changes nothing else. *)
LEMMA Steps ==
  ASSUME MemberInv, NEW c \in Visits, Active(c), NEW x \in Call \cup {Nobody},
         calls' = [calls EXCEPT ![c] = x], calls[c].step # "provision",
         UNCHANGED <<accounts, members, billed, invitations, acted, refused, halfway>>,
         workspaces' \in Nat,
         x # Nobody => /\ CallOK(x)' /\ x.user = calls[c].user
                       /\ Redeeming(x) => Redeeming(calls[c])
  PROVE  MemberInv'
  <1>1. \A row \in Member : ~Provisioning(calls[c], row)
    BY DEF Provisioning
  <1>2. accounts' \subseteq People /\ refused' \subseteq halfway' /\ acted' \ acted = {}
    BY DEF MemberInv, MemberTypes
  <1> QED BY <1>1, <1>2, CallMoves

LEMMA RedeemsKeeps ==
  ASSUME MemberInv, NEW c \in Visits, Redeems(c)
  PROVE  MemberInv'
  <1> PICK y : y = calls[c]
    OBVIOUS
  <1> PICK step : step = IF y.with \in lapsed THEN "expire" ELSE "accept"
    OBVIOUS
  <1> PICK x : x = IF ~Pending(y.with) THEN Nobody ELSE [y EXCEPT !.step = step]
    OBVIOUS
  <1>1. y \in Call /\ Active(c) /\ y.step = "redeem" /\ CallOK(y)
    BY AtIs DEF Redeems
  <1>2. /\ calls' = [calls EXCEPT ![c] = x]
        /\ UNCHANGED <<accounts, workspaces, members, billed, invitations, acted, refused, halfway>>
    BY DEF Redeems, Finishes, Goes, tenancy, told
  <1>3. x # Nobody => /\ x \in Call /\ x.user = y.user /\ x.with = y.with /\ x.kind = y.kind
                      /\ Pending(y.with) /\ x.step \in {"expire", "accept"}
    BY <1>1 DEF Call
  <1>4. x # Nobody => CallOK(x)'
    BY <1>1, <1>2, <1>3 DEF CallOK, Redeeming, Invitations, Pending
  <1> QED BY <1>1, <1>2, <1>3, <1>4, Steps DEF Redeeming, MemberInv, MemberTypes

LEMMA ReadsContextKeeps ==
  ASSUME MemberInv, NEW c \in Visits, ReadsContext(c)
  PROVE  MemberInv'
  <1> PICK y : y = calls[c]
    OBVIOUS
  <1> PICK x : x = IF RowsOf(y.user) # {}
                   THEN [y EXCEPT !.step = "billing", !.workspace = FirstRow(y.user).workspace]
                   ELSE [y EXCEPT !.step = "ensure"]
    OBVIOUS
  <1>1. y \in Call /\ Active(c) /\ y.step = "context" /\ CallOK(y)
    BY AtIs DEF ReadsContext
  <1>2. /\ calls' = [calls EXCEPT ![c] = x]
        /\ UNCHANGED <<accounts, workspaces, members, billed, invitations, acted, refused, halfway>>
    BY DEF ReadsContext, tenancy, told
  <1>3. RowsOf(y.user) # {} => FirstRow(y.user).workspace \in Nat
    <2>1. ASSUME RowsOf(y.user) # {} PROVE FirstRow(y.user) \in Member
      <3>1. y.user \in People
        BY <1>1 DEF Call
      <3>2. PICK n \in RowsOf(y.user) : \A m \in RowsOf(y.user) : n <= m
        BY <2>1, <3>1 DEF MemberInv, Rows
      <3>3. FirstRow(y.user) = members[n] /\ n \in 1 .. Len(members)
        BY <3>2, FirstRowIs, LenProperties DEF MemberInv, MemberTypes, RowsOf
      <3> QED BY <3>3, ElementOfSeq DEF MemberInv, MemberTypes
    <2> QED BY <2>1 DEF Member
  <1>4. /\ x \in Call /\ x.user = y.user /\ x.with = y.with /\ x.kind = y.kind
        /\ x.step \in {"billing", "ensure"}
        /\ x.step = "billing" => RowsOf(x.user) # {} /\ x.workspace = FirstRow(x.user).workspace
    BY <1>1, <1>3 DEF Call
  <1>5. CallOK(x)'
    BY <1>1, <1>2, <1>4 DEF CallOK, Redeeming, RowsOf, FirstRow
  <1> QED BY <1>1, <1>2, <1>4, <1>5, Steps DEF Redeeming, MemberInv, MemberTypes

(* What follows the making of a Customer. *)
LEMMA ProvidedIs ==
  ASSUME NEW c \in Visits, calls[c] \in Call, Provided(c), NEW y, y = calls[c],
         CallOK(y), y.step \in {"ensure", "provision"}
  PROVE  \E x \in Call \cup {Nobody} :
           /\ calls' = [calls EXCEPT ![c] = x]
           /\ x # Nobody => /\ x.user = y.user /\ x.with = y.with /\ x.kind = y.kind
                            /\ x.step = "context" /\ CallOK(x)'
  <1> PICK x : x = IF y.kind = "signup" THEN Nobody
                   ELSE [y EXCEPT !.step = "context", !.again = TRUE]
    OBVIOUS
  <1>1. calls' = [calls EXCEPT ![c] = x]
    BY DEF Provided
  <1>2. x # Nobody => /\ x \in Call /\ x.user = y.user /\ x.with = y.with /\ x.kind = y.kind
                      /\ x.step = "context"
    BY DEF Call
  <1>3. x # Nobody => CallOK(x)'
    BY <1>2 DEF CallOK, Redeeming
  <1> QED BY <1>1, <1>2, <1>3

LEMMA EnsuresKeeps ==
  ASSUME MemberInv, NEW c \in Visits, Ensures(c)
  PROVE  MemberInv'
  <1> PICK y : y = calls[c]
    OBVIOUS
  <1>1. y \in Call /\ Active(c) /\ y.step = "ensure" /\ CallOK(y)
    BY AtIs DEF Ensures
  <1>2. UNCHANGED <<accounts, workspaces, members, billed, invitations, acted, refused, halfway>>
    BY DEF Ensures, tenancy, told
  <1>3. CASE RowsOf(y.user) # {}
    <2>1. Provided(c)
      BY <1>3 DEF Ensures
    <2>2. PICK x \in Call \cup {Nobody} :
           /\ calls' = [calls EXCEPT ![c] = x]
           /\ x # Nobody => /\ x.user = y.user /\ x.with = y.with /\ x.kind = y.kind
                            /\ x.step = "context" /\ CallOK(x)'
      BY <1>1, <2>1, ProvidedIs
    <2> QED BY <1>1, <1>2, <2>2, Steps DEF Redeeming, MemberInv, MemberTypes
  <1>4. CASE RowsOf(y.user) = {}
    <2> PICK x : x = [y EXCEPT !.step = "workspace"]
      OBVIOUS
    <2>1. /\ calls' = [calls EXCEPT ![c] = x] /\ x \in Call /\ x.user = y.user
          /\ x.kind = y.kind /\ x.with = y.with /\ x.step = "workspace"
      BY <1>1, <1>4 DEF Ensures, Goes, Call
    <2>2. CallOK(x)'
      BY <1>1, <2>1 DEF CallOK, Redeeming
    <2> QED BY <1>1, <1>2, <2>1, <2>2, Steps DEF Redeeming, MemberInv, MemberTypes
  <1> QED BY <1>3, <1>4

LEMMA MakesWorkspaceKeeps ==
  ASSUME MemberInv, NEW c \in Visits, MakesWorkspace(c)
  PROVE  MemberInv'
  <1> PICK y : y = calls[c]
    OBVIOUS
  <1> PICK x : x = [y EXCEPT !.step = "own", !.workspace = workspaces + 1]
    OBVIOUS
  <1>1. y \in Call /\ Active(c) /\ y.step = "workspace" /\ CallOK(y)
    BY AtIs DEF MakesWorkspace
  <1>2. /\ calls' = [calls EXCEPT ![c] = x] /\ workspaces' = workspaces + 1
        /\ UNCHANGED <<accounts, members, billed, invitations, acted, refused, halfway>>
    BY DEF MakesWorkspace, told
  <1>3. x \in Call /\ x.user = y.user /\ x.with = y.with /\ x.kind = y.kind /\ x.step = "own"
    <2>1. workspaces + 1 \in Nat
      BY DEF MemberInv, MemberTypes
    <2> QED BY <1>1, <2>1 DEF Call
  <1>4. CallOK(x)'
    BY <1>1, <1>3 DEF CallOK, Redeeming
  <1>5. workspaces' \in Nat /\ ~Redeeming(x)
    BY <1>2, <1>3 DEF Redeeming, MemberInv, MemberTypes
  <1> QED BY <1>1, <1>2, <1>3, <1>4, <1>5, Steps

(* A visit is refused for a workspace whose row a call was about to write. *)
LEMMA ReadsBillingKeeps ==
  ASSUME MemberInv, NEW c \in Visits, ReadsBilling(c)
  PROVE  MemberInv'
  <1> PICK y : y = calls[c]
    OBVIOUS
  <1>1. y \in Call /\ Active(c) /\ y.step = "billing" /\ CallOK(y)
    BY AtIs DEF ReadsBilling
  <1>2. UNCHANGED <<accounts, workspaces, members, billed, invitations>>
    BY DEF ReadsBilling, tenancy
  <1>3. RowsOf(y.user) # {} /\ y.workspace = FirstRow(y.user).workspace /\ y.user \in People
        /\ y.workspace \in Nat
    BY <1>1 DEF CallOK, Call
  <1>4. \A row \in Member : ~Provisioning(calls[c], row)
    BY <1>1 DEF Provisioning
  <1>5. CASE y.workspace \in billed
    <2> PICK x : x = IF y.kind = "invite" /\ FirstRow(y.user).role = "owner"
                     THEN [y EXCEPT !.step = "supersede"] ELSE Nobody
      OBVIOUS
    <2>1. /\ calls' = [calls EXCEPT ![c] = x] /\ refused' = refused /\ halfway' = halfway
          /\ acted' = acted \cup {<<y.user, y.workspace>>}
      BY <1>5 DEF ReadsBilling, Goes, Finishes
    <2>2. x # Nobody => /\ x \in Call /\ x.user = y.user /\ x.with = y.with /\ x.kind = "invite"
                        /\ y.kind = "invite" /\ x.step = "supersede" /\ x.workspace = y.workspace
      BY <1>1 DEF Call
    <2>3. x # Nobody => CallOK(x)'
      BY <1>1, <1>2, <1>5, <2>2 DEF CallOK, Redeeming
    <2>4. \A a \in acted' \ acted :
            a \in People \X Nat /\ RowsOf(a[1]) # {} /\ a[2] = FirstRow(a[1]).workspace
      BY <1>3, <2>1
    <2>5. x # Nobody => ~Redeeming(x)
      BY <2>2 DEF Redeeming
    <2> QED BY <1>1, <1>2, <1>4, <2>1, <2>2, <2>3, <2>4, <2>5, CallMoves DEF MemberInv, MemberTypes
  <1>6. CASE y.workspace \notin billed
    <2> PICK x : x = IF y.again THEN Nobody ELSE [y EXCEPT !.step = "ensure"]
      OBVIOUS
    <2> DEFINE asked == <<y.user, y.workspace>>
               met == \E d \in Visits : Halfway(d, y.user, y.workspace)
    <2>1. /\ calls' = [calls EXCEPT ![c] = x] /\ acted' = acted
          /\ refused' = IF y.again THEN refused \cup {asked} ELSE refused
          /\ halfway' = IF y.again /\ met THEN halfway \cup {asked} ELSE halfway
      BY <1>6 DEF ReadsBilling, Goes, Finishes
    <2>2. x # Nobody => /\ x \in Call /\ x.user = y.user /\ x.with = y.with /\ x.kind = y.kind
                        /\ x.step = "ensure"
      BY <1>1 DEF Call
    <2>3. x # Nobody => CallOK(x)'
      BY <1>1, <2>2 DEF CallOK, Redeeming
    <2>4. met \/ asked \in halfway
      <3>1. PICK n \in RowsOf(y.user) : \A m \in RowsOf(y.user) : n <= m
        BY <1>3 DEF MemberInv, Rows
      <3>2. /\ FirstRow(y.user) = members[n] /\ n \in DOMAIN members /\ members[n].user = y.user
        BY <3>1, FirstRowIs DEF MemberInv, MemberTypes, RowsOf
      <3>3. CASE \E d \in Visits : Provisioning(calls[d], members[n])
        <4>1. PICK d \in Visits : Provisioning(calls[d], members[n])
          BY <3>3
        <4>2. Halfway(d, y.user, y.workspace)
          BY <4>1, <3>2, <1>3 DEF Provisioning, Halfway, At
        <4> QED BY <4>2
      <3> QED BY <3>2, <3>3, <1>3, <1>6 DEF MemberInv, Billed
    <2>6. refused' \subseteq halfway' /\ halfway \subseteq halfway'
      BY <2>1, <2>4 DEF MemberInv, MemberTypes
    <2> HIDE DEF asked, met
    <2>5. x # Nobody => ~Redeeming(x)
      BY <2>2 DEF Redeeming
    <2> QED BY <1>1, <1>2, <1>4, <2>1, <2>2, <2>3, <2>5, <2>6, CallMoves DEF MemberInv, MemberTypes
  <1> QED BY <1>5, <1>6

LEMMA ProvisionsForKeeps ==
  ASSUME MemberInv, NEW c \in Visits, ProvisionsFor(c)
  PROVE  MemberInv'
  <1> PICK y : y = calls[c]
    OBVIOUS
  <1>1. y \in Call /\ Active(c) /\ y.step = "provision" /\ CallOK(y)
    BY AtIs DEF ProvisionsFor
  <1>2. /\ UNCHANGED <<accounts, workspaces, members, invitations, acted, refused, halfway>>
        /\ billed' = billed \cup {y.workspace} /\ Provided(c)
    BY DEF ProvisionsFor, told
  <1>3. PICK x \in Call \cup {Nobody} :
           /\ calls' = [calls EXCEPT ![c] = x]
           /\ x # Nobody => /\ x.user = y.user /\ x.with = y.with /\ x.kind = y.kind
                            /\ x.step = "context" /\ CallOK(x)'
    BY <1>1, <1>2, ProvidedIs
  <1>4. \A row \in Member : Provisioning(calls[c], row) => row.workspace \in billed'
    BY <1>2 DEF Provisioning
  <1>5. x # Nobody => ~Redeeming(x)
    BY <1>3 DEF Redeeming
  <1> QED BY <1>1, <1>2, <1>3, <1>4, <1>5, CallMoves DEF MemberInv, MemberTypes

(* Rows *)

(* A row that is added is the last one, and the first of its person only if *)
(* it had none.                                                             *)
LEMMA RowAdded ==
  ASSUME MemberInv, NEW r \in Member, members' = Append(members, r)
  PROVE  /\ members' \in Seq(Member)
         /\ DOMAIN members' = DOMAIN members \cup {Len(members) + 1}
         /\ Len(members) + 1 \notin DOMAIN members
         /\ members'[Len(members) + 1] = r
         /\ \A n \in DOMAIN members : members'[n] = members[n]
         /\ \A u \in People : RowsOf(u)' # {} => \E n \in RowsOf(u)' : \A m \in RowsOf(u)' : n <= m
         /\ \A u : RowsOf(u) # {} /\ u \in People =>
              RowsOf(u)' # {} /\ FirstRow(u)' = FirstRow(u)
  <1>0. members \in Seq(Member) /\ Len(members) \in Nat
    BY LenProperties DEF MemberInv, MemberTypes
  <1> PICK z : z = Len(members) + 1
    OBVIOUS
  <1>1. /\ members' \in Seq(Member) /\ DOMAIN members' = DOMAIN members \cup {z}
        /\ z \notin DOMAIN members /\ members'[z] = r
        /\ \A n \in DOMAIN members : members'[n] = members[n] /\ n < z /\ n \in Nat
    BY <1>0, AppendProperties, LenProperties
  <1>2. ASSUME NEW u
        PROVE  RowsOf(u)' = RowsOf(u) \cup (IF r.user = u THEN {z} ELSE {})
    BY <1>1 DEF RowsOf
  <1>3. ASSUME NEW u, NEW n \in RowsOf(u), \A m \in RowsOf(u) : n <= m
        PROVE  /\ n \in RowsOf(u)' /\ \A m \in RowsOf(u)' : n <= m
               /\ FirstRow(u)' = FirstRow(u)
    <2>1. n \in DOMAIN members /\ n \in Nat /\ n < z
      BY <1>1, <1>3 DEF RowsOf
    <2>2. n \in RowsOf(u)' /\ \A m \in RowsOf(u)' : n <= m
      BY <1>0, <1>2, <1>3, <2>1
    <2>3. FirstRow(u) = members[n]
      BY <1>0, <1>3, FirstRowIs
    <2>4. FirstRow(u)' = members'[n]
      <3>1. ASSUME NEW l \in RowsOf(u)', \A m \in RowsOf(u)' : l <= m PROVE l = n
        <4>1. l <= n /\ n <= l /\ l \in Nat
          BY <3>1, <2>2, <1>0, <1>1 DEF RowsOf
        <4> QED BY <4>1, <2>1
      <3>2. (CHOOSE l \in RowsOf(u)' : \A m \in RowsOf(u)' : l <= m) = n
        BY <3>1, <2>2
      <3> QED BY <3>2 DEF FirstRow
    <2> QED BY <2>1, <2>2, <2>3, <2>4, <1>1
  <1>4. ASSUME NEW u \in People, RowsOf(u)' # {}
        PROVE  \E n \in RowsOf(u)' : \A m \in RowsOf(u)' : n <= m
    <2>1. CASE RowsOf(u) = {}
      <3>1. RowsOf(u)' = {z} /\ z <= z
        BY <1>0, <1>2, <1>4, <2>1
      <3> QED BY <3>1
    <2>2. CASE RowsOf(u) # {}
      <3>1. PICK n \in RowsOf(u) : \A m \in RowsOf(u) : n <= m
        BY <2>2 DEF MemberInv, Rows
      <3> QED BY <3>1, <1>3
    <2> QED BY <2>1, <2>2
  <1>5. ASSUME NEW u \in People, RowsOf(u) # {}
        PROVE  RowsOf(u)' # {} /\ FirstRow(u)' = FirstRow(u)
    <2>1. PICK n \in RowsOf(u) : \A m \in RowsOf(u) : n <= m
      BY <1>5 DEF MemberInv, Rows
    <2> QED BY <2>1, <1>3
  <1> QED BY <1>1, <1>4, <1>5

(* A row of call c is added: by an invitation nobody else used, or without. *)
LEMMA RowKeeps ==
  ASSUME MemberInv, NEW c \in Visits, Active(c), NEW r \in Member, members' = Append(members, r),
         NEW x \in Call \cup {Nobody}, calls' = [calls EXCEPT ![c] = x],
         UNCHANGED <<accounts, workspaces, billed, invitations, acted, refused, halfway>>,
         calls[c].step # "provision",
         x # Nobody => CallOK(x)' /\ x.user = calls[c].user /\ ~Redeeming(x),
         \/ r.role = "owner" /\ r.invite = 0 /\ Provisioning(x, r)
         \/ /\ r.role = "member" /\ r.invite \in Invitations /\ r.workspace \in billed
            /\ \A n \in DOMAIN members : members[n].invite # r.invite
            /\ LET i == invitations[r.invite]
               IN i.status = "accepted" /\ i.by = r.user /\ i.email = r.user /\ i.workspace = r.workspace
            /\ Redeeming(calls[c]) /\ calls[c].user = r.user
  PROVE  MemberInv'
  <1> PICK z : z = Len(members) + 1
    OBVIOUS
  <1>1. /\ members' \in Seq(Member)
        /\ DOMAIN members' = DOMAIN members \cup {z} /\ z \notin DOMAIN members
        /\ members'[z] = r
        /\ \A n \in DOMAIN members : members'[n] = members[n]
        /\ \A u \in People : RowsOf(u)' # {} => \E n \in RowsOf(u)' : \A m \in RowsOf(u)' : n <= m
        /\ \A u : RowsOf(u) # {} /\ u \in People =>
             RowsOf(u)' # {} /\ FirstRow(u)' = FirstRow(u)
    BY RowAdded
  <1>2. Invitations' = Invitations /\ 0 \notin Invitations
    BY LenProperties DEF Invitations, MemberInv, MemberTypes
  <1>3. ASSUME NEW d \in Visits \ {c}, NEW y, y = calls[d], y # Nobody PROVE CallOK(y)'
    <2>1. CallOK(y) /\ y \in Call /\ y.user \in People
      BY <1>3 DEF MemberInv, CallsOK, Active, MemberTypes, Call
    <2>2. y.step = "join" => r.invite # y.with
      <3>1. CASE r.role = "member" /\ y.step = "join"
        <4>1. Active(d) /\ calls[c].user # calls[d].user
          BY <1>3, <3>1 DEF MemberInv, Alone, Active, Redeeming
        <4> QED BY <4>1, <3>1, <2>1, <1>3 DEF CallOK, Redeeming
      <3>2. CASE r.role = "owner" /\ y.step = "join"
        BY <3>2, <2>1, <1>2 DEF CallOK, Redeeming
      <3> QED BY <3>1, <3>2
    <2>3. y.step = "join" => \A n \in DOMAIN members' : members'[n].invite # y.with
      BY <2>1, <2>2, <1>1 DEF CallOK
    <2>4. y.step = "billing" => RowsOf(y.user)' # {} /\ y.workspace = FirstRow(y.user)'.workspace
      BY <2>1, <1>1 DEF CallOK
    <2> QED BY <2>1, <2>3, <2>4, <1>2 DEF CallOK
  <1>4. /\ calls' \in [Visits -> Call \cup {Nobody}] /\ CallsOK' /\ Alone'
        /\ \A d \in Visits : calls'[d] = IF d = c THEN x ELSE calls[d]
    BY <1>3, OthersKeep
  <1>5. MemberTypes'
    BY <1>1, <1>4 DEF MemberInv, MemberTypes
  <1>6. Rows'
    <2>1. ASSUME NEW n \in DOMAIN members, members[n].role = "member"
          PROVE  members[n].invite \in Invitations /\ r.invite # members[n].invite
      BY <2>1, <1>2 DEF MemberInv, Rows
    <2>2. ASSUME NEW n \in DOMAIN members'
          PROVE  /\ members'[n].role = "owner" => members'[n].invite = 0
                 /\ members'[n].role = "member" =>
                      LET i == invitations[members'[n].invite]
                      IN /\ members'[n].invite \in Invitations
                         /\ i.status = "accepted" /\ i.by = members'[n].user
                         /\ i.email = members'[n].user /\ i.workspace = members'[n].workspace
                         /\ \A m \in DOMAIN members' \ {n} : members'[m].invite # members'[n].invite
      <3>1. CASE n = z
        BY <3>1, <1>1
      <3>2. CASE n \in DOMAIN members
        BY <3>2, <2>1, <1>1 DEF MemberInv, Rows
      <3> QED BY <3>1, <3>2, <1>1
    <2> QED BY <2>2, <1>1, <1>2 DEF Rows
  <1>7. Billed'
    <2>1. ~ \E row \in Member : Provisioning(calls[c], row)
      BY DEF Provisioning
    <2>2. ASSUME NEW n \in DOMAIN members
          PROVE  \/ <<members[n].user, members[n].workspace>> \in halfway'
                 \/ members[n].workspace \in billed'
                 \/ \E d \in Visits : Provisioning(calls'[d], members[n])
      BY <1>4, <2>1, BilledStays
    <2>3. r.workspace \in billed' \/ \E d \in Visits : Provisioning(calls'[d], r)
      BY <1>4
    <2> QED BY <1>1, <1>2, <2>2, <2>3 DEF MemberInv, Billed
  <1>8. ActedFirst'
    <2>1. \A a \in acted : a[1] \in People
      BY DEF MemberInv, MemberTypes
    <2> QED BY <2>1, <1>1 DEF MemberInv, ActedFirst
  <1> QED BY <1>4, <1>5, <1>6, <1>7, <1>8 DEF MemberInv

LEMMA JoinsKeeps ==
  ASSUME MemberInv, NEW c \in Visits, Joins(c)
  PROVE  MemberInv'
  <1> PICK y : y = calls[c]
    OBVIOUS
  <1> PICK i : i = invitations[y.with]
    OBVIOUS
  <1> PICK r : r = [workspace |-> i.workspace, user |-> y.user, role |-> "member", invite |-> y.with]
    OBVIOUS
  <1>1. y \in Call /\ Active(c) /\ y.step = "join" /\ CallOK(y)
    BY AtIs DEF Joins
  <1>2. /\ members' = Append(members, r) /\ calls' = [calls EXCEPT ![c] = Nobody]
        /\ UNCHANGED <<accounts, workspaces, billed, invitations, acted, refused, halfway>>
    BY DEF Joins, Finishes, told
  <1>3. /\ y.with \in Invitations /\ i \in Invitation /\ y.with \in Nat /\ i.email = y.user
        /\ i.status = "accepted" /\ i.by = y.user /\ i.workspace \in billed
        /\ \A n \in DOMAIN members : members[n].invite # y.with
    <2>1. y.with \in Invitations
      BY <1>1 DEF CallOK, Redeeming
    <2>2. y.with \in 1 .. Len(invitations) /\ Len(invitations) \in Nat
      BY <2>1, LenProperties DEF Invitations, MemberInv, MemberTypes
    <2>3. i \in Invitation
      BY <2>2, ElementOfSeq DEF MemberInv, MemberTypes
    <2> QED BY <1>1, <2>1, <2>2, <2>3 DEF CallOK, Redeeming, MemberInv, Billed
  <1>4. r \in Member
    BY <1>1, <1>3 DEF Member, Call, Invitation
  <1> QED BY <1>1, <1>2, <1>3, <1>4, RowKeeps DEF Redeeming

LEMMA OwnsKeeps ==
  ASSUME MemberInv, NEW c \in Visits, Owns(c)
  PROVE  MemberInv'
  <1> PICK y : y = calls[c]
    OBVIOUS
  <1> PICK x : x = [y EXCEPT !.step = "provision"]
    OBVIOUS
  <1> PICK r : r = [workspace |-> y.workspace, user |-> y.user, role |-> "owner", invite |-> 0]
    OBVIOUS
  <1>1. y \in Call /\ Active(c) /\ y.step = "own" /\ CallOK(y)
    BY AtIs DEF Owns
  <1>2. /\ members' = Append(members, r) /\ calls' = [calls EXCEPT ![c] = x]
        /\ UNCHANGED <<accounts, workspaces, billed, invitations, acted, refused, halfway>>
    BY DEF Owns, Goes, told
  <1>3. /\ x \in Call /\ x.user = y.user /\ x.with = y.with /\ x.kind = y.kind
        /\ x.workspace = y.workspace /\ x.step = "provision" /\ ~Redeeming(x)
    BY <1>1 DEF Call, Redeeming
  <1>4. CallOK(x)'
    BY <1>1, <1>3 DEF CallOK, Redeeming
  <1>5. r \in Member
    BY <1>1 DEF Member, Call
  <1>6. Provisioning(x, r)
    <2>1. x # Nobody
      BY <1>3, MembershipConstants
    <2> QED BY <2>1, <1>3 DEF Provisioning
  <1> QED BY <1>1, <1>2, <1>3, <1>4, <1>5, <1>6, RowKeeps

(* Invitations *)

(* What was accepted stays accepted, and is accepted by the one redeeming.  *)
LEMMA InvitationsKeep ==
  ASSUME MemberInv, NEW c \in Visits, Active(c),
         NEW x \in Call \cup {Nobody}, calls' = [calls EXCEPT ![c] = x],
         UNCHANGED <<accounts, workspaces, members, billed, acted, refused, halfway>>,
         invitations' \in Seq(Invitation),
         \A i \in Invitations :
           /\ i \in Invitations'
           /\ invitations'[i].email = invitations[i].email
           /\ invitations'[i].workspace = invitations[i].workspace
           /\ invitations[i].status = "accepted" =>
                invitations'[i].status = "accepted" /\ invitations'[i].by = invitations[i].by
           /\ invitations[i].status # "accepted" /\ invitations'[i].status = "accepted" =>
                Redeeming(calls[c]) /\ calls[c].user = invitations[i].email,
         \A i \in Invitations' : i \in Invitations \/ invitations'[i].workspace \in billed,
         calls[c].step # "provision",
         x # Nobody => /\ CallOK(x)' /\ x.user = calls[c].user
                       /\ Redeeming(x) => Redeeming(calls[c])
  PROVE  MemberInv'
  <1>1. ASSUME NEW d \in Visits \ {c}, NEW y, y = calls[d], y # Nobody PROVE CallOK(y)'
    <2>1. CallOK(y) /\ Active(d)
      BY <1>1 DEF MemberInv, CallsOK, Active
    <2>2. y.step = "expire" => invitations'[y.with].status # "accepted"
      <3>1. ASSUME y.step = "expire", invitations'[y.with].status = "accepted" PROVE FALSE
        <4>1. y.with \in Invitations /\ invitations[y.with].email = y.user /\ Redeeming(y)
              /\ invitations[y.with].status # "accepted"
          BY <2>1, <3>1 DEF CallOK, Redeeming
        <4>2. Redeeming(calls[c]) /\ calls[c].user = calls[d].user
          BY <4>1, <3>1, <1>1
        <4> QED BY <4>1, <4>2, <2>1, <1>1 DEF MemberInv, Alone
      <3> QED BY <3>1
    <2>3. y.step = "join" =>
           /\ invitations'[y.with].status = "accepted" /\ invitations'[y.with].by = y.user
           /\ \A n \in DOMAIN members' : members'[n].invite # y.with
      BY <2>1 DEF CallOK, Redeeming
    <2>4. y.step = "billing" => RowsOf(y.user)' # {} /\ y.workspace = FirstRow(y.user)'.workspace
      BY <2>1 DEF CallOK, RowsOf, FirstRow
    <2> QED BY <2>1, <2>2, <2>3, <2>4 DEF CallOK
  <1>2. /\ calls' \in [Visits -> Call \cup {Nobody}] /\ CallsOK' /\ Alone'
        /\ \A d \in Visits : calls'[d] = IF d = c THEN x ELSE calls[d]
    BY <1>1, OthersKeep
  <1>3. MemberTypes'
    BY <1>2 DEF MemberInv, MemberTypes
  <1>4. Rows'
    BY DEF MemberInv, Rows, RowsOf
  <1>5. Billed'
    <2>1. ASSUME NEW n \in DOMAIN members
          PROVE  \/ <<members[n].user, members[n].workspace>> \in halfway'
                 \/ members[n].workspace \in billed'
                 \/ \E d \in Visits : Provisioning(calls'[d], members[n])
      <3>1. ~ \E row \in Member : Provisioning(calls[c], row)
        BY DEF Provisioning
      <3> QED BY <1>2, <3>1, BilledStays
    <2> QED BY <2>1 DEF MemberInv, Billed
  <1>6. ActedFirst'
    BY DEF MemberInv, ActedFirst, RowsOf, FirstRow
  <1> QED BY <1>2, <1>3, <1>4, <1>5, <1>6 DEF MemberInv

(* One invitation is given another status. *)
LEMMA OneInvitation ==
  ASSUME MemberInv, NEW i \in Invitations, NEW v \in Invitation,
         invitations' = [invitations EXCEPT ![i] = v]
  PROVE  /\ invitations' \in Seq(Invitation) /\ Invitations' = Invitations
         /\ \A l \in Invitations : invitations'[l] = IF l = i THEN v ELSE invitations[l]
  <1>1. i \in 1 .. Len(invitations) /\ invitations \in Seq(Invitation)
    BY LenProperties DEF Invitations, MemberInv, MemberTypes
  <1> QED BY <1>1, ExceptSeq DEF Invitations

LEMMA InvitationIs ==
  ASSUME MemberInv, NEW i \in Invitations
  PROVE  invitations[i] \in Invitation
  BY ElementOfSeq, LenProperties DEF Invitations, MemberInv, MemberTypes

LEMMA ExpiresKeeps ==
  ASSUME MemberInv, NEW c \in Visits, Expires(c)
  PROVE  MemberInv'
  <1> PICK y : y = calls[c]
    OBVIOUS
  <1> PICK v : v = [invitations[y.with] EXCEPT !.status = "expired"]
    OBVIOUS
  <1>1. y \in Call /\ Active(c) /\ y.step = "expire" /\ CallOK(y)
    BY AtIs DEF Expires
  <1>2. /\ y.with \in Invitations /\ invitations[y.with] \in Invitation
        /\ invitations[y.with].status # "accepted"
    BY <1>1, InvitationIs DEF CallOK, Redeeming
  <1>3. /\ v \in Invitation /\ v.status = "expired" /\ v.email = invitations[y.with].email
        /\ v.workspace = invitations[y.with].workspace
    BY <1>2 DEF Invitation
  <1>4. /\ invitations' = [invitations EXCEPT ![y.with] = v] /\ calls' = [calls EXCEPT ![c] = Nobody]
        /\ UNCHANGED <<accounts, workspaces, members, billed, acted, refused, halfway>>
    BY DEF Expires, Finishes, tenancy, told
  <1>5. /\ invitations' \in Seq(Invitation) /\ Invitations' = Invitations
        /\ \A l \in Invitations : invitations'[l] = IF l = y.with THEN v ELSE invitations[l]
    BY <1>2, <1>3, <1>4, OneInvitation
  <1>6. /\ \A i \in Invitations :
           /\ i \in Invitations'
           /\ invitations'[i].email = invitations[i].email
           /\ invitations'[i].workspace = invitations[i].workspace
           /\ invitations[i].status = "accepted" =>
                invitations'[i].status = "accepted" /\ invitations'[i].by = invitations[i].by
           /\ invitations[i].status # "accepted" /\ invitations'[i].status = "accepted" =>
                Redeeming(calls[c]) /\ calls[c].user = invitations[i].email
        /\ \A i \in Invitations' : i \in Invitations \/ invitations'[i].workspace \in billed
    BY <1>2, <1>3, <1>5
  <1> QED BY <1>1, <1>4, <1>5, <1>6, InvitationsKeep

LEMMA AcceptsKeeps ==
  ASSUME MemberInv, NEW c \in Visits, Accepts(c)
  PROVE  MemberInv'
  <1> PICK y : y = calls[c]
    OBVIOUS
  <1>1. /\ y \in Call /\ Active(c) /\ y.step = "accept" /\ CallOK(y) /\ Redeeming(y)
        /\ y.with \in Invitations /\ invitations[y.with] \in Invitation
        /\ invitations[y.with].email = y.user /\ y.user \in People
    BY AtIs, InvitationIs DEF Accepts, CallOK, Redeeming, Call
  <1>2. UNCHANGED <<accounts, workspaces, members, billed, acted, refused, halfway>>
    BY DEF Accepts, tenancy, told
  <1>3. CASE Pending(y.with)
    <2> PICK v : v = [invitations[y.with] EXCEPT !.status = "accepted", !.by = y.user]
      OBVIOUS
    <2> PICK x : x = [y EXCEPT !.step = "join"]
      OBVIOUS
    <2>1. invitations' = [invitations EXCEPT ![y.with] = v] /\ calls' = [calls EXCEPT ![c] = x]
      BY <1>3 DEF Accepts, Acceptable, Goes
    <2>2. /\ v \in Invitation /\ v.status = "accepted" /\ v.by = y.user
          /\ v.email = invitations[y.with].email /\ v.workspace = invitations[y.with].workspace
      BY <1>1 DEF Invitation
    <2>3. /\ invitations' \in Seq(Invitation) /\ Invitations' = Invitations
          /\ \A l \in Invitations : invitations'[l] = IF l = y.with THEN v ELSE invitations[l]
      BY <1>1, <2>1, <2>2, OneInvitation
    <2>4. x \in Call /\ x.user = y.user /\ x.with = y.with /\ x.kind = y.kind /\ x.step = "join"
      BY <1>1 DEF Call
    <2>5. \A n \in DOMAIN members : members[n].invite # y.with
      <3>1. ASSUME NEW n \in DOMAIN members, members[n].invite = y.with PROVE FALSE
        <4>1. members[n].role \in {"member", "owner"}
          <5>1. members[n] \in Member
            BY ElementOfSeq, LenProperties DEF MemberInv, MemberTypes
          <5> QED BY <5>1 DEF Member
        <4>2. 0 \notin Invitations
          BY LenProperties DEF Invitations, MemberInv, MemberTypes
        <4> QED BY <3>1, <4>1, <4>2, <1>1, <1>3 DEF MemberInv, Rows, Pending
      <3> QED BY <3>1
    <2>6. CallOK(x)'
      <3>1. x.kind = "signup" /\ x.user \in accounts'
        BY <1>1, <1>2, <2>4 DEF CallOK
      <3>2. /\ x.with \in Invitations' /\ invitations'[x.with].email = x.user
            /\ invitations'[x.with].status = "accepted" /\ invitations'[x.with].by = x.user
        <4>1. y.with \in Invitations' /\ invitations'[y.with] = v
          BY <1>1, <2>3
        <4>2. v.status = "accepted" /\ v.by = y.user /\ v.email = y.user
          BY <1>1, <2>2
        <4>3. x.with = y.with /\ x.user = y.user
          BY <2>4
        <4> HIDE DEF Invitations
        <4> QED BY <4>1, <4>2, <4>3
      <3>3. \A n \in DOMAIN members' : members'[n].invite # x.with
        BY <1>2, <2>4, <2>5
      <3> QED BY <2>4, <3>1, <3>2, <3>3 DEF CallOK
    <2>7. /\ \A i \in Invitations :
             /\ i \in Invitations'
             /\ invitations'[i].email = invitations[i].email
             /\ invitations'[i].workspace = invitations[i].workspace
             /\ invitations[i].status = "accepted" =>
                  invitations'[i].status = "accepted" /\ invitations'[i].by = invitations[i].by
             /\ invitations[i].status # "accepted" /\ invitations'[i].status = "accepted" =>
                  Redeeming(calls[c]) /\ calls[c].user = invitations[i].email
          /\ \A i \in Invitations' : i \in Invitations \/ invitations'[i].workspace \in billed
      BY <1>1, <1>3, <2>2, <2>3 DEF Pending
    <2>8. calls[c].step # "provision" /\ x.user = calls[c].user /\ Redeeming(calls[c])
      BY <1>1, <2>4
    <2> QED BY <1>1, <1>2, <2>1, <2>3, <2>4, <2>6, <2>7, <2>8, InvitationsKeep
  <1>4. CASE ~Pending(y.with)
    <2>1. /\ calls' = [calls EXCEPT ![c] = Nobody] /\ UNCHANGED invitations
      BY <1>4 DEF Accepts, Acceptable, Finishes
    <2> QED BY <1>1, <1>2, <2>1, Steps DEF MemberInv, MemberTypes
  <1> QED BY <1>3, <1>4

LEMMA SupersedesKeeps ==
  ASSUME MemberInv, NEW c \in Visits, Supersedes(c)
  PROVE  MemberInv'
  <1> PICK y : y = calls[c]
    OBVIOUS
  <1> PICK x : x = [y EXCEPT !.step = "insert"]
    OBVIOUS
  <1>1. y \in Call /\ Active(c) /\ y.step = "supersede" /\ CallOK(y)
    BY AtIs DEF Supersedes
  <1>2. /\ calls' = [calls EXCEPT ![c] = x]
        /\ invitations' = [i \in Invitations |->
             IF Same(i, c) /\ Pending(i) THEN [invitations[i] EXCEPT !.status = "superseded"]
             ELSE invitations[i]]
        /\ UNCHANGED <<accounts, workspaces, members, billed, acted, refused, halfway>>
    BY DEF Supersedes, Goes, tenancy, told
  <1>3. /\ x \in Call /\ x.user = y.user /\ x.with = y.with /\ x.kind = y.kind
        /\ x.workspace = y.workspace /\ x.step = "insert"
    BY <1>1 DEF Call
  <1>4. CallOK(x)'
    BY <1>1, <1>2, <1>3 DEF CallOK, Redeeming
  <1>5. ASSUME NEW i \in Invitations
        PROVE  /\ invitations'[i] \in Invitation
               /\ invitations'[i].email = invitations[i].email
               /\ invitations'[i].workspace = invitations[i].workspace
               /\ \/ invitations'[i] = invitations[i]
                  \/ invitations[i].status = "pending" /\ invitations'[i].status = "superseded"
    <2> PICK v : v = invitations[i]
      OBVIOUS
    <2>1. v \in Invitation
      BY InvitationIs
    <2>2. invitations'[i] = v \/ (v.status = "pending" /\ invitations'[i] = [v EXCEPT !.status = "superseded"])
      BY <1>2 DEF Pending
    <2> QED BY <2>1, <2>2 DEF Invitation
  <1>6. invitations' \in Seq(Invitation) /\ Invitations' = Invitations
    <2>1. Len(invitations) \in Nat /\ Invitations = 1 .. Len(invitations)
      BY LenProperties DEF Invitations, MemberInv, MemberTypes
    <2>2. invitations' \in [1 .. Len(invitations) -> Invitation]
      BY <1>2, <1>5, <2>1
    <2> QED BY <2>1, <2>2, SeqDef DEF Invitations
  <1>7. /\ \A i \in Invitations :
           /\ i \in Invitations'
           /\ invitations'[i].email = invitations[i].email
           /\ invitations'[i].workspace = invitations[i].workspace
           /\ invitations[i].status = "accepted" =>
                invitations'[i].status = "accepted" /\ invitations'[i].by = invitations[i].by
           /\ invitations[i].status # "accepted" /\ invitations'[i].status = "accepted" =>
                Redeeming(calls[c]) /\ calls[c].user = invitations[i].email
        /\ \A i \in Invitations' : i \in Invitations \/ invitations'[i].workspace \in billed
    BY <1>5, <1>6
  <1>8. calls[c].step # "provision" /\ x.user = calls[c].user /\ ~Redeeming(x)
    BY <1>1, <1>3 DEF Redeeming
  <1> QED BY <1>1, <1>2, <1>3, <1>4, <1>6, <1>7, <1>8, InvitationsKeep

LEMMA InvitesKeeps ==
  ASSUME MemberInv, NEW c \in Visits, Invites(c)
  PROVE  MemberInv'
  <1> PICK y : y = calls[c]
    OBVIOUS
  <1> PICK v : v = [workspace |-> y.workspace, email |-> y.with, status |-> "pending", by |-> Nobody]
    OBVIOUS
  <1>1. /\ y \in Call /\ Active(c) /\ y.step = "insert" /\ CallOK(y) /\ y.with \in People
        /\ y.workspace \in billed /\ y.workspace \in Nat
    BY AtIs DEF Invites, CallOK, Call
  <1>2. /\ calls' = [calls EXCEPT ![c] = Nobody]
        /\ UNCHANGED <<accounts, workspaces, members, billed, acted, refused, halfway>>
        /\ invitations' = invitations \/ invitations' = Append(invitations, v)
    BY DEF Invites, Finishes, tenancy, told
  <1>3. CASE invitations' = invitations
    BY <1>1, <1>2, <1>3, Steps DEF MemberInv, MemberTypes
  <1>4. CASE invitations' = Append(invitations, v)
    <2>1. v \in Invitation /\ v.workspace \in billed
      BY <1>1 DEF Invitation
    <2>2. /\ invitations' \in Seq(Invitation)
          /\ \A i \in Invitations : i \in Invitations' /\ invitations'[i] = invitations[i]
          /\ \A i \in Invitations' : i \in Invitations \/ invitations'[i] = v
      BY <1>4, <2>1, AppendProperties, LenProperties DEF Invitations, MemberInv, MemberTypes
    <2> QED BY <1>1, <1>2, <2>1, <2>2, InvitationsKeep
  <1> QED BY <1>2, <1>3, <1>4

LEMMA MembersKeep ==
  ASSUME MemberInv, [MembershipNext]_memberVars
  PROVE  MemberInv'
  <1>1. ASSUME NEW c \in Visits, Proceeds(c) PROVE MemberInv'
    BY <1>1, CreatesAccountKeeps, RedeemsKeeps, ExpiresKeeps, AcceptsKeeps, JoinsKeeps,
       ReadsContextKeeps, ReadsBillingKeeps, EnsuresKeeps, MakesWorkspaceKeeps, OwnsKeeps,
       ProvisionsForKeeps, SupersedesKeeps, InvitesKeeps DEF Proceeds
  <1>2. ASSUME UNCHANGED <<accounts, workspaces, members, billed, invitations, calls, acted,
                           refused, halfway>>
        PROVE  MemberInv'
    <2>1. MemberTypes' /\ Alone'
      BY <1>2 DEF MemberInv, MemberTypes, Alone, Active
    <2>2. CallsOK'
      BY <1>2 DEF MemberInv, CallsOK, Active, CallOK, RowsOf, FirstRow, Invitations
    <2>3. Rows' /\ ActedFirst'
      BY <1>2 DEF MemberInv, Rows, ActedFirst, RowsOf, FirstRow, Invitations
    <2>4. Billed'
      BY <1>2 DEF MemberInv, Billed, Invitations, Provisioning
    <2> QED BY <2>1, <2>2, <2>3, <2>4 DEF MemberInv
  <1>3. ASSUME NEW i \in Invitations, Lapses(i) PROVE MemberInv'
    BY <1>2, <1>3 DEF Lapses, tenancy, told
  <1>4. ASSUME UNCHANGED memberVars PROVE MemberInv'
    BY <1>2, <1>4 DEF memberVars
  <1> QED BY <1>1, <1>3, <1>4, ArrivesKeeps, DiesKeeps DEF MembershipNext

(* Every visit that acts, acts for the Customer of the person's first row,  *)
(* and every visit that is refused, is refused for a workspace of which a   *)
(* call of the same person had written the owner's row only, and died there *)
(* or was there at that moment; for any number of people, calls and         *)
(* invitations in any order, whatever else of theirs died or overlapped.    *)
THEOREM VisitsActForOne == MembershipSpec => []ActsForOne
<1>1. MembershipInit => MemberInv
  BY MemberBegins
<1>2. MemberInv /\ [MembershipNext]_memberVars => MemberInv'
  BY MembersKeep
<1>3. MemberInv => ActsForOne
  <2> SUFFICES ASSUME MemberInv PROVE ActsForOne
    OBVIOUS
  <2>1. ASSUME NEW a \in acted, NEW b \in acted, a[1] = b[1] PROVE a = b
    <3>1. a = <<a[1], a[2]>> /\ b = <<b[1], b[2]>>
      BY DEF MemberInv, MemberTypes
    <3>2. a[2] = b[2]
      BY <2>1 DEF MemberInv, ActedFirst
    <3> QED BY <2>1, <3>1, <3>2
  <2>2. refused \subseteq halfway
    BY DEF MemberInv, MemberTypes
  <2> QED BY <2>1, <2>2 DEF ActsForOne, OneCustomerEach, EveryVisitServed
<1> QED BY <1>1, <1>2, <1>3, PTL DEF MembershipSpec

LEMMA AppendIsKept ==
  ASSUME NEW S, NEW s \in Seq(S), NEW v, NEW i \in DOMAIN s
  PROVE  Append(s, v)[i] = s[i]
  <1>1. s \in Seq(S \cup {v})
    BY SeqDef
  <1> QED BY <1>1, AppendProperties, LenProperties

(* A step changes the status of an invitation only while it is pending, or  *)
(* marks one that was superseded as expired.                                *)
LEMMA StatusChanges ==
  ASSUME MemberInv, [MembershipNext]_memberVars, NEW i \in Invitations,
         invitations'[i].status # invitations[i].status
  PROVE  \/ Pending(i)
         \/ invitations[i].status = "superseded" /\ invitations'[i].status = "expired"
  <1>0. invitations[i] \in Invitation /\ i \in DOMAIN invitations
    BY InvitationIs DEF Invitations
  <1>1. ASSUME NEW c \in Visits, Expires(c)
        PROVE  \/ Pending(i)
               \/ invitations[i].status = "superseded" /\ invitations'[i].status = "expired"
    <2> PICK y : y = calls[c]
      OBVIOUS
    <2>1. CallOK(y) /\ y.step = "expire"
      BY <1>1, AtIs DEF Expires
    <2>2. invitations[y.with].status # "accepted"
      BY <2>1 DEF CallOK
    <2>3. invitations' = [invitations EXCEPT ![y.with].status = "expired"]
      BY <1>1 DEF Expires
    <2>4. i = y.with /\ invitations'[i].status = "expired"
      BY <2>3, <1>0
    <2> QED BY <2>2, <2>4, <1>0 DEF Invitation, Pending
  <1>2. ASSUME NEW c \in Visits, Accepts(c) PROVE Pending(i)
    <2> PICK y : y = calls[c]
      OBVIOUS
    <2>1. \/ invitations' = invitations
          \/ /\ Pending(y.with)
             /\ invitations' = [invitations EXCEPT ![y.with].status = "accepted", ![y.with].by = y.user]
      BY <1>2 DEF Accepts, Acceptable
    <2>2. i = y.with
      BY <2>1, <1>0
    <2> QED BY <2>1, <2>2
  <1>3. ASSUME NEW c \in Visits, Supersedes(c) PROVE Pending(i)
    BY <1>3, <1>0 DEF Supersedes
  <1>4. ASSUME NEW c \in Visits, Invites(c) PROVE FALSE
    <2>1. \/ invitations' = invitations
          \/ \E v : invitations' = Append(invitations, v)
      BY <1>4 DEF Invites
    <2>2. invitations \in Seq(Invitation)
      BY DEF MemberInv, MemberTypes
    <2>3. invitations'[i] = invitations[i]
      BY <2>1, <2>2, <1>0, AppendIsKept
    <2> QED BY <2>3
  <1>5. ASSUME UNCHANGED invitations PROVE FALSE
    BY <1>5
  <1>6. ASSUME NEW c \in Visits, Arrives(c) \/ Dies(c) PROVE FALSE
    BY <1>5, <1>6 DEF Arrives, SignsUp, Comes, ComesToInvite, Dies
  <1>7. ASSUME NEW c \in Visits, Proceeds(c)
        PROVE  \/ Pending(i)
               \/ invitations[i].status = "superseded" /\ invitations'[i].status = "expired"
    <2>1. ASSUME CreatesAccount(c) \/ Redeems(c) \/ Joins(c) \/ ReadsContext(c) \/ ReadsBilling(c)
                 \/ Ensures(c) \/ MakesWorkspace(c) \/ Owns(c) \/ ProvisionsFor(c)
          PROVE  FALSE
      BY <1>5, <2>1 DEF CreatesAccount, Redeems, Joins, ReadsContext, ReadsBilling, Ensures,
                        MakesWorkspace, Owns, ProvisionsFor
    <2> QED BY <1>1, <1>2, <1>3, <1>4, <1>7, <2>1 DEF Proceeds
  <1>8. ASSUME NEW l \in Invitations, Lapses(l) PROVE FALSE
    BY <1>5, <1>8 DEF Lapses
  <1>9. ASSUME UNCHANGED memberVars PROVE FALSE
    BY <1>5, <1>9 DEF memberVars
  <1> QED BY <1>6, <1>7, <1>8, <1>9 DEF MembershipNext

(* What was accepted stays with who accepted it, and each member is in a    *)
(* workspace by an invitation to itself that nobody else used, however many *)
(* signups, invitations and deaths go on between reading it and using it.   *)
THEOREM MembersAreAdmittedOnce == MembershipSpec => AdmittedOnce
<1>1. MembershipInit => MemberInv
  BY MemberBegins
<1>2. MemberInv /\ [MembershipNext]_memberVars => MemberInv'
  BY MembersKeep
<1>3. MemberInv /\ MemberInv' /\ [MembershipNext]_memberVars => [AdmittedByInvitation]_memberVars
  <2> SUFFICES ASSUME MemberInv, MemberInv', [MembershipNext]_memberVars PROVE AdmittedByInvitation
    OBVIOUS
  <2>1. Rows'
    BY DEF MemberInv
  <2>2. ASSUME NEW n \in DOMAIN members', members'[n].role = "member"
        PROVE  LET i == invitations'[members'[n].invite]
               IN /\ i.status = "accepted" /\ i.by = members'[n].user
                  /\ i.email = members'[n].user /\ i.workspace = members'[n].workspace
                  /\ \A m \in DOMAIN members' \ {n} : members'[m].invite # members'[n].invite
    BY <2>1, <2>2 DEF Rows
  <2> QED BY <2>2, StatusChanges DEF AdmittedByInvitation
<1> QED BY <1>1, <1>2, <1>3, PTL DEF MembershipSpec, AdmittedOnce

=============================================================================
