---------------------------- MODULE Credentials ----------------------------
(* API keys and access tokens, as the isolates of the Worker judge them.    *)
(* Keys live in KV under their id (key:<id>) and, for a server key, under   *)
(* the hash of the secret (keyhash:<hash>); the portal mints and revokes    *)
(* them and mirrors them in D1 (api-keys.ts, projection-handlers.ts,        *)
(* kv-cache.ts, billing-mutations.server.ts).  An access token stands while *)
(* its session row does (oauth-token.ts).  Each isolate caches what it read.*)
(*                                                                          *)
(* One tick is the unit of all lifetimes; an awaited read lasts at most     *)
(* ReadTime ticks.  A KV call may fail, and the store's callers are not     *)
(* told.  KV is eventually consistent: what is put or deleted reaches each  *)
(* isolate's place some time later, in any order.  Not here: origins,       *)
(* signatures, the kind of key a route wants, and the Customer of a key,    *)
(* which Projection reads.                                                  *)
EXTENDS Integers, FiniteSets

CONSTANTS
  Isolates,
  ServerKeys, BrowserKeys,
  Sessions,
  Populations,   \* the sets of credentials in use together
  KeyTTL,        \* POSITIVE_TTL_MS
  VerdictTTL,    \* SESSION_VERDICT_TTL_MS
  Grace,         \* SESSION_VERDICT_GRACE_MS
  ReadTime,      \* ticks an awaited read may last
  MaxReads,      \* requests awaiting KV at once
  MaxChecks,     \* requests awaiting the session row at once
  MaxFaults,     \* KV calls, database queries and portal actions that fail
  None           \* nothing cached, no task

Keys == ServerKeys \cup BrowserKeys

(* What the portal does about a key; whether it knows the record of the key *)
(* decides what a revocation deletes.                                       *)
Task == [op : {"mint", "revoke"}, key : Keys, knows : BOOLEAN, step : {"hash", "id", "mirror"}]

ASSUME CredentialConstants ==
  /\ ServerKeys \cap BrowserKeys = {} /\ Keys \cap Sessions = {}
  /\ Populations \subseteq SUBSET (Keys \cup Sessions)
  /\ KeyTTL \in Nat \ {0} /\ VerdictTTL \in Nat \ {0} /\ Grace \in Nat /\ ReadTime \in Nat
  /\ None \notin Task

VARIABLES
  using,     \* the credentials of this behaviour
  kv,        \* the entries in API_KEYS, as last put or deleted
  seen,      \* the entries that a read at each isolate's place would find
  mirror,    \* the row of each key in the portal: "none", "active", "disabled"
  cache,     \* keyCache of each isolate
  tasks,     \* the portal action each isolate is in, or None
  reads,     \* requests awaiting KV
  alive,     \* the sessions with a row that has not expired
  verdicts,  \* sessionVerdicts of each isolate
  checks,    \* requests awaiting the session row
  faults,
  absent,    \* auxiliary: how long what a key's holder presents has been gone
             \* for an isolate's place
  ended,     \* auxiliary: how long a session has been over
  blurred,   \* auxiliary: the keys of which some call failed
  missed     \* auxiliary: the keys whose record a revocation missed

keyVars == <<kv, seen, mirror, cache, tasks, reads, absent, blurred, missed>>
sessionVars == <<alive, verdicts, checks, ended>>
vars == <<using, keyVars, sessionVars, faults>>

IdOf(k) == <<"key", k>>
HashOf(k) == <<"keyhash", k>>
Presented(k) == IF k \in ServerKeys THEN HashOf(k) ELSE IdOf(k)
EntriesOf(k) == {IdOf(k), Presented(k)}
Entries == UNION {EntriesOf(k) : k \in Keys}

Lesser(m, n) == IF m < n THEN m ELSE n

(* A call that works, or one of the MaxFaults that do not. *)
Works == UNCHANGED <<faults, blurred>>
Fails(k) == faults < MaxFaults /\ faults' = faults + 1 /\ blurred' = blurred \cup {k}

-----------------------------------------------------------------------------
(* The key store *)

Fresh(found) == [found |-> found, left |-> KeyTTL]

(* cacheSet, of several entries at once. *)
Caches(i, entries, found) ==
  cache' = [cache EXCEPT ![i] = [e \in Entries |-> IF e \in entries THEN Fresh(found) ELSE @[e]]]

(* writeJsonEntry and deleteEntry: a failure is logged, and nobody hears.   *)
Puts(e, k) == (kv' = kv \cup {e} /\ Works) \/ (kv' = kv /\ Fails(k))
Deletes(e, k) == (kv' = kv \ {e} /\ Works) \/ (kv' = kv /\ Fails(k))

(* What was put or deleted becomes visible at an isolate's place. *)
Propagates(i, e) ==
  /\ (e \in seen[i]) # (e \in kv)
  /\ seen' = [seen EXCEPT ![i] = IF e \in kv THEN @ \cup {e} ELSE @ \ {e}]
  /\ UNCHANGED <<kv, mirror, cache, tasks, reads, absent, blurred, missed, faults>>

(* readJsonEntry: a failed read is a miss. *)
Reads(i, e, k, found) == (found = (e \in seen[i]) /\ Works) \/ (~found /\ Fails(k))

Enters(i, op, k, knows, step) ==
  tasks' = [tasks EXCEPT ![i] = [op |-> op, key |-> k, knows |-> knows, step |-> step]]

AtStep(i, op, step) == tasks[i] # None /\ tasks[i].op = op /\ tasks[i].step = step
GoesTo(i, step) == tasks' = [tasks EXCEPT ![i].step = step]
Leaves(i) == tasks' = [tasks EXCEPT ![i] = None]
Settled(k) == \A i \in Isolates : tasks[i] # None => tasks[i].key # k

(* mintKeyProjectionCore: a browser key is stored by its id alone. *)
FirstPut(k) == IF k \in ServerKeys THEN "hash" ELSE "id"

(* mirrorKeyMinted: the key is minted first and mirrored when it is stored. *)
Mints(i, k) ==
  /\ tasks[i] = None /\ mirror[k] = "none"
  /\ Settled(k)
  /\ EntriesOf(k) \cap kv = {}
  /\ Enters(i, "mint", k, TRUE, FirstPut(k))
  /\ UNCHANGED <<kv, seen, mirror, cache, reads, absent, blurred, missed, faults>>

(* putServerKey: by its hash, then by its id, then in the isolate's cache.  *)
MintPutsHash(i) ==
  /\ AtStep(i, "mint", "hash")
  /\ Puts(HashOf(tasks[i].key), tasks[i].key)
  /\ GoesTo(i, "id")
  /\ UNCHANGED <<seen, mirror, cache, reads, absent, missed>>

MintPutsId(i) ==
  /\ AtStep(i, "mint", "id")
  /\ LET k == tasks[i].key
     IN Puts(IdOf(k), k) /\ Caches(i, EntriesOf(k), TRUE)
  /\ GoesTo(i, "mirror")
  /\ UNCHANGED <<seen, mirror, reads, absent, missed>>

MirrorsMint(i) ==
  /\ AtStep(i, "mint", "mirror")
  /\ mirror' = [mirror EXCEPT ![tasks[i].key] = "active"]
  /\ Leaves(i)
  /\ UNCHANGED <<kv, seen, cache, reads, absent, blurred, missed, faults>>

(* loadApiKey, as deleteApiKey calls it to learn the hash.  A record that   *)
(* the place does not show yet, or that is remembered as missing, is missed.*)
RecordFor(i, k, found) ==
  /\ LET hit == cache[i][IdOf(k)]
     IN IF hit # None THEN found = hit.found /\ Works /\ UNCHANGED cache
        ELSE Reads(i, IdOf(k), k, found) /\ Caches(i, {IdOf(k)}, found)
  /\ missed' = missed \cup {l \in {k} : ~found /\ IdOf(l) \in kv}

(* The revoke action of the keys page: any mirrored key of the workspace.   *)
Revokes(i, k) ==
  /\ tasks[i] = None /\ mirror[k] # "none"
  /\ \E found \in BOOLEAN : RecordFor(i, k, found) /\ Enters(i, "revoke", k, found, "id")
  /\ UNCHANGED <<kv, seen, mirror, reads, absent>>

RevokeDeletesId(i) ==
  /\ AtStep(i, "revoke", "id")
  /\ Deletes(IdOf(tasks[i].key), tasks[i].key)
  /\ GoesTo(i, "hash")
  /\ UNCHANGED <<seen, mirror, cache, reads, absent, missed>>

(* revokeKeyProjectionCore: in the end the isolate forgets all keys. *)
ForgetsKeys(i) == cache' = [cache EXCEPT ![i] = [e \in Entries |-> None]]

(* The hash is deleted when the record named one. *)
RevokeDeletesHash(i) ==
  /\ AtStep(i, "revoke", "hash")
  /\ LET k == tasks[i].key
     IN IF k \in ServerKeys /\ tasks[i].knows THEN Deletes(HashOf(k), k)
        ELSE UNCHANGED kv /\ Works
  /\ ForgetsKeys(i)
  /\ GoesTo(i, "mirror")
  /\ UNCHANGED <<seen, mirror, reads, absent, missed>>

MirrorsRevoke(i) ==
  /\ AtStep(i, "revoke", "mirror")
  /\ mirror' = [mirror EXCEPT ![tasks[i].key] = "disabled"]
  /\ Leaves(i)
  /\ UNCHANGED <<kv, seen, cache, reads, absent, blurred, missed, faults>>

(* The portal's database fails, or the isolate is gone. *)
TaskDies(i) ==
  /\ tasks[i] # None
  /\ Leaves(i) /\ Fails(tasks[i].key)
  /\ UNCHANGED <<kv, seen, mirror, cache, reads, absent, missed>>

(* loadServerKeyBySecret or loadApiKey, for a request that presents a key:  *)
(* what is cached decides, and what is not is awaited.                      *)
Presents(i, k) ==
  /\ mirror[k] # "none" /\ cache[i][Presented(k)] = None
  /\ Cardinality(reads) < MaxReads
  /\ \E found \in BOOLEAN :
       /\ Reads(i, Presented(k), k, found)
       /\ reads' = reads \cup {[at |-> i, key |-> k, found |-> found, waited |-> 0]}
  /\ UNCHANGED <<kv, seen, mirror, cache, tasks, absent, missed>>

ReadArrives(r) ==
  /\ reads' = reads \ {r}
  /\ Caches(r.at, IF r.found THEN EntriesOf(r.key) ELSE {Presented(r.key)}, r.found)
  /\ UNCHANGED <<kv, seen, mirror, tasks, absent, blurred, missed, faults>>

KeyStep ==
  \/ \E i \in Isolates :
       \/ \E k \in Keys \cap using : Mints(i, k) \/ Revokes(i, k) \/ Presents(i, k)
       \/ MintPutsHash(i) \/ MintPutsId(i) \/ MirrorsMint(i)
       \/ RevokeDeletesId(i) \/ RevokeDeletesHash(i) \/ MirrorsRevoke(i)
       \/ TaskDies(i)
       \/ \E e \in Entries : Propagates(i, e)
  \/ \E r \in reads : ReadArrives(r)

-----------------------------------------------------------------------------
(* Sessions *)

SessionEnds(s) ==
  /\ s \in alive
  /\ alive' = alive \ {s}
  /\ UNCHANGED <<verdicts, checks, ended, faults>>

IsFresh(verdict) == verdict # None /\ verdict.age < VerdictTTL

(* sessionIsLive without a fresh verdict: the row is read, and the verdict  *)
(* that was cached before is kept for the case that the query fails.        *)
Checks(i, s) ==
  /\ ~IsFresh(verdicts[i][s])
  /\ Cardinality(checks) < MaxChecks
  /\ \E answer \in {"row", "error"} :
       /\ faults' = faults + (IF answer = "error" THEN 1 ELSE 0) /\ faults' <= MaxFaults
       /\ checks' = checks \cup
            {[at |-> i, session |-> s, cached |-> verdicts[i][s], waited |-> 0,
              answer |-> IF answer = "error" THEN "error"
                         ELSE IF s \in alive THEN "live" ELSE "over"]}
  /\ UNCHANGED <<alive, verdicts, ended>>

(* MUTANT of Stands: a live verdict stands for as long as the outage.       *)
StandsOn(check) == check.cached # None /\ check.cached.live

(* After an error, a live verdict within the grace. *)
Stands(check) ==
  check.cached # None /\ check.cached.live /\ check.cached.age < VerdictTTL + Grace

Passes(check) == check.answer = "live" \/ (check.answer = "error" /\ Stands(check))

(* The verdict dates from when the check began. *)
CheckArrives(check) ==
  /\ checks' = checks \ {check}
  /\ verdicts' = IF check.answer = "error" THEN verdicts
                 ELSE [verdicts EXCEPT ![check.at][check.session] =
                         [live |-> check.answer = "live", age |-> check.waited]]
  /\ UNCHANGED <<alive, ended, faults>>

SessionStep ==
  \/ \E s \in Sessions \cap using :
       SessionEnds(s) \/ \E i \in Isolates : Checks(i, s)
  \/ \E check \in checks : CheckArrives(check)

-----------------------------------------------------------------------------

KeyHorizon == KeyTTL + ReadTime
VerdictHorizon == VerdictTTL + Grace + ReadTime

Aged(hit) ==
  IF hit = None \/ hit.left = 1 THEN None ELSE [hit EXCEPT !.left = @ - 1]

Waits(awaited) == {[r EXCEPT !.waited = @ + 1] : r \in awaited}

(* Time passes, for no awaited read longer than ReadTime.  Ages stop where  *)
(* nothing depends on them any more.                                        *)
Tick ==
  /\ \A r \in reads \cup checks : r.waited < ReadTime
  /\ cache' = [i \in Isolates |-> [e \in Entries |-> Aged(cache[i][e])]]
  /\ reads' = Waits(reads) /\ checks' = Waits(checks)
  /\ verdicts' = [i \in Isolates |-> [s \in Sessions |->
       IF verdicts[i][s] = None THEN None
       ELSE [verdicts[i][s] EXCEPT !.age = Lesser(@ + 1, VerdictHorizon)]]]
  /\ absent' = [i \in Isolates |-> [k \in Keys |->
       IF Presented(k) \in kv \cup seen[i] \/ mirror[k] = "none" THEN 0
       ELSE Lesser(absent[i][k] + 1, KeyHorizon)]]
  /\ ended' = [s \in Sessions |->
       IF s \in alive THEN 0 ELSE Lesser(ended[s] + 1, VerdictHorizon)]
  /\ UNCHANGED <<using, kv, seen, mirror, tasks, alive, faults, blurred, missed>>

Init ==
  /\ using \in Populations
  /\ kv = {} /\ seen = [i \in Isolates |-> {}] /\ mirror = [k \in Keys |-> "none"]
  /\ cache = [i \in Isolates |-> [e \in Entries |-> None]]
  /\ tasks = [i \in Isolates |-> None] /\ reads = {}
  /\ alive = Sessions \cap using
  /\ verdicts = [i \in Isolates |-> [s \in Sessions |-> None]] /\ checks = {}
  /\ faults = 0 /\ blurred = {} /\ missed = {}
  /\ absent = [i \in Isolates |-> [k \in Keys |-> 0]] /\ ended = [s \in Sessions |-> 0]

Next ==
  \/ (KeyStep /\ UNCHANGED <<using, sessionVars>>)
  \/ (SessionStep /\ UNCHANGED <<using, keyVars>>)
  \/ Tick

Spec == Init /\ [][Next]_vars

-----------------------------------------------------------------------------
(* Properties *)

(* A key is accepted on no isolate later than KeyTTL, and the time of one   *)
(* read, after the deletion of what its holder presents reached the         *)
(* isolate's place (api-keys.ts), whatever was being read meanwhile: a read *)
(* that began before may be cached after, also where the revocation itself  *)
(* cleared the cache.  How long a deletion is on its way is KV's.           *)
StaleAtMostTTL ==
  \A i \in Isolates, k \in Keys :
    cache[i][Presented(k)] # None /\ cache[i][Presented(k)].found => absent[i][k] < KeyHorizon

(* "Key revoked." (app.keys.tsx): nothing of a revoked key is left in the   *)
(* store once all its revocations are over, wherever it was minted, read    *)
(* and revoked; except of a key of which some call failed, or whose record  *)
(* a revocation missed that was there, which leaves the hash.               *)
RevokedIsGone ==
  \A k \in Keys \ (blurred \cup missed) :
    mirror[k] = "disabled" /\ Settled(k) => EntriesOf(k) \cap kv = {}

(* A revocation comes into force wherever it arrived, and for good. *)
RevocationHolds == StaleAtMostTTL /\ RevokedIsGone

(* "revocation latency is bounded (TTL + grace)" (adr/0011): when a request *)
(* with a token is let through, its session had been over for less than     *)
(* that when the request began; outages and late answers included.          *)
SessionEndHonoured ==
  /\ \A i \in Isolates, s \in Sessions :
       IsFresh(verdicts[i][s]) /\ verdicts[i][s].live => ended[s] < VerdictTTL
  /\ \A check \in checks : Passes(check) =>
       ended[check.session] - check.waited < VerdictTTL + Grace

(* Access that was taken away ends, of a key and of a session. *)
AccessEnds == RevocationHolds /\ SessionEndHonoured
=============================================================================
