----------------------------- MODULE NarImport -----------------------------
(* The refresh of the address tables from the National Address Register,    *)
(* one city at a time: scripts/import-nar.ts with the statements of         *)
(* src/nar-import.ts.  A run deletes the city's rows in bounded chunks,     *)
(* inserts the new vintage in batches under ids above all existing ones,    *)
(* rebuilds what is derived from the rows and records that the city is done.*)
(* Each request to D1 is repeated when it fails, also when only its answer  *)
(* was lost; the process may die between any two of them, or while it       *)
(* unpacks the release, and the next one then works from what it finds.     *)
(*                                                                          *)
(* External: D1 itself.  A request of several inserts that fails may have   *)
(* applied any prefix of them (nothing in the code opens a transaction).    *)
(*                                                                          *)
(* Not here: --dry-run and --max-rows (a sample that replaces nothing), the *)
(* download and the CSV passes beyond what they yield, and two runs at once,*)
(* which the lock file is there to refuse.  The cities are of one province, *)
(* whose files are unpacked to one place per release.                       *)
EXTENDS Naturals, FiniteSets, Sequences, SequencesExt

CONSTANTS
  Addresses, Keys, Postals,
  NoPostal,        \* an address without a postal code
  Cities,
  Queue,           \* data/nar-cities.txt: the cities in their order of refresh
  PlainlyWritten,  \* the cities whose line there, in capitals, is their token
  Scope,           \* the city_key values a city's refresh sweeps, aliases included
  Oda,             \* the rows of the first, province-wide import (vintage 0)
  Release,         \* Release[v][c]: the register's entries for city c, in file order
  LastVintage,
  ChunkRows,       \* NAR_DELETE_CHUNK_ROWS
  BatchSize,
  MaxAttempts,     \* attempts of one request
  MaxFailures,     \* bound: failed requests and dead processes
  MaxManual        \* bound: refreshes by --city

Vintages == 1 .. LastVintage

(* What a run reads: the release, or its files with the last one cut short, *)
(* of the address files or of those that hold the coordinates.              *)
Readings == {"whole", "short", "unlocated"}

Entry == [addr : Addresses, key : Keys, postal : Postals \cup {NoPostal}, located : BOOLEAN]

(* discoverCities folds every spelling to its canonical city, so that no    *)
(* two entries of the queue sweep the same key.                             *)
ASSUME ScopesDisjoint ==
  /\ Scope \in [Cities -> SUBSET Keys]
  /\ \A c, d \in Cities : c # d => Scope[c] \cap Scope[d] = {}

ASSUME ReleasesMatchScope ==
  /\ Release \in [Vintages -> [Cities -> Seq(Entry)]]
  /\ \A v \in Vintages, c \in Cities : \A e \in ToSet(Release[v][c]) : e.key \in Scope[c]

Listed(c) == UNION {ToSet(Release[v][c]) : v \in Vintages}

(* An entry is an address of its own and of one city: the register gives a  *)
(* location once, and so does the data set.                                 *)
ASSUME ListedOnce ==
  /\ \A v \in Vintages, c \in Cities : \A i, j \in DOMAIN Release[v][c] :
       Release[v][c][i].addr = Release[v][c][j].addr => i = j
  /\ \A c, d \in Cities : \A e \in Listed(c), f \in Listed(d) : e.addr = f.addr => c = d
  /\ \A r, s \in Oda : r.id = s.id \/ r.addr = s.addr => r = s
  /\ \A r \in Oda, c \in Cities : \A e \in Listed(c) : r.addr = e.addr => r.key \in Scope[c]

(* What was there before the first refresh. *)
ASSUME OdaIsTable ==
  /\ IsFiniteSet(Oda)
  /\ \A r \in Oda : r.id \in Nat \ {0} /\ r.addr \in Addresses /\ r.key \in Keys /\ r.vintage = 0

ASSUME Bounds ==
  /\ LastVintage \in Nat \ {0}
  /\ ChunkRows \in Nat \ {0} /\ BatchSize \in Nat \ {0} /\ MaxAttempts > 0
  /\ Queue \in Seq(Cities) /\ Queue # <<>>

VARIABLES
  rows,        \* oda_addresses
  centroids,   \* oda_city_centroids: the address_count of each key, 0 for no row
  ranges,      \* oda_street_ranges, likewise
  postals,     \* oda_postal_centroids, likewise per postal code
  suggest,     \* the autocomplete slice of each key, as the count it was built from
  ledger,      \* nar_city_imports: the vintages each city is finished for
  keyVintage,  \* nar_city_keys: the vintage a lookup states for a key, 0 for none
  staged,      \* the unpacked files of each release, "none" when there are none
  release,     \* the vintage --version stands at
  run,         \* the process, and how far refreshCity has come
  open,        \* auxiliary: cities something has begun to change since a refresh reached its end
  torn,        \* auxiliary: cities refreshed from files that were cut short
  failures, manual

tables == <<rows, centroids, ranges, postals, suggest, ledger, keyVintage>>
bounds == <<failures, manual>>
vars == <<tables, staged, release, run, open, torn, bounds>>

-----------------------------------------------------------------------------
(* What a run works on *)

Lesser(m, n) == IF m < n THEN m ELSE n

InScope(c) == {r \in rows : r.key \in Scope[c]}

(* The entries of a city a run reads. *)
Entries(v, c, reading) ==
  LET all == Release[v][c]
  IN CASE reading = "short" -> Front(all)
       [] reading = "unlocated" -> [all EXCEPT ![Len(all)].located = FALSE]
       [] OTHER -> all

(* normalizeNarRow leaves out a row no coordinates were found for: what it  *)
(* keeps is in the order of the file.                                       *)
Located ==
  [v \in Vintages |-> [c \in Cities |-> [reading \in Readings |->
     LET all == Entries(v, c, reading)
         kept == {i \in DOMAIN all : all[i].located}
         nth(n) == CHOOSE i \in kept : Cardinality({j \in kept : j < i}) = n - 1
     IN [n \in 1 .. Cardinality(kept) |-> all[nth(n)]]]]]

W == Located[run.vintage][run.city][run.reading]

RowAt(i) == [id |-> run.first + i - 1, addr |-> W[i].addr, key |-> W[i].key,
             postal |-> W[i].postal, vintage |-> run.vintage]

CountOf(k) == Cardinality({i \in DOMAIN W : W[i].key = k})
Touched == {W[i].postal : i \in DOMAIN W} \ {NoPostal}

NextId == IF rows = {} THEN 1 ELSE 1 + CHOOSE n \in {r.id : r \in rows} :
                                          \A r \in rows : r.id <= n

(* city, vintage and reading are kept after a run, and mean nothing then. *)
Idle == [run EXCEPT !.phase = "idle", !.first = 1, !.chunks = 0, !.sent = 0, !.attempts = 0]

(* MUTANT of ChunksFor: the quotient rounded down, without the buffer. *)
ChunksRoundedDown(n) == IF n < ChunkRows THEN 1 ELSE n \div ChunkRows

(* ceil(existing / NAR_DELETE_CHUNK_ROWS) + 2 *)
ChunksFor(n) == (n + ChunkRows - 1) \div ChunkRows + 2

-----------------------------------------------------------------------------
(* Starting a run: everything up to the first write *)

(* MUTANT of Unfinished: the ledger is read without its vintage. *)
UnfinishedEver == {i \in DOMAIN Queue : ledger[Queue[i]] = {}}

(* pickNextNarCity: the entries not finished for this vintage.  It compares *)
(* the line of the queue in capitals with the token of the ledger.          *)
Unfinished == {i \in DOMAIN Queue : \/ release \notin ledger[Queue[i]]
                                    \/ Queue[i] \notin PlainlyWritten}

(* extractEntries: what is there is used as it is. *)
Unpacked == IF staged[release] = "none" THEN "whole" ELSE staged[release]

Removed(v) == [staged EXCEPT ![v] = "none"]

(* The validation before any write: rows matched, located or not, against   *)
(* the rows there are.                                                      *)
Validated(c, force) ==
  LET matched == Len(Entries(release, c, Unpacked)) existing == Cardinality(InScope(c))
  IN /\ matched > 0
     /\ existing > 0 /\ ~force => 2 * matched >= existing

RefreshCity(c, force) ==
  /\ run.phase = "idle"
  /\ \/ /\ Validated(c, force)
        /\ run' = [phase |-> "delete", city |-> c, vintage |-> release, reading |-> Unpacked,
                   first |-> NextId, chunks |-> ChunksFor(Cardinality(InScope(c))),
                   sent |-> 0, attempts |-> 0]
        /\ staged' = [staged EXCEPT ![release] = Unpacked]
        /\ open' = open \cup {c}
     \/ /\ ~Validated(c, force)
        /\ staged' = Removed(release)
        /\ UNCHANGED <<run, open>>
  /\ UNCHANGED <<tables, release, torn, failures>>

(* --next, as the daily timer runs it. *)
DailyRun == \E i \in Unfinished :
              /\ \A j \in Unfinished : i <= j
              /\ RefreshCity(Queue[i], FALSE)
              /\ UNCHANGED manual

(* --city, with or without --force, whether the city is due or not. *)
ManualRun(c, force) == /\ manual < MaxManual
                       /\ manual' = manual + 1
                       /\ RefreshCity(c, force)

(* The process dies while unzip writes the last of the files it was asked   *)
(* for (were others missing too, the next run would unpack them all again). *)
DiesUnpacking ==
  /\ run.phase = "idle" /\ Unfinished # {} /\ staged[release] = "none"
  /\ failures < MaxFailures
  /\ failures' = failures + 1
  /\ \E cut \in Readings \ {"whole"} : staged' = [staged EXCEPT ![release] = cut]
  /\ UNCHANGED <<tables, release, run, open, torn, manual>>

-----------------------------------------------------------------------------
(* One request to D1 *)

(* MUTANT of AfterFailure: a batch that keeps failing is skipped. *)
AfterFailureSkipped == IF run.attempts + 1 = MaxAttempts /\ run.phase = "insert"
                       THEN [run EXCEPT !.phase = "aggregates", !.attempts = 0]
                       ELSE IF run.attempts + 1 = MaxAttempts THEN Idle
                       ELSE [run EXCEPT !.attempts = @ + 1]

AfterFailure == IF run.attempts + 1 = MaxAttempts
                THEN Idle
                ELSE [run EXCEPT !.attempts = @ + 1]

(* A run that gives up removes the files it unpacked. *)
Goes(after) == /\ run' = after
               /\ staged' = IF after.phase = "idle" THEN Removed(run.vintage) ELSE staged
               /\ UNCHANGED <<release, open, torn, manual>>

Fails(after) == failures < MaxFailures /\ failures' = failures + 1 /\ Goes(after)

Succeeds(phase) == Goes([run EXCEPT !.phase = phase, !.attempts = 0]) /\ UNCHANGED failures

(* execute: the request is acknowledged, or fails with or without effect. *)
Request(effect, phase) ==
  \/ effect /\ Succeeds(phase)
  \/ (effect \/ UNCHANGED tables) /\ Fails(AfterFailure)

-----------------------------------------------------------------------------
(* The steps of refreshCity *)

(* The oldest ids of the scope, at most a chunk of them, none of this run's. *)
Doomed == LET old == {r \in InScope(run.city) : r.id < run.first}
          IN {r \in old : Cardinality({q \in old : q.id < r.id}) < ChunkRows}

DeleteChunk ==
  /\ run.phase = "delete"
  /\ LET effect == /\ rows' = rows \ Doomed
                   /\ UNCHANGED <<centroids, ranges, postals, suggest, ledger, keyVintage>>
     IN \/ /\ effect
           /\ Goes([run EXCEPT !.chunks = @ - 1, !.attempts = 0,
                               !.phase = IF run.chunks = 1 THEN "centroids" ELSE "delete"])
           /\ UNCHANGED failures
        \/ (effect \/ UNCHANGED tables) /\ Fails(AfterFailure)

Cleared(table) == [k \in Keys |-> IF k \in Scope[run.city] THEN 0 ELSE table[k]]

DeleteCentroids ==
  /\ run.phase = "centroids"
  /\ Request(/\ centroids' = Cleared(centroids)
             /\ UNCHANGED <<rows, ranges, postals, suggest, ledger, keyVintage>>, "ranges")

(* The chunks of a city's street ranges are taken as one. *)
DeleteRanges ==
  /\ run.phase = "ranges"
  /\ Request(/\ ranges' = Cleared(ranges)
             /\ UNCHANGED <<rows, centroids, postals, suggest, ledger, keyVintage>>, "insert")

BatchEnd == Lesser(run.sent + BatchSize, Len(W))
RowsTo(n) == {RowAt(i) : i \in run.sent + 1 .. n}

(* An id of the batch is taken: what an attempt that failed had applied. *)
IdTaken == \E r \in rows, s \in RowsTo(BatchEnd) : r.id = s.id

InsertBatch ==
  /\ run.phase = "insert" /\ run.sent < Len(W) /\ ~IdTaken
  /\ UNCHANGED <<centroids, ranges, postals, suggest, ledger, keyVintage>>
  /\ \/ /\ rows' = rows \cup RowsTo(BatchEnd)
        /\ Goes([run EXCEPT !.sent = BatchEnd, !.attempts = 0])
        /\ UNCHANGED failures
     \/ /\ \E n \in run.sent .. BatchEnd : rows' = rows \cup RowsTo(n)
        /\ Fails(AfterFailure)

(* The primary key refuses the repeated insert, at every attempt. *)
InsertRefused ==
  /\ run.phase = "insert" /\ run.sent < Len(W) /\ IdTaken
  /\ Goes(AfterFailure)
  /\ UNCHANGED <<tables, failures>>

InsertedAll ==
  /\ run.phase = "insert" /\ run.sent = Len(W)
  /\ Succeeds("aggregates")
  /\ UNCHANGED tables

(* INSERT OR REPLACE of the centroid of each key met and of its streets. *)
WriteAggregates ==
  LET filled(table) == [k \in Keys |-> LET n == CountOf(k)
                                       IN IF n > 0 THEN n ELSE table[k]]
  IN /\ run.phase = "aggregates"
     /\ Request(/\ centroids' = filled(centroids) /\ ranges' = filled(ranges)
                /\ UNCHANGED <<rows, postals, suggest, ledger, keyVintage>>, "postal")

(* Delete and re-aggregate, from the whole table, the codes of the new rows.*)
Recounted == [p \in Postals |-> IF p \in Touched THEN Cardinality({r \in rows : r.postal = p})
                                                 ELSE postals[p]]

RecomputePostals ==
  /\ run.phase = "postal"
  /\ Request(/\ postals' = Recounted
             /\ UNCHANGED <<rows, centroids, ranges, suggest, ledger, keyVintage>>, "suggest")

(* The street ranges of the scope, where the city has its centroid. *)
Reindexed == [k \in Keys |-> IF k \notin Scope[run.city] THEN suggest[k]
                             ELSE IF centroids[k] > 0 THEN ranges[k] ELSE 0]

(* A rebuild that keeps failing does not stop the run. *)
RebuildSuggest ==
  LET effect == /\ suggest' = Reindexed
                /\ UNCHANGED <<rows, centroids, ranges, postals, ledger, keyVintage>>
  IN /\ run.phase = "suggest"
     /\ \/ effect /\ Succeeds("provenance")
        \/ /\ effect \/ UNCHANGED tables
           /\ Fails(IF run.attempts + 1 = MaxAttempts
                    THEN [run EXCEPT !.phase = "provenance", !.attempts = 0]
                    ELSE [run EXCEPT !.attempts = @ + 1])

Recorded == [ledger EXCEPT ![run.city] = @ \cup {run.vintage}]

RecordImport ==
  /\ run.phase = "provenance"
  /\ Request(/\ ledger' = Recorded
             /\ UNCHANGED <<rows, centroids, ranges, postals, suggest, keyVintage>>, "keys")

RecordKeys ==
  LET effect == /\ keyVintage' = [k \in Keys |->
                     IF k \in Scope[run.city] THEN run.vintage ELSE keyVintage[k]]
                /\ UNCHANGED <<rows, centroids, ranges, postals, suggest, ledger>>
  IN /\ run.phase = "keys"
     /\ \/ /\ effect
           /\ run' = Idle
           /\ staged' = Removed(run.vintage)
           /\ open' = open \ {run.city}
           /\ torn' = IF run.reading = "whole" THEN torn \ {run.city} ELSE torn \cup {run.city}
           /\ UNCHANGED <<release, bounds>>
        \/ (effect \/ UNCHANGED tables) /\ Fails(AfterFailure)

(* The process dies; the next one finds its lock file stale, and its files. *)
Dies == /\ run.phase # "idle"
        /\ failures < MaxFailures
        /\ failures' = failures + 1
        /\ run' = Idle
        /\ UNCHANGED <<tables, staged, release, open, torn, manual>>

(* Statistics Canada publishes; a run in progress keeps its own vintage. *)
NewRelease == /\ release < LastVintage
              /\ release' = release + 1
              /\ UNCHANGED <<tables, staged, run, open, torn, bounds>>

-----------------------------------------------------------------------------

Work == \/ DeleteChunk \/ DeleteCentroids \/ DeleteRanges
        \/ InsertBatch \/ InsertRefused \/ InsertedAll
        \/ WriteAggregates \/ RecomputePostals \/ RebuildSuggest
        \/ RecordImport \/ RecordKeys

(* The tables as the province-wide import left them. *)
Init ==
  /\ rows = Oda
  /\ centroids = [k \in Keys |-> Cardinality({r \in Oda : r.key = k})]
  /\ ranges = centroids
  /\ suggest = centroids
  /\ postals = [p \in Postals |-> Cardinality({r \in Oda : r.postal = p})]
  /\ ledger = [c \in Cities |-> {}]
  /\ keyVintage = [k \in Keys |-> 0]
  /\ staged = [v \in Vintages |-> "none"]
  /\ release = 1
  /\ run = [phase |-> "idle", city |-> Queue[1], vintage |-> 1, reading |-> "whole", first |-> 1,
            chunks |-> 0, sent |-> 0, attempts |-> 0]
  /\ open = {} /\ torn = {}
  /\ failures = 0 /\ manual = 0

Next ==
  \/ DailyRun
  \/ \E c \in Cities, force \in BOOLEAN : ManualRun(c, force)
  \/ DiesUnpacking
  \/ Work
  \/ Dies
  \/ NewRelease

Spec == Init /\ [][Next]_vars

(* The timer starts a run every day (Persistent=true), and a run goes on    *)
(* until it ends: every request is answered or times out.                   *)
FairSpec == Spec /\ WF_vars(DailyRun) /\ WF_vars(Work)

-----------------------------------------------------------------------------
(* Properties *)

(* "the row set is never duplicated": whatever fails, is repeated or dies   *)
(* half-way, no address has two rows and no id is given to two of them.     *)
NeverDoubleServed ==
  \A r, s \in rows : r.id = s.id \/ r.addr = s.addr => r = s

Latest(c) == CHOOSE v \in ledger[c] : \A u \in ledger[c] : u <= v

(* A city that is done and not being refreshed again is served whole: each  *)
(* located entry of its vintage has its row, under every spelling, and the  *)
(* centroids, the street ranges and the stated vintage are those of the     *)
(* rows.  The rotation never returns to such a city, so nothing would mend  *)
(* it.  Excepted are the cities refreshed from files an earlier process had *)
(* cut short by its death: extractEntries takes them for whole.             *)
DoneIsWhole ==
  \A c \in Cities : ledger[c] # {} /\ c \notin open \cup torn =>
    LET v == Latest(c) ws == Located[v][c]["whole"]
    IN /\ Cardinality(InScope(c)) = Len(ws)
       /\ \A r \in InScope(c) : r.vintage = v
       /\ \A e \in ToSet(ws) : \E r \in InScope(c) : r.addr = e.addr /\ r.key = e.key
       /\ \A k \in Scope[c] : /\ centroids[k] = Cardinality({r \in rows : r.key = k})
                              /\ ranges[k] = centroids[k]
                              /\ keyVintage[k] = v

(* Every city is refreshed for the release that is current, unless another  *)
(* one comes out first, whatever fails finitely often.                      *)
RotationCompletes ==
  \A v \in Vintages : (release = v) ~> (release # v \/ \A c \in Cities : v \in ledger[c])

Served(c, rs) == {[addr |-> r.addr, key |-> r.key, postal |-> r.postal, vintage |-> r.vintage] :
                    r \in {q \in rs : q.key \in Scope[c]}}

Refresh == INSTANCE CityRefresh WITH
  served <- [c \in Cities |-> Served(c, rows)],
  done <- ledger,
  Full <- [v \in Vintages |-> [c \in Cities |->
             {{[addr |-> e.addr, key |-> e.key, postal |-> e.postal, vintage |-> v] :
                 e \in ToSet(Located[v][c][reading])} : reading \in Readings}]]

(* Seen by a reader, a refresh withdraws a city, serves its new vintage and *)
(* declares it done, in that order, and touches no other city.              *)
ImplementsCityRefresh == Refresh!RefreshSpec
=============================================================================
