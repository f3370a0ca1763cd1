--------------------------- MODULE RidingLookup ---------------------------
(***************************************************************************)
(* From a query to its ridings: performExpandedLookup with the cache of    *)
(* answers (lookup-expansion.ts, cache.ts), the three places a riding is   *)
(* looked for (riding-lookup.ts) and what fills them: the memory of an     *)
(* isolate (dataset-source.ts) and the spatial database, which an operator *)
(* synchronises statement by statement (spatial.ts) while lookups go on,   *)
(* and while a cron warms the cache for popular places (cache-warming.ts). *)
(*                                                                         *)
(* A feature is a riding, in one version of its file; its polygon and its  *)
(* bounding box are the points they hold.  Two conversions lose something: *)
(* the key of an answer rounds coordinates and may digest a long text, so  *)
(* that neighbouring points share an entry, and a riding too large for the *)
(* database is stored there with fewer decimals and vertices, so that its  *)
(* copy holds other points than its polygon does.                          *)
(* An entry of the cache may have expired, be invisible yet or fail to be  *)
(* read: each of these is a miss, so a read may always miss.               *)
(***************************************************************************)
EXTENDS Integers, Sequences, FiniteSets, Functions

CONSTANTS
  Datasets, Federal,      \* the GeoJSON files, and the federal one
  Points, None, Error,
  LastVersion,            \* bound: versions of a file
  File,                   \* the ridings of a dataset's version, in order
  Land, Box,              \* of a feature: the points of its polygon and of its box
  Stored,                 \* of a riding: the feature the database is given of it
  Rounded, Brief,         \* of a point, and of a text: what a key keeps of it
  ProvinceOf,             \* of a federal riding: a provincial dataset, or None
  Lookups, Query,         \* the requests, and what each asks
  Located,                \* where the geocoder finds an address
  Batches,                \* the popular places, as keys: a sequence of sets
  Targets,                \* getLiveWarmTargets, in order
  MaxSyncs, MaxFailures,  \* bounds: synchronisations begun, features refused
  MaxRounds               \* bound: rounds of the cache warming

Ridings == UNION {Range(File[d][v]) : d \in Datasets, v \in 1 .. LastVersion}

(* A query: the path it is sent to, its coordinates or postal code and      *)
(* address, and include_province.                                           *)
LookupQueries == [path : Datasets, at : Points \cup {None}, postal : STRING \cup {None},
            address : STRING \cup {None}, province : BOOLEAN]

(* What a lookup tells; an error is told apart. *)
LookupAnswers ==
  [point : Points, riding : Ridings \cup {None},
   province : {<<>>} \cup {<<r>> : r \in Ridings \cup {None}}]

Popular == UNION Range(Batches)

ASSUME LookupConstants ==
  /\ Federal \in Datasets /\ None \notin Points
  /\ LastVersion \in Nat \ {0}
  /\ \A d \in Datasets, v \in 1 .. LastVersion : File[d][v] \in Seq(Ridings)
  /\ \A r \in Ridings : \A f \in {r, Stored[r]} : Land[f] \subseteq Box[f] /\ Box[f] \subseteq Points
  /\ Query \in [Lookups -> LookupQueries]
  /\ {MaxSyncs, MaxFailures, MaxRounds} \subseteq Nat
  /\ Batches # <<>> /\ Targets \in Seq(Datasets) /\ Targets # <<>>
  /\ \A v \in 1 .. LastVersion : \A r \in Range(File[Federal][v]) :
       ProvinceOf[r] \in (Datasets \ {Federal}) \cup {None}
  /\ \A l \in Lookups :
       Query[l].at = None => Located[<<Query[l].postal, Query[l].address>>] \in Points
  /\ \A k \in Popular : IF k[1] = "postal" THEN Located[<<k[2], None>>] \in Points
                                           ELSE k[2] \in Points
  /\ Error \notin LookupAnswers

VARIABLES
  published,   \* the version of each file in R2
  memory,      \* of an isolate: the version of the file and of the index it holds
  loading,     \* for each lookup, the file it is reading for the isolate
  tables,      \* whether the spatial database has its tables
  rows, rtree, \* the tables spatial_features, by dataset, and spatial_rtree
  sync,        \* of each dataset: its synchronisation under way
  synced,      \* the version of each dataset the operator was told is synced
  kept,        \* LOOKUP_CACHE
  work,        \* where each lookup is
  answer,
  job, warm,   \* cacheWarmingState, and where each popular place is
  begun, refused

vars == <<published, memory, loading, tables, rows, rtree, sync, synced, kept, work, answer,
          job, warm, begun, refused>>
warming == <<job, warm>>
database == <<tables, rows, rtree, sync, synced, begun, refused>>

(***************************************************************************)
(* Files and keys.                                                         *)
(***************************************************************************)
(* The index of a version has each riding with its box, and a lookup the    *)
(* ridings whose box holds the point.                                       *)
IndexOf(d, v) == [r \in Range(File[d][v]) |-> Box[r]]
Candidates(d, v, p) == {r \in DOMAIN IndexOf(d, v) : p \in IndexOf(d, v)[r]}
Holding(d, v, p) == {r \in Candidates(d, v, p) : p \in Land[r]}

(* What a version may say of a point: a riding that holds it, the first by  *)
(* whatever order is searched, or that there is none.                       *)
RidingsAt(d, v, p) == IF Holding(d, v, p) = {} THEN {None} ELSE Holding(d, v, p)

(* Coordinates before the postal code before the address: a postal code     *)
(* leaves the address out of the key.  Coordinates are rounded to five      *)
(* decimals; a text is put in lower case, and a long key digested to 32 bits.*)
KeyAt(p) == <<"coordinate", Rounded[p]>>

KeyOf(q) ==
  CASE q.at # None -> KeyAt(q.at)
    [] q.at = None /\ q.postal # None -> <<"postal", Brief[q.postal]>>
    [] OTHER -> <<"address", Brief[q.address]>>

(* The key of what lookup l is looking for, with coordinates for a province.*)
KeyIn(l) == IF work[l].of = Query[l].path THEN KeyOf(Query[l]) ELSE KeyAt(work[l].point)

(* A popular place that is not being warmed. *)
Cold == [at |-> "done", todo |-> <<>>, point |-> None, riding |-> None]

Init ==
  /\ published = [d \in Datasets |-> 1]
  /\ memory = [d \in Datasets |-> [file |-> None, index |-> None]]
  /\ loading = [l \in Lookups |-> None]
  /\ rows = [d \in Datasets |-> <<>>] /\ rtree = <<>>
  /\ sync = [d \in Datasets |-> None] /\ synced = [d \in Datasets |-> None]
  /\ kept = <<>>
  /\ work = [l \in Lookups |-> [at |-> "cache", of |-> Query[l].path,
                                point |-> Query[l].at, riding |-> None]]
  /\ answer = [l \in Lookups |-> None]
  /\ tables = FALSE
  /\ job = [running |-> FALSE, due |-> TRUE, batch |-> 1, rounds |-> 0]
  /\ warm = [k \in Popular |-> Cold]
  /\ begun = 0 /\ refused = 0

(***************************************************************************)
(* What a lookup does with a riding, or without one.                       *)
(***************************************************************************)
Base(l) == work[l].of = Query[l].path

Answers(l, result) ==
  /\ answer' = [answer EXCEPT ![l] = result]
  /\ work' = [work EXCEPT ![l].at = "done"]

(* The riding of the query's own dataset is known: a federal one may need   *)
(* that of its province.                                                    *)
Continues(l, point, riding) ==
  LET province == IF riding = None THEN None ELSE ProvinceOf[riding]
  IN IF Query[l].province /\ Query[l].path = Federal /\ province # None
     THEN /\ work' = [work EXCEPT ![l] = [at |-> "cache", of |-> province,
                                          point |-> point, riding |-> riding]]
          /\ UNCHANGED answer
     ELSE Answers(l, [point |-> point, riding |-> riding, province |-> <<>>])

(* The lookup in one dataset has its riding, or None where none is.         *)
Obtains(l, point, riding) ==
  IF Base(l) THEN Continues(l, point, riding)
  ELSE Answers(l, [point |-> point, riding |-> work[l].riding, province |-> <<riding>>])

(* The write to the cache is deferred and may fail; a lookup never waits.   *)
Keeps(entry, point, riding) ==
  \/ UNCHANGED kept
  \/ kept' = [e \in DOMAIN kept \cup {entry} |->
                IF e = entry THEN [point |-> point, riding |-> riding] ELSE kept[e]]

MayKeep(l, riding) == Keeps(<<work[l].of, KeyIn(l)>>, work[l].point, riding)

Finds(l, riding) == Obtains(l, work[l].point, riding) /\ MayKeep(l, riding)

(* A plausible slip: the error of the province reaches the caller.          *)
FailsWhole(l) == Answers(l, Error)

(* An error ends the lookup; that of a province only leaves it out.         *)
Fails(l) ==
  IF Base(l) THEN Answers(l, Error)
  ELSE Answers(l, [point |-> work[l].point, riding |-> work[l].riding, province |-> <<>>])

(***************************************************************************)
(* A lookup, await by await.                                               *)
(***************************************************************************)
(* A hit gives its riding, and its point only to who has no coordinates.    *)
ReadsCache(l) ==
  /\ work[l].at = "cache"
  /\ \/ /\ <<work[l].of, KeyIn(l)>> \in DOMAIN kept
        /\ LET e == kept[<<work[l].of, KeyIn(l)>>]
           IN Obtains(l, IF work[l].point = None THEN e.point ELSE work[l].point, e.riding)
     \/ /\ work' = [work EXCEPT ![l].at = IF work[l].point = None THEN "geocoder" ELSE "database"]
        /\ UNCHANGED answer
  /\ UNCHANGED <<published, memory, loading, kept, warming, database>>

Geocodes(l) ==
  /\ work[l].at = "geocoder"
  /\ \/ /\ work' = [work EXCEPT ![l].at = "database",
                                ![l].point = Located[<<Query[l].postal, Query[l].address>>]]
        /\ UNCHANGED answer
     \/ Fails(l)
  /\ UNCHANGED <<published, memory, loading, kept, warming, database>>

(* The rows of a dataset joined with the tree on their integer id; polygons *)
(* and boxes are those of the features as stored.                           *)
InDatabase(d, p) ==
  {rows[d][i] : i \in {n \in DOMAIN rows[d] \cap DOMAIN rtree :
                         p \in Box[Stored[rtree[n]]] /\ p \in Land[Stored[rows[d][n]]]}}

(* A plausible slip: what the database does not have is nowhere.            *)
TrustsDatabase(l) ==
  /\ work[l].at = "database"
  /\ LET found == InDatabase(work[l].of, work[l].point)
     IN IF found # {} THEN \E r \in found : Finds(l, r) ELSE Finds(l, None)
  /\ UNCHANGED <<published, memory, loading, warming, database>>

(* Without a row, or with an error, the index is asked.                     *)
AsksDatabase(l) ==
  /\ work[l].at = "database"
  /\ \/ \E r \in InDatabase(work[l].of, work[l].point) : Finds(l, r)
     \/ work' = [work EXCEPT ![l].at = "index"] /\ UNCHANGED <<answer, kept>>
  /\ UNCHANGED <<published, memory, loading, warming, database>>

(* The index in memory; a file without its index is an error.               *)
AsksIndex(l) ==
  LET d == work[l].of IN
  /\ work[l].at = "index" /\ loading[l] = None
  /\ \/ /\ memory[d].index # None
        /\ \E r \in RidingsAt(d, memory[d].index, work[l].point) : Finds(l, r)
        /\ UNCHANGED loading
     \/ /\ memory[d].index = None /\ memory[d].file # None
        /\ Fails(l) /\ UNCHANGED <<loading, kept>>
     \/ /\ memory[d] = [file |-> None, index |-> None]
        /\ \/ /\ loading' = [loading EXCEPT ![l] = <<d, published[d]>>]
              /\ work' = [work EXCEPT ![l].at = "file"]
              /\ UNCHANGED answer
           \/ Fails(l) /\ UNCHANGED loading
        /\ UNCHANGED kept
  /\ UNCHANGED <<published, memory, warming, database>>

(* The file has come, also when its lookup no longer waits for it.  It is   *)
(* kept before its index is built, which a malformed feature prevents.      *)
Loads(l) ==
  /\ loading[l] # None
  /\ LET d == loading[l][1]  v == loading[l][2]
     IN \/ /\ memory' = [memory EXCEPT ![d] = [file |-> v, index |-> v]]
           /\ IF work[l].at = "file" THEN \E r \in RidingsAt(d, v, work[l].point) : Finds(l, r)
              ELSE UNCHANGED <<work, answer, kept>>
        \/ /\ memory' = [memory EXCEPT ![d].file = v]
           /\ IF work[l].at = "file" THEN Fails(l) ELSE UNCHANGED <<work, answer>>
           /\ UNCHANGED kept
  /\ loading' = [loading EXCEPT ![l] = None]
  /\ UNCHANGED <<published, warming, database>>

(* A plausible slip: the deadline covers the database only.                 *)
TimesOutInDatabase(l) ==
  /\ work[l].at = "database"
  /\ Fails(l)
  /\ UNCHANGED <<published, memory, loading, kept, warming, database>>

(* The deadline of one dataset's lookup; its load is not called off.        *)
TimesOut(l) ==
  /\ work[l].at \in {"database", "index", "file"}
  /\ Fails(l)
  /\ UNCHANGED <<published, memory, loading, kept, warming, database>>

(***************************************************************************)
(* Files, the isolate's memory, and the operator's synchronisation.        *)
(***************************************************************************)
Publishes(d) ==
  /\ published[d] < LastVersion
  /\ published' = [published EXCEPT ![d] = @ + 1]
  /\ UNCHANGED <<memory, loading, kept, work, answer, warming, database>>

(* The file was put into its cache before the index into the other: it      *)
(* expires first.                                                           *)
Expires(d) ==
  /\ memory[d] # [file |-> None, index |-> None]
  /\ memory' = [memory EXCEPT ![d] = [file |-> None,
                                      index |-> IF @.file = None THEN None ELSE @.index]]
  /\ UNCHANGED <<published, loading, kept, work, answer, warming, database>>

(* loadGeo: the file in memory, or the one of R2.                           *)
Brought(d) ==
  IF memory[d].file # None THEN memory
  ELSE [memory EXCEPT ![d] = [file |-> published[d], index |-> published[d]]]

(* initializeSpatialDatabase; that it failed is noticed by the next         *)
(* statement only.                                                          *)
Initializes == tables' \in {TRUE, tables}

(* POST /api/database/init *)
InitsTables ==
  /\ ~tables /\ Initializes
  /\ UNCHANGED <<published, memory, loading, rows, rtree, sync, synced, kept, work, answer,
                 warming, begun, refused>>

(* POST /api/database/sync: the file is the one in memory, if there is one. *)
BeginsSync(d) ==
  /\ sync[d] = None /\ begun < MaxSyncs
  /\ memory' = Brought(d) /\ Initializes
  /\ sync' = [sync EXCEPT ![d] =
                [at |-> "boxes", version |-> memory'[d].file, next |-> 1, failed |-> 0]]
  /\ synced' = [synced EXCEPT ![d] = None]
  /\ begun' = begun + 1
  /\ UNCHANGED <<published, loading, rows, rtree, kept, work, answer, warming, refused>>

(* The boxes whose id is that of a row of the dataset go first.             *)
DeletesBoxes(d) ==
  /\ sync[d] # None /\ sync[d].at = "boxes" /\ tables
  /\ rtree' = [i \in DOMAIN rtree \ DOMAIN rows[d] |-> rtree[i]]
  /\ sync' = [sync EXCEPT ![d].at = "rows"]
  /\ UNCHANGED <<published, memory, loading, tables, rows, synced, kept, work, answer, warming, begun, refused>>

DeletesRows(d) ==
  /\ sync[d] # None /\ sync[d].at = "rows"
  /\ rows' = [rows EXCEPT ![d] = <<>>]
  /\ sync' = [sync EXCEPT ![d].at = "features"]
  /\ UNCHANGED <<published, memory, loading, tables, rtree, synced, kept, work, answer, warming, begun, refused>>

Put(table, i, r) == [n \in DOMAIN table \cup {i} |-> IF n = i THEN r ELSE table[n]]

(* One feature as it is stored, row and box in one batch: OR REPLACE by an  *)
(* id that counts from 0 in every dataset.  A chunk is its features, nothing*)
(* in between; when its batch fails they are inserted one by one.           *)
InsertsFeature(d) ==
  LET s == sync[d] IN
  /\ s # None /\ s.at = "features" /\ s.next \in DOMAIN File[d][s.version]
  /\ LET r == File[d][s.version][s.next]
     IN \/ /\ rows' = [rows EXCEPT ![d] = Put(@, s.next - 1, r)]
           /\ rtree' = Put(rtree, s.next - 1, r)
           /\ sync' = [sync EXCEPT ![d].next = @ + 1]
           /\ UNCHANGED refused
        \/ /\ refused < MaxFailures
           /\ refused' = refused + 1
           /\ sync' = [sync EXCEPT ![d].next = @ + 1, ![d].failed = @ + 1]
           /\ UNCHANGED <<rows, rtree>>
  /\ UNCHANGED <<published, memory, loading, tables, synced, kept, work, answer, warming, begun>>

(* Success is reported when features were inserted and none failed.         *)
EndsSync(d) ==
  LET s == sync[d] IN
  /\ s # None /\ s.at = "features" /\ s.next \notin DOMAIN File[d][s.version]
  /\ synced' = [synced EXCEPT ![d] = IF s.failed = 0 /\ s.next > 1 THEN s.version ELSE None]
  /\ sync' = [sync EXCEPT ![d] = None]
  /\ UNCHANGED <<published, memory, loading, tables, rows, rtree, kept, work, answer, warming, begun, refused>>

(* A statement fails, as all do without the tables: the handler reports     *)
(* that the sync is incomplete.                                             *)
AbortsSync(d) ==
  /\ sync[d] # None /\ sync[d].at \in {"boxes", "rows"}
  /\ IF tables THEN refused < MaxFailures /\ refused' = refused + 1 ELSE UNCHANGED refused
  /\ sync' = [sync EXCEPT ![d] = None]
  /\ UNCHANGED <<published, memory, loading, tables, rows, rtree, synced, kept, work, answer,
                 warming, begun>>

(***************************************************************************)
(* Cache warming.                                                          *)
(***************************************************************************)
(* performCacheWarming: one round at a time, when the interval is over.     *)
BeginsRound ==
  /\ ~job.running /\ job.due /\ job.rounds < MaxRounds
  /\ job' = [job EXCEPT !.running = TRUE, !.batch = 1, !.rounds = @ + 1]
  /\ warm' = [k \in Popular |-> IF k \in Batches[1] THEN [Cold EXCEPT !.at = "begin"] ELSE Cold]
  /\ UNCHANGED <<published, memory, loading, kept, work, answer, database>>

(* The entries of a place: its coordinates in every dataset and then, of a  *)
(* postal code, the postal code in every dataset.                           *)
EntriesAt(k, p) ==
  LET under(key) == [n \in DOMAIN Targets |-> <<Targets[n], key>>]
  IN under(KeyAt(p)) \o (IF k[1] = "postal" THEN under(<<"postal", Brief[k[2]]>>) ELSE <<>>)

(* warmCacheForLocation, warmCacheForPostalCode: a postal code is geocoded. *)
BeginsPlace(k) ==
  LET p == IF k[1] = "postal" THEN Located[<<k[2], None>>] ELSE k[2]
  IN /\ warm[k].at = "begin"
     /\ \/ warm' = [warm EXCEPT ![k] = [Cold EXCEPT !.at = "next", !.todo = EntriesAt(k, p),
                                                    !.point = p]]
        \/ k[1] = "postal" /\ warm' = [warm EXCEPT ![k] = Cold]
     /\ UNCHANGED <<published, memory, loading, kept, work, answer, job, database>>

NextEntry(k) ==
  warm' = [warm EXCEPT ![k].todo = Tail(@), ![k].riding = None,
                       ![k].at = IF Len(warm[k].todo) = 1 THEN "done" ELSE "next"]

(* The riding of an entry, from the database or the file; an error leaves   *)
(* the entry out.                                                           *)
LooksUpFor(k) ==
  /\ warm[k].at = "next"
  /\ LET d == warm[k].todo[1][1]
         found(r) == warm' = [warm EXCEPT ![k].at = "keep", ![k].riding = r]
     IN \/ /\ memory' \in {memory, Brought(d)}
           /\ \/ \E r \in InDatabase(d, warm[k].point) : found(r)
              \/ NextEntry(k)
        \/ /\ memory' = Brought(d) /\ memory'[d].index # None
           /\ \E r \in RidingsAt(d, memory'[d].index, warm[k].point) : found(r)
  /\ UNCHANGED <<published, loading, kept, work, answer, job, database>>

KeepsFor(k) ==
  /\ warm[k].at = "keep"
  /\ Keeps(warm[k].todo[1], warm[k].point, warm[k].riding) /\ NextEntry(k)
  /\ UNCHANGED <<published, memory, loading, work, answer, job, database>>

(* All of a batch are done, well or not: the next batch, or the next round  *)
(* after the interval.                                                      *)
EndsBatch ==
  /\ job.running /\ \A k \in Popular : warm[k].at = "done"
  /\ IF job.batch < Len(Batches)
     THEN /\ job' = [job EXCEPT !.batch = @ + 1]
          /\ warm' = [k \in Popular |->
                       IF k \in Batches[job.batch + 1] THEN [Cold EXCEPT !.at = "begin"] ELSE Cold]
     ELSE job' = [job EXCEPT !.running = FALSE, !.due = FALSE] /\ UNCHANGED warm
  /\ UNCHANGED <<published, memory, loading, kept, work, answer, database>>

ComesDue ==
  /\ ~job.running /\ ~job.due /\ job.rounds < MaxRounds
  /\ job' = [job EXCEPT !.due = TRUE]
  /\ UNCHANGED <<published, memory, loading, kept, work, answer, warm, database>>

(* POST /api/cache/warm only loads the federal file.                        *)
LoadsFederal ==
  /\ memory' = Brought(Federal) /\ memory' # memory
  /\ UNCHANGED <<published, loading, kept, work, answer, warming, database>>

Warms ==
  \/ BeginsRound \/ EndsBatch \/ ComesDue \/ LoadsFederal
  \/ \E k \in Popular : BeginsPlace(k) \/ LooksUpFor(k) \/ KeepsFor(k)

Step(l) == \/ ReadsCache(l) \/ Geocodes(l) \/ AsksDatabase(l) \/ AsksIndex(l) \/ Loads(l)
           \/ TimesOut(l)

Syncs(d) == \/ BeginsSync(d) \/ DeletesBoxes(d) \/ DeletesRows(d) \/ InsertsFeature(d)
            \/ EndsSync(d) \/ AbortsSync(d)

Serves == \/ \E l \in Lookups : Step(l)
          \/ \E d \in Datasets : Publishes(d) \/ Expires(d)

Keeping == InitsTables \/ \E d \in Datasets : Syncs(d)

Next == Serves \/ Keeping \/ Warms

Spec == Init /\ [][Next]_vars

(***************************************************************************)
(* Properties.                                                             *)
(***************************************************************************)
(* What may be told of a point: what a version published by now says of it, *)
(* or one of its ridings whose copy in the database holds the point; and    *)
(* the same of some point that the key of an answer does not tell from it.  *)
TrueOf(d, p, riding) ==
  \E v \in 1 .. published[d] :
    \/ riding \in RidingsAt(d, v, p)
    \/ riding \in Range(File[d][v]) /\ p \in Land[Stored[riding]]

NearlyTrue(d, p, riding) == \E q \in Points : Rounded[q] = Rounded[p] /\ TrueOf(d, q, riding)

Served(l) == answer[l] \notin {None, Error}

(* What the riding told lookup l with point p may be: where the key is a    *)
(* text, the point is the one the riding was found at; where it is the      *)
(* query's coordinates, the riding may be that of a neighbouring point.     *)
TrueFor(l, p, riding) ==
  IF Query[l].at = None THEN TrueOf(Query[l].path, p, riding)
  ELSE p = Query[l].at /\ NearlyTrue(Query[l].path, p, riding)

(* What is answered is a riding that is there, and "no riding" only where   *)
(* there is none - never because a synchronisation has emptied a table, the *)
(* tree lacks a box or a load failed.  "There" is the point that goes with  *)
(* the answer, or for coordinates, and for a province, one that rounds to   *)
(* the same; what a riding holds is what its polygon or its stored copy     *)
(* holds.  What is kept is true of the very point it is kept with, and that *)
(* point rounds to the key.                                                 *)
AnswersTrue ==
  /\ \A l \in Lookups : Served(l) =>
       /\ TrueFor(l, answer[l].point, answer[l].riding)
       /\ answer[l].province # <<>> =>
            NearlyTrue(ProvinceOf[answer[l].riding], answer[l].point, answer[l].province[1])
  /\ \A e \in DOMAIN kept : /\ TrueOf(e[1], kept[e].point, kept[e].riding)
                            /\ e[2][1] = "coordinate" => Rounded[kept[e].point] = e[2][2]

(* A riding in hand is never lost to the failure, or the deadline, of the   *)
(* lookup of its province.                                                  *)
RidingSurvives ==
  [][\A l \in Lookups : work[l].riding # None /\ answer'[l] # answer[l] =>
       answer'[l] # Error /\ answer'[l].riding = work[l].riding]_vars

(* The point an answer is for is where the geocoder finds the query's own   *)
(* address, or the coordinates it gave.                                     *)
OwnPoint ==
  \A l \in Lookups : Served(l) =>
    answer[l].point = IF Query[l].at # None THEN Query[l].at
                      ELSE Located[<<Query[l].postal, Query[l].address>>]
=============================================================================
