----------------------------- MODULE OdaImport -----------------------------
(* The import of a whole province, from which the address tables come:      *)
(* scripts/import-oda.ts with the statements of src/oda-import.ts.  A plain *)
(* run deletes the province with the first file of statements it uploads;   *)
(* --resume skips as many rows of the data set as the table has;            *)
(* --centroids-only rebuilds what is derived.  A file whose upload fails is *)
(* sent again, and an operator may run the import at any time, also after   *)
(* cities were refreshed, whose ledger it does not touch.                   *)
(*                                                                          *)
(* The index of the autocomplete comes from the ranges and centroids, by a  *)
(* script of its own (scripts/build-oda-suggest.ts), which sends its file   *)
(* once.                                                                    *)
(*                                                                          *)
(* As in NarImport a file that fails may have applied any beginning of it.  *)
(* Not here: --max-rows, the download, the schema, and the log of imports,  *)
(* oda_imports, that only the statistics show.                              *)
EXTENDS NarImport

CONSTANTS
  Csv,              \* the rows of the data set, in file order
  FileStatements,   \* --batch-size
  UploadAttempts,   \* maxAttempts of executeSqlFile
  MaxLoads          \* bound: runs of this import

ASSUME CsvConstants ==
  /\ Csv \in Seq(Entry) /\ Csv # <<>>
  /\ \A i, j \in DOMAIN Csv : Csv[i].addr = Csv[j].addr => i = j
  /\ FileStatements \in Nat \ {0} /\ UploadAttempts > 0

(* The refreshes start from what a plain run of this import left. *)
ASSUME OdaIsImported ==
  Oda = {[id |-> i, addr |-> Csv[i].addr, key |-> Csv[i].key, postal |-> Csv[i].postal,
          vintage |-> 0] : i \in DOMAIN Csv}

VARIABLES
  load,       \* the process, and how far it has come
  loads,
  finished,   \* auxiliary: how the last run worked, if it reached its end and nothing began since
  content     \* auxiliary: "file", a beginning of the data set; "refreshed", a city of it was
              \* refreshed since; "mixed", a run was resumed upon that

loading == <<load, loads, finished, content>>
odaVars == <<vars, loading>>

(* The deletions that open the first file of a plain run. *)
Deletions == 4

Clears == load.how = "plain" /\ load.sent = 0

(* MUTANT of Skip: --resume trusts a count of what it uploaded before, that *)
(* is the files and not the rows.                                           *)
SkipFiles == (Cardinality(rows) \div FileStatements) * FileStatements

(* queryProvinceRowCount *)
Skip == Cardinality(rows)

CsvRow(i) == [id |-> load.base + i, addr |-> Csv[i].addr, key |-> Csv[i].key,
              postal |-> Csv[i].postal, vintage |-> 0]

(* Where the file being sent ends: the deletions count as its statements,   *)
(* but a row is added before its length is looked at.                       *)
UploadEnd ==
  LET room == IF ~Clears THEN FileStatements
              ELSE IF FileStatements > Deletions THEN FileStatements - Deletions ELSE 1
  IN Lesser(load.sent + room, Len(Csv))

(* What is left of the run once the addresses are in the table. *)
Derived(how) == IF how = "plain" THEN "aggregates" ELSE "sweep"

(* main and importProvinceFromFile, up to the first upload. *)
StartLoad(how) ==
  /\ load.phase = "idle" /\ run.phase = "idle"
  /\ loads < MaxLoads /\ loads' = loads + 1
  /\ LET skip == IF how = "resume" THEN Lesser(Skip, Len(Csv)) ELSE 0
     IN load' = [phase |-> IF how = "centroids" \/ skip = Len(Csv) THEN Derived(how) ELSE "upload",
                 how |-> how, base |-> NextId - 1 - skip, sent |-> skip, attempts |-> 0]
  /\ finished' = "none"
  /\ content' = IF how = "resume" /\ content = "refreshed" THEN "mixed" ELSE content
  /\ open' = Cities
  /\ UNCHANGED <<tables, staged, release, run, torn, bounds>>

NoLoad == [load EXCEPT !.phase = "idle", !.base = 0, !.sent = 0, !.attempts = 0]

(* executeSqlFile: what follows when a file was not acknowledged. *)
LoadFails ==
  /\ load' = IF load.attempts + 1 = UploadAttempts THEN NoLoad ELSE [load EXCEPT !.attempts = @ + 1]
  /\ UNCHANGED <<loads, finished>>

Unlucky == failures < MaxFailures /\ failures' = failures + 1

GoesOn(phase, sent) ==
  /\ load' = IF phase = "idle" THEN NoLoad
             ELSE [load EXCEPT !.phase = phase, !.sent = sent, !.attempts = 0]
  /\ finished' = IF phase = "idle" THEN load.how ELSE "none"
  /\ UNCHANGED <<loads, failures>>

NotMine == <<suggest, ledger, keyVintage, staged, release, run, open, torn, manual>>

(* The first n statements of the file of addresses. *)
Uploads(n) ==
  LET gone(i) == Clears /\ n >= i
      rest(i, table) == IF gone(i) THEN [x \in DOMAIN table |-> 0] ELSE table
      inserted == IF ~Clears THEN n ELSE IF n > Deletions THEN n - Deletions ELSE 0
  IN /\ rows' = (IF gone(1) THEN {} ELSE rows)
                \cup {CsvRow(i) : i \in load.sent + 1 .. load.sent + inserted}
     /\ postals' = rest(2, postals) /\ centroids' = rest(3, centroids) /\ ranges' = rest(4, ranges)
     /\ content' = IF gone(1) THEN "file" ELSE content

FileLength == UploadEnd - load.sent + (IF Clears THEN Deletions ELSE 0)

RowTaken == ~Clears /\ \E r \in rows : r.id = load.base + load.sent + 1

UploadFile ==
  /\ load.phase = "upload" /\ ~RowTaken
  /\ \/ /\ Uploads(FileLength)
        /\ GoesOn(IF UploadEnd = Len(Csv) THEN Derived(load.how) ELSE "upload", UploadEnd)
     \/ (\E n \in 0 .. FileLength : Uploads(n)) /\ LoadFails /\ Unlucky
  /\ UNCHANGED NotMine

(* A file sent again after a part of it was applied meets its own rows, and *)
(* is refused at every attempt, unless the deletions come first.            *)
UploadRefused ==
  /\ load.phase = "upload" /\ RowTaken
  /\ LoadFails
  /\ UNCHANGED <<tables, content, failures, staged, release, run, open, torn, manual>>

(* buildProvinceCentroidDeleteSql; then flushCentroids, from the whole data *)
(* set whatever was skipped.  Each in its order of tables.                  *)
Derives(n, postal, city, street) ==
  /\ postals' = IF n >= 1 THEN postal ELSE postals
  /\ centroids' = IF n >= 2 THEN city ELSE centroids
  /\ ranges' = IF n >= 3 THEN street ELSE ranges

Zero(table) == [x \in DOMAIN table |-> 0]

Sweep ==
  /\ load.phase = "sweep"
  /\ LET swept(n) == Derives(n, Zero(postals), Zero(centroids), Zero(ranges))
     IN \/ swept(3) /\ GoesOn("aggregates", load.sent)
        \/ (\E n \in 0 .. 3 : swept(n)) /\ LoadFails /\ Unlucky
  /\ UNCHANGED <<rows, content, NotMine>>

(* INSERT OR REPLACE of what the data set has an entry for. *)
Filled(table, n) == [x \in DOMAIN table |-> IF n[x] > 0 THEN n[x] ELSE table[x]]

CsvAtKey == [k \in Keys |-> Cardinality({i \in DOMAIN Csv : Csv[i].key = k})]
CsvAtPostal == [p \in Postals |-> Cardinality({i \in DOMAIN Csv : Csv[i].postal = p})]

FlushAggregates ==
  /\ load.phase = "aggregates"
  /\ LET flushed(n) == Derives(n, Filled(postals, CsvAtPostal), Filled(centroids, CsvAtKey),
                               Filled(ranges, CsvAtKey))
     IN \/ flushed(3) /\ GoesOn("idle", 0)
        \/ (\E n \in 0 .. 3 : flushed(n)) /\ LoadFails /\ Unlucky
  /\ UNCHANGED <<rows, content, NotMine>>

(* scripts/build-oda-suggest.ts, at any time while nothing is imported; an  *)
(* index is as good as none between its deletions and its last statement.   *)
StartBuild ==
  /\ load.phase = "idle" /\ run.phase = "idle"
  /\ loads < MaxLoads /\ loads' = loads + 1
  /\ load' = [NoLoad EXCEPT !.phase = "index", !.how = "index"]
  /\ finished' = "none"
  /\ UNCHANGED <<vars, content>>

(* buildSuggestPopulateSql *)
Index == [k \in Keys |-> IF centroids[k] > 0 THEN ranges[k] ELSE 0]

BuildIndex ==
  /\ load.phase = "index"
  /\ \/ suggest' = Index /\ GoesOn("idle", 0)
     \/ /\ suggest' \in {suggest, Zero(suggest), Index}
        /\ load' = NoLoad /\ Unlucky
        /\ UNCHANGED <<loads, finished>>
  /\ UNCHANGED <<rows, centroids, ranges, postals, ledger, keyVintage, content,
                 staged, release, run, open, torn, manual>>

LoadDies ==
  /\ load.phase # "idle"
  /\ Unlucky
  /\ load' = NoLoad
  /\ UNCHANGED <<tables, staged, release, run, open, torn, manual, loads, finished, content>>

(* The refreshes of cities, while no province is being imported. *)
Refreshes ==
  /\ load.phase = "idle"
  /\ Next
  /\ finished' = IF run'.phase = "idle" THEN finished ELSE "none"
  /\ content' = IF run'.phase # "idle" /\ content = "file" THEN "refreshed" ELSE content
  /\ UNCHANGED <<load, loads>>

LoadWork == UploadFile \/ UploadRefused \/ Sweep \/ FlushAggregates \/ BuildIndex

OdaInit ==
  /\ Init
  /\ load = [phase |-> "idle", how |-> "plain", base |-> 0, sent |-> 0, attempts |-> 0]
  /\ loads = 0 /\ finished = "none" /\ content = "file"

OdaNext ==
  \/ \E how \in {"plain", "resume", "centroids"} : StartLoad(how)
  \/ StartBuild
  \/ LoadWork
  \/ LoadDies
  \/ Refreshes

OdaSpec == OdaInit /\ [][OdaNext]_odaVars

-----------------------------------------------------------------------------
(* Properties *)

(* An import that reaches its end has imported the data set, however many   *)
(* runs before it failed or died and were resumed ("Use --resume if a long  *)
(* import is interrupted", oda-data-import.md:200): each row is there once, *)
(* and what is derived is what the whole data set yields.  The rows are     *)
(* those of the data set only as long as no city of it was refreshed since  *)
(* the last plain run: --resume then skips rows by their number, and leaves *)
(* out some and doubles others.  An index that was built lists the streets   *)
(* there are, whatever was left of the one before.                          *)
ImportedIsWhole ==
  /\ finished = "index" => \A k \in Keys : suggest[k] > 0 <=> centroids[k] > 0 /\ ranges[k] > 0
  /\ finished \notin {"none", "index"} =>
    /\ postals = CsvAtPostal /\ centroids = CsvAtKey /\ ranges = CsvAtKey
    /\ finished # "centroids" /\ content = "file" =>
         /\ Cardinality(rows) = Len(Csv)
         /\ \A i \in DOMAIN Csv : \E r \in rows : r.addr = Csv[i].addr /\ r.key = Csv[i].key

(* NeverDoubleServed, as long as no import of the province was resumed upon *)
(* refreshed cities.                                                        *)
NeverDoubled == content # "mixed" => NeverDoubleServed

(* A refresh leaves its city neither doubled nor short of anything. *)
RefreshedWhole == NeverDoubled /\ DoneIsWhole

(* ImplementsCityRefresh, but for the import of the province. *)
RefreshesByVintage ==
  [][load.phase = "idle" /\ load'.phase = "idle" => Refresh!Next]_(Refresh!vars)
=============================================================================
