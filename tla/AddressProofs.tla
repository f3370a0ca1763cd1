---------------------------- MODULE AddressProofs ----------------------------
(* Proofs about the addresses and those who read them while they change.    *)
(* The tables: the old rows of a city go before its new ones come, what the *)
(* ledger has done is served whole, a resumed import of a province goes on  *)
(* where the table ends, and a reader sees each vintage by itself.  Those   *)
(* who read them: a search offers what was typed, and no less than was      *)
(* there throughout; a lookup says no more of its answer than the row it    *)
(* found allows; and along a chain of pages, each with what is after the    *)
(* last one, nothing comes twice and nothing that stays is passed over.     *)
EXTENDS OdaImport, AddressPaging, AddressMatch, AddressSuggest,
        DataFacts, SequenceTheorems, FiniteSetTheorems, TLAPS

(***************************************************************************)
(* The import of addresses                                                 *)
(***************************************************************************)

-----------------------------------------------------------------------------
(* What is counted *)

(* How many of S come before each of them. *)
RankedBefore(S, f, x) == {y \in S : f[y] < f[x]}
Rank(S, f) == [x \in S |-> Cardinality(RankedBefore(S, f, x))]

Ranked(S, f) ==
  /\ \A x \in S : Cardinality(RankedBefore(S, f, x)) \in 0 .. Cardinality(S) - 1
  /\ \A x, y \in S : Cardinality(RankedBefore(S, f, x)) = Cardinality(RankedBefore(S, f, y)) => x = y
  /\ \A n \in 0 .. Cardinality(S) - 1 : \E x \in S : Cardinality(RankedBefore(S, f, x)) = n

LEMMA RankGrows ==
  ASSUME NEW S, IsFiniteSet(S), NEW f, \A x \in S : f[x] \in Int,
         NEW x \in S, NEW y \in S, f[x] < f[y]
  PROVE  /\ Cardinality(RankedBefore(S, f, x)) \in Nat /\ Cardinality(RankedBefore(S, f, y)) \in Nat
         /\ Cardinality(RankedBefore(S, f, x)) < Cardinality(RankedBefore(S, f, y))
  <1> DEFINE bx == RankedBefore(S, f, x)
             by == RankedBefore(S, f, y)
  <1>1. bx \in SUBSET S /\ by \in SUBSET S
    BY DEF RankedBefore
  <1>2. IsFiniteSet(bx) /\ IsFiniteSet(by)
    BY <1>1, FS_Subset
  <1>3. bx \in SUBSET by /\ x \in by /\ x \notin bx
    BY DEF RankedBefore
  <1>4. Cardinality(bx) <= Cardinality(by) /\ Cardinality(bx) # Cardinality(by)
    BY <1>2, <1>3, FS_Subset
  <1>5. Cardinality(bx) \in Nat /\ Cardinality(by) \in Nat
    BY <1>2, FS_CardinalityType
  <1> QED BY <1>4, <1>5

(* A finite set is numbered, from 0 on, by what comes before each of it. *)
LEMMA RankFacts ==
  ASSUME NEW S, IsFiniteSet(S), NEW f, \A x \in S : f[x] \in Int,
         \A x, y \in S : f[x] = f[y] => x = y
  PROVE  Ranked(S, f)
  <1> DEFINE last == Cardinality(S) - 1
             T == 0 .. last
             rank == Rank(S, f)
  <1>0. Cardinality(S) \in Nat
    BY FS_CardinalityType
  <1>1. ASSUME NEW x \in S PROVE Cardinality(RankedBefore(S, f, x)) \in T
    <2>1. RankedBefore(S, f, x) \in SUBSET S /\ x \notin RankedBefore(S, f, x)
      BY DEF RankedBefore
    <2>2. /\ Cardinality(RankedBefore(S, f, x)) <= Cardinality(S)
          /\ Cardinality(RankedBefore(S, f, x)) # Cardinality(S)
      BY <2>1, FS_Subset
    <2>3. Cardinality(RankedBefore(S, f, x)) \in Nat
      BY <2>1, FS_Subset, FS_CardinalityType
    <2> QED BY <1>0, <2>2, <2>3
  <1>2. ASSUME NEW x \in S, NEW y \in S, Cardinality(RankedBefore(S, f, x)) = Cardinality(RankedBefore(S, f, y))
        PROVE  x = y
    <2>1. CASE f[x] < f[y]
      BY <1>2, <2>1, RankGrows
    <2>2. CASE f[y] < f[x]
      BY <1>2, <2>2, RankGrows
    <2> QED BY <2>1, <2>2
  <1>3. rank \in Injection(S, T)
    <2>1. rank \in [S -> T]
      BY <1>1 DEF Rank
    <2>2. \A x, y \in S : rank[x] = rank[y] => x = y
      BY <1>2 DEF Rank
    <2> QED BY <2>1, <2>2 DEF Injection, IsInjective
  <1>4. IsFiniteSet(T) /\ Cardinality(T) = Cardinality(S)
    <2> HIDE DEF last
    <2>1. 0 \in Int /\ last \in Int
      BY <1>0 DEF last
    <2>2. IsFiniteSet(T) /\ Cardinality(T) = IF 0 > last THEN 0 ELSE last - 0 + 1
      BY <2>1, FS_Interval
    <2> QED BY <1>0, <2>2 DEF last
  <1>5. rank \in Surjection(S, T)
    BY <1>3, <1>4, FS_Injection
  <1>6. \A n \in T : \E x \in S : Cardinality(RankedBefore(S, f, x)) = n
    BY <1>5 DEF Surjection, Rank
  <1> QED BY <1>1, <1>2, <1>6 DEF Ranked

LEMMA GreatestExists ==
  ASSUME NEW S, IsFiniteSet(S), S \subseteq Int, S # {}
  PROVE  \E n \in S : \A m \in S : m <= n
  <1> DEFINE f == [x \in S |-> x]
  <1>1. /\ \A x \in S : f[x] \in Int
        /\ \A x, y \in S : f[x] = f[y] => x = y
    OBVIOUS
  <1> HIDE DEF f
  <1>2. /\ \A x \in S : Cardinality(RankedBefore(S, f, x)) \in 0 .. Cardinality(S) - 1
        /\ \A n \in 0 .. Cardinality(S) - 1 : \E x \in S : Cardinality(RankedBefore(S, f, x)) = n
    <2>1. Ranked(S, f)
      BY <1>1, RankFacts
    <2> QED BY <2>1 DEF Ranked
  <1>3. Cardinality(S) \in Nat \ {0}
    BY FS_CardinalityType, FS_EmptySet
  <1>4. PICK n \in S : Cardinality(RankedBefore(S, f, n)) = Cardinality(S) - 1
    BY <1>2, <1>3
  <1>5. ASSUME NEW m \in S, f[n] < f[m] PROVE FALSE
    <2>1. Cardinality(RankedBefore(S, f, n)) < Cardinality(RankedBefore(S, f, m))
      BY <1>1, <1>5, RankGrows
    <2>2. Cardinality(RankedBefore(S, f, m)) \in 0 .. Cardinality(S) - 1
      BY <1>2
    <2> QED BY <1>3, <1>4, <2>1, <2>2
  <1>6. \A m \in S : m <= n
    BY <1>5 DEF f
  <1> QED BY <1>6

(* The first k of a set in its order: what is left is that much less. *)
Rest(S, f, k) == {x \in S : ~(Cardinality(RankedBefore(S, f, x)) < k)}

LEMMA FirstOnes ==
  ASSUME NEW S, IsFiniteSet(S), NEW f, \A x \in S : f[x] \in Int,
         \A x, y \in S : f[x] = f[y] => x = y, NEW k \in Nat,
         NEW b \in Nat, Cardinality(S) <= b
  PROVE  /\ IsFiniteSet(Rest(S, f, k)) /\ Cardinality(Rest(S, f, k)) \in Nat
         /\ Cardinality(Rest(S, f, k)) <= (IF b <= k THEN 0 ELSE b - k)
  <1> DEFINE rest == Rest(S, f, k)
             last == Cardinality(S) - 1
             T == k .. last
             rank == [x \in rest |-> Cardinality(RankedBefore(S, f, x))]
  <1>0. Cardinality(S) \in Nat
    BY FS_CardinalityType
  <1>1. /\ \A x \in S : Cardinality(RankedBefore(S, f, x)) \in 0 .. Cardinality(S) - 1
        /\ \A x, y \in S : Cardinality(RankedBefore(S, f, x)) = Cardinality(RankedBefore(S, f, y)) => x = y
    BY RankFacts DEF Ranked
  <1>2. rank \in Injection(rest, T)
    <2>1. rank \in [rest -> T]
      BY <1>0, <1>1 DEF Rest
    <2>2. \A x, y \in rest : rank[x] = rank[y] => x = y
      BY <1>1 DEF Rest
    <2> QED BY <2>1, <2>2 DEF Injection, IsInjective
  <1>3. IsFiniteSet(T) /\ Cardinality(T) = IF k > last THEN 0 ELSE last - k + 1
    <2> HIDE DEF last
    <2>1. k \in Int /\ last \in Int
      BY <1>0 DEF last
    <2> QED BY <2>1, FS_Interval
  <1> HIDE DEF T
  <1>4. IsFiniteSet(rest) /\ Cardinality(rest) <= Cardinality(T)
    BY <1>2, <1>3, FS_Injection
  <1>5. Cardinality(rest) \in Nat
    BY <1>4, FS_CardinalityType
  <1>6. Cardinality(T) <= IF b <= k THEN 0 ELSE b - k
    BY <1>0, <1>3
  <1> QED BY <1>0, <1>3, <1>4, <1>5, <1>6

LEMMA DivFacts ==
  ASSUME NEW a \in Nat, NEW b \in Nat \ {0}
  PROVE  a \div b \in Nat /\ a < b * (a \div b) + b
  OBVIOUS

(* ceil(n / ChunkRows) + 2 chunks take n rows. *)
LEMMA ChunksSuffice ==
  ASSUME NEW n \in Nat
  PROVE  ChunksFor(n) \in Nat /\ ChunksFor(n) > 0 /\ n <= ChunkRows * ChunksFor(n)
  <1>1. ChunkRows \in Nat \ {0} /\ n + ChunkRows - 1 \in Nat
    BY Bounds
  <1>2. PICK d \in Nat : /\ d = (n + ChunkRows - 1) \div ChunkRows
                         /\ n + ChunkRows - 1 < ChunkRows * d + ChunkRows
    BY <1>1, DivFacts
  <1>3. ChunkRows * (d + 2) = ChunkRows * d + ChunkRows + ChunkRows
    BY <1>1
  <1>4. ChunksFor(n) = d + 2
    BY <1>2 DEF ChunksFor
  <1>5. ChunkRows * d \in Nat
    BY <1>1
  <1> QED BY <1>1, <1>2, <1>3, <1>4, <1>5

-----------------------------------------------------------------------------
(* What a run inserts *)

(* An entry that a reading of the release has located is the release's. *)
LEMMA EntriesFacts ==
  ASSUME NEW v \in Vintages, NEW c \in Cities, NEW reading \in Readings
  PROVE  /\ \E n \in Nat : DOMAIN Entries(v, c, reading) = 1 .. n
         /\ \A i \in DOMAIN Entries(v, c, reading) : Entries(v, c, reading)[i].located =>
              i \in DOMAIN Release[v][c] /\ Entries(v, c, reading)[i] = Release[v][c][i]
  <1> DEFINE all == Release[v][c]
             es == Entries(v, c, reading)
  <1>0. all \in Seq(Entry)
    BY ReleasesMatchScope
  <1>1. Len(all) \in Nat /\ DOMAIN all = 1 .. Len(all) /\ \A i \in DOMAIN all : all[i] \in Entry
    BY <1>0, LenProperties, ElementOfSeq
  <1> HIDE DEF all
  <1>2. es = CASE reading = "short" -> Front(all)
               [] reading = "unlocated" -> [all EXCEPT ![Len(all)].located = FALSE]
               [] OTHER -> all
    BY DEF Entries, all
  <1> HIDE DEF es
  <1>3. CASE reading = "short"
    <2>1. es = SubSeq(all, 1, Len(all) - 1)
      BY <1>2, <1>3 DEF Front
    <2>2. CASE Len(all) = 0
      <3>1. DOMAIN es = 1 .. 0
        BY <2>1, <2>2, <1>0, <1>1
      <3> QED BY <3>1 DEF es, all
    <2>3. CASE Len(all) # 0
      <3> DEFINE n == Len(all) - 1
      <3>1. n \in Nat /\ n <= Len(all)
        BY <1>1, <2>3
      <3> HIDE DEF n
      <3>2. DOMAIN es = 1 .. n /\ \A i \in 1 .. n : es[i] = all[i]
        BY <1>0, <1>1, <2>1, <3>1 DEF n
      <3>3. \A i \in 1 .. n : i \in DOMAIN all
        BY <1>1, <3>1
      <3> QED BY <3>1, <3>2, <3>3 DEF es, all
    <2> QED BY <2>2, <2>3
  <1>4. CASE reading = "unlocated"
    <2>1. es = [all EXCEPT ![Len(all)] = [all[Len(all)] EXCEPT !.located = FALSE]]
      BY <1>2, <1>4
    <2>2. DOMAIN es = DOMAIN all
      BY <2>1
    <2>3. ASSUME NEW i \in DOMAIN all, es[i].located PROVE es[i] = all[i]
      <3>1. CASE i = Len(all)
        <4>1. es[i] = [all[i] EXCEPT !.located = FALSE] /\ all[i] \in Entry
          BY <1>1, <2>1, <3>1
        <4>2. es[i].located = FALSE
          BY <4>1 DEF Entry
        <4> QED BY <2>3, <4>2
      <3>2. CASE i # Len(all)
        BY <2>1, <3>2
      <3> QED BY <3>1, <3>2
    <2> QED BY <1>1, <2>2, <2>3 DEF es, all
  <1>5. CASE reading = "whole"
    <2>1. es = all
      BY <1>2, <1>5
    <2> QED BY <1>1, <2>1 DEF es, all
  <1> QED BY <1>3, <1>4, <1>5 DEF Readings

(* What a run inserts is the release's, all of the city, each address once. *)
Insertable(ws, v, c) ==
  /\ Len(ws) \in Nat /\ DOMAIN ws = 1 .. Len(ws)
  /\ \A i \in DOMAIN ws : /\ ws[i] \in ToSet(Release[v][c]) /\ ws[i] \in Entry
                          /\ ws[i].key \in Scope[c]
  /\ \A i, j \in DOMAIN ws : ws[i].addr = ws[j].addr => i = j

LEMMA LocatedFacts ==
  ASSUME NEW v \in Vintages, NEW c \in Cities, NEW reading \in Readings
  PROVE  Insertable(Located[v][c][reading], v, c)
  <1> DEFINE ws == Located[v][c][reading]
             all == Entries(v, c, reading)
             kept == {i \in DOMAIN all : all[i].located}
             size == Cardinality(kept)
             nth(n) == CHOOSE i \in kept : Cardinality({j \in kept : j < i}) = n - 1
  <1>1. ws = [n \in 1 .. size |-> all[nth(n)]]
    BY DEF Located
  <1>2. /\ \E n \in Nat : DOMAIN all = 1 .. n
        /\ \A i \in DOMAIN all : all[i].located =>
             i \in DOMAIN Release[v][c] /\ all[i] = Release[v][c][i]
    BY EntriesFacts
  <1> HIDE DEF ws, all
  <1>3. IsFiniteSet(kept) /\ \A i \in kept : i \in Int
    <2>1. PICK n \in Nat : DOMAIN all = 1 .. n
      BY <1>2
    <2>2. IsFiniteSet(1 .. n)
      <3>1. 1 \in Int /\ n \in Int
        OBVIOUS
      <3> QED BY <3>1, FS_Interval
    <2>3. kept \in SUBSET (1 .. n)
      BY <2>1
    <2> QED BY <2>2, <2>3, FS_Subset
  <1>4. \A i \in kept : i \in DOMAIN Release[v][c] /\ all[i] = Release[v][c][i]
    BY <1>2
  <1> HIDE DEF kept
  <1>5. size \in Nat
    BY <1>3, FS_CardinalityType
  <1> DEFINE f == [i \in kept |-> i]
  <1>6. Ranked(kept, f)
    <2>1. /\ \A x \in kept : f[x] \in Int
          /\ \A x, y \in kept : f[x] = f[y] => x = y
      BY <1>3
    <2> HIDE DEF f
    <2> QED BY <1>3, <2>1, RankFacts
  <1>7. \A i \in kept : RankedBefore(kept, f, i) = {j \in kept : j < i}
    BY DEF RankedBefore
  <1>8. /\ \A x, y \in kept : Cardinality({j \in kept : j < x}) = Cardinality({j \in kept : j < y}) => x = y
        /\ \A n \in 0 .. size - 1 : \E x \in kept : Cardinality({j \in kept : j < x}) = n
    <2> HIDE DEF f
    <2>1. /\ \A x, y \in kept : Cardinality(RankedBefore(kept, f, x)) = Cardinality(RankedBefore(kept, f, y)) => x = y
          /\ \A n \in 0 .. size - 1 : \E x \in kept : Cardinality(RankedBefore(kept, f, x)) = n
      BY <1>6 DEF Ranked
    <2>2. ASSUME NEW x \in kept, NEW y \in kept,
                 Cardinality({j \in kept : j < x}) = Cardinality({j \in kept : j < y})
          PROVE  x = y
      <3>1. Cardinality(RankedBefore(kept, f, x)) = Cardinality(RankedBefore(kept, f, y))
        BY <1>7, <2>2
      <3> QED BY <2>1, <3>1
    <2>3. ASSUME NEW n \in 0 .. size - 1
          PROVE  \E x \in kept : Cardinality({j \in kept : j < x}) = n
      <3>1. PICK x \in kept : Cardinality(RankedBefore(kept, f, x)) = n
        BY <2>1
      <3>2. Cardinality({j \in kept : j < x}) = n
        BY <1>7, <3>1
      <3> QED BY <3>2
    <2> QED BY <2>2, <2>3
  <1> HIDE DEF size
  <1>9. \A n \in 1 .. size : nth(n) \in kept /\ Cardinality({j \in kept : j < nth(n)}) = n - 1
    <2>1. ASSUME NEW n \in 1 .. size
          PROVE  \E i \in kept : Cardinality({j \in kept : j < i}) = n - 1
      <3>1. n - 1 \in 0 .. size - 1
        BY <1>5
      <3> QED BY <1>8, <3>1
    <2> QED BY <2>1
  <1> HIDE DEF nth
  <1>10. /\ ws \in Seq(Entry) /\ Len(ws) = size /\ DOMAIN ws = 1 .. size
         /\ \A n \in 1 .. size : ws[n] = Release[v][c][nth(n)] /\ nth(n) \in DOMAIN Release[v][c]
    <2>1. \A n \in 1 .. size : ws[n] = all[nth(n)] /\ nth(n) \in kept
      BY <1>1, <1>9
    <2>2. Release[v][c] \in Seq(Entry)
      BY ReleasesMatchScope
    <2>3. \A n \in 1 .. size : ws[n] = Release[v][c][nth(n)] /\ nth(n) \in DOMAIN Release[v][c]
      BY <1>4, <2>1
    <2>4. \A n \in 1 .. size : ws[n] \in Entry
      BY <2>2, <2>3, ElementOfSeq, LenProperties
    <2>5. ws \in [1 .. size -> Entry]
      BY <1>1, <2>4
    <2>6. ws \in Seq(Entry)
      BY <1>5, <2>5, SeqDef
    <2> QED BY <1>5, <2>3, <2>5, <2>6, LenProperties
  <1>11. Len(ws) \in Nat /\ DOMAIN ws = 1 .. Len(ws)
    BY <1>5, <1>10
  <1>12. ASSUME NEW i \in DOMAIN ws
         PROVE  ws[i] \in ToSet(Release[v][c]) /\ ws[i] \in Entry /\ ws[i].key \in Scope[c]
    <2>1. ws[i] \in ToSet(Release[v][c])
      BY <1>10, <1>12 DEF ToSet
    <2>2. ws[i] \in Entry
      BY <1>10, <1>12, ElementOfSeq
    <2> QED BY <2>1, <2>2, ReleasesMatchScope
  <1>13. ASSUME NEW i \in DOMAIN ws, NEW j \in DOMAIN ws, ws[i].addr = ws[j].addr
         PROVE  i = j
    <2>1. nth(i) = nth(j)
      BY <1>10, <1>13, ListedOnce
    <2>2. i - 1 = j - 1
      BY <1>9, <1>10, <2>1
    <2> QED BY <1>5, <1>10, <2>2
  <1> QED BY <1>11, <1>12, <1>13 DEF Insertable, ws

-----------------------------------------------------------------------------
(* The inductive invariant of the refresh.  x is the run, or what a step    *)
(* makes of it, and rs the rows; ct and rg are the centroids and ranges.    *)

Sweeping == {"delete", "centroids", "ranges"}
Filling == {"aggregates", "postal", "suggest", "provenance", "keys"}
Phases == {"idle", "insert"} \cup Sweeping \cup Filling

RunRecords == [phase : Phases, city : Cities, vintage : Vintages, reading : Readings,
               first : Int, chunks : Int, sent : Nat, attempts : Int]

Among(c, rs) == {r \in rs : r.key \in Scope[c]}

(* What the run inserts, what it has and what it has to remove. *)
Fresh(x) == Located[x.vintage][x.city][x.reading]
FreshRow(x, i) == [id |-> x.first + i - 1, addr |-> Fresh(x)[i].addr, key |-> Fresh(x)[i].key,
                   postal |-> Fresh(x)[i].postal, vintage |-> x.vintage]
Filed(x, n) == {FreshRow(x, i) : i \in 1 .. n}
Own(x, rs) == {r \in rs : r.id >= x.first}
Old(x, rs) == {r \in Among(x.city, rs) : r.id < x.first}
FreshAt(x, k) == Cardinality({i \in DOMAIN Fresh(x) : Fresh(x)[i].key = k})

(* Every row is of the first import or of a release, and has its own id. *)
Origin(r) == \/ \E o \in Oda : r.addr = o.addr /\ r.key = o.key
             \/ \E c \in Cities : \E e \in Listed(c) : r.addr = e.addr /\ r.key = e.key

Sound(rs) ==
  /\ IsFiniteSet(rs)
  /\ \A r \in rs : r.id \in Int /\ Origin(r)
  /\ \A r, s \in rs : r.id = s.id => r = s

(* While chunks are left, they suffice for the old rows; after the last one *)
(* there are none, and the run's own are a beginning of what it inserts.    *)
RowsStand(x, rs) ==
  /\ x.phase \in Sweeping => Own(x, rs) = {} /\ x.sent = 0
  /\ x.phase = "insert" => \E n \in x.sent .. Len(Fresh(x)) : Own(x, rs) = Filed(x, n)
  /\ x.phase \in Filling => Own(x, rs) = Filed(x, Len(Fresh(x)))
  /\ x.phase = "delete" => x.chunks > 0 /\ Cardinality(Old(x, rs)) <= ChunkRows * x.chunks
  /\ x.phase \notin {"idle", "delete"} => Old(x, rs) = {}

(* What was written of a table that was swept, perhaps at a lost attempt. *)
Counts(x, tb) == \A k \in Scope[x.city] : tb[k] \in {0, FreshAt(x, k)}
Counted(x, tb) == \A k \in Scope[x.city] : tb[k] = FreshAt(x, k)

TablesStand(x, ct, rg) ==
  /\ x.phase \notin {"idle", "delete", "centroids"} => Counts(x, ct)
  /\ x.phase \notin {"idle", "delete", "centroids", "ranges"} => Counts(x, rg)
  /\ x.phase \in Filling \ {"aggregates"} => Counted(x, ct) /\ Counted(x, rg)

(* No city is done for a vintage after the one it is refreshed for. *)
LedgerStands(x, lg, op) ==
  x.phase # "idle" => /\ x.city \in op
                      /\ lg[x.city] \subseteq 1 .. x.vintage
                      /\ x.phase = "keys" => x.vintage \in lg[x.city]

Ledgers(lg, rl) == /\ DOMAIN lg = Cities
                   /\ \A c \in Cities : lg[c] \subseteq 1 .. rl

RefreshTypes ==
  /\ run \in RunRecords /\ release \in Vintages
  /\ run.phase # "idle" => run.vintage <= release
  /\ staged \in [Vintages -> Readings \cup {"none"}]
  /\ Ledgers(ledger, release)

RefreshInv ==
  /\ RefreshTypes
  /\ Sound(rows)
  /\ RowsStand(run, rows) /\ TablesStand(run, centroids, ranges)
  /\ LedgerStands(run, ledger, open)
  /\ DoneIsWhole

(* The import of the province. *)

(* The rows are the first n of the data set. *)
RowOf(r, i) == r.addr = Csv[i].addr /\ r.key = Csv[i].key
Beginning(rs, n) == /\ n \in 0 .. Len(Csv)
                    /\ \A r \in rs : \E i \in 1 .. n : RowOf(r, i)
                    /\ \A i \in 1 .. n : \E r \in rs : RowOf(r, i)
                    /\ \A r, s \in rs : r.addr = s.addr => r = s

(* What a resumed upload, or one past its first file, has put in the table. *)
CsvAt(ld, i) == [id |-> ld.base + i, addr |-> Csv[i].addr, key |-> Csv[i].key,
                 postal |-> Csv[i].postal, vintage |-> 0]
Put(ld, n) == {CsvAt(ld, i) : i \in ld.sent + 1 .. n}
Uploaded(ld, rs, n) == {r \in rs : r.id > ld.base + ld.sent} = Put(ld, n)

LoadPhases == {"idle", "upload", "sweep", "aggregates", "index"}
LoadRecords == [phase : LoadPhases, how : {"plain", "resume", "centroids", "index"},
                base : Int, sent : Nat, attempts : Int]

Uploading(ld, rs, ct) ==
  ld.phase = "upload" =>
    /\ ld.sent < Len(Csv) /\ ld.how \in {"plain", "resume"}
    /\ IF ld.how = "plain" /\ ld.sent = 0
       THEN ct = "file" => \E n \in Nat : Beginning(rs, n)
       ELSE \E n \in ld.sent .. Len(Csv) :
              Uploaded(ld, rs, n) /\ (ct = "file" => Beginning(rs, n))
    /\ ld.how = "plain" /\ ld.sent > 0 => ct = "file"
    /\ ld.how = "resume" => ct # "refreshed"

EmptyOr(tb, n) == \A x \in DOMAIN n : tb[x] \in {0, n[x]}
Blank(tb) == \A x \in DOMAIN tb : tb[x] = 0

Deriving(ld, pt, ct, rg) ==
  /\ ld.phase = "upload" /\ ld.how = "plain" /\ ld.sent > 0 => Blank(pt) /\ Blank(ct) /\ Blank(rg)
  /\ ld.phase = "aggregates" =>
       EmptyOr(pt, CsvAtPostal) /\ EmptyOr(ct, CsvAtKey) /\ EmptyOr(rg, CsvAtKey)

LoadTypes ==
  /\ load \in LoadRecords /\ content \in {"file", "refreshed", "mixed"}
  /\ DOMAIN postals = Postals /\ DOMAIN centroids = Keys /\ DOMAIN ranges = Keys

(* One process at a time, and what it does not finish counts as begun. *)
LoadAlone ==
  /\ load.phase # "idle" => run.phase = "idle"
  /\ load.phase \notin {"idle", "index"} => open = Cities
  /\ load.phase = "index" => load.how = "index"
  /\ finished # "none" => load.phase = "idle" /\ run.phase = "idle"
  /\ content = "file" => run.phase = "idle"

LoadRows(ld, rs, ct) ==
  /\ ct = "file" => \E n \in Nat : Beginning(rs, n)
  /\ Uploading(ld, rs, ct)
  /\ ld.phase \in {"sweep", "aggregates"} =>
       /\ ld.how \in {"plain", "resume", "centroids"}
       /\ ld.how # "centroids" /\ ct = "file" => Beginning(rs, Len(Csv))

LoadInv ==
  /\ LoadTypes /\ LoadAlone
  /\ LoadRows(load, rows, content)
  /\ Deriving(load, postals, centroids, ranges)
  /\ finished \in {"plain", "resume"} /\ content = "file" => Beginning(rows, Len(Csv))

ImportInv == RefreshInv /\ LoadInv /\ NeverDoubled /\ ImportedIsWhole

-----------------------------------------------------------------------------
(* The run and its rows *)

LEMMA FreshFacts ==
  ASSUME NEW x \in RunRecords
  PROVE  /\ Insertable(Fresh(x), x.vintage, x.city)
         /\ x.city \in Cities /\ x.vintage \in Vintages /\ x.first \in Int
  <1>1. x.city \in Cities /\ x.vintage \in Vintages /\ x.reading \in Readings /\ x.first \in Int
    BY DEF RunRecords
  <1> QED BY <1>1, LocatedFacts DEF Fresh

LEMMA FreshRows ==
  ASSUME NEW x \in RunRecords, NEW i \in DOMAIN Fresh(x)
  PROVE  /\ FreshRow(x, i).id = x.first + i - 1 /\ FreshRow(x, i).id \in Int
         /\ FreshRow(x, i).addr = Fresh(x)[i].addr /\ FreshRow(x, i).key = Fresh(x)[i].key
         /\ FreshRow(x, i).key \in Scope[x.city] /\ FreshRow(x, i).vintage = x.vintage
         /\ Origin(FreshRow(x, i)) /\ i \in Nat /\ FreshRow(x, i).id >= x.first
         /\ Fresh(x)[i] \in Listed(x.city)
  <1>1. /\ Fresh(x)[i] \in ToSet(Release[x.vintage][x.city]) /\ Fresh(x)[i].key \in Scope[x.city]
        /\ x.city \in Cities /\ x.vintage \in Vintages /\ x.first \in Int
        /\ i \in 1 .. Len(Fresh(x)) /\ Len(Fresh(x)) \in Nat
    BY FreshFacts DEF Insertable
  <1>2. Fresh(x)[i] \in Listed(x.city)
    BY <1>1 DEF Listed
  <1>3. Origin(FreshRow(x, i))
    BY <1>1, <1>2 DEF Origin, FreshRow
  <1>4. FreshRow(x, i).id = x.first + i - 1 /\ FreshRow(x, i).id \in Int /\ FreshRow(x, i).id >= x.first
    BY <1>1 DEF FreshRow
  <1> QED BY <1>1, <1>2, <1>3, <1>4 DEF FreshRow

LEMMA NextIdFacts ==
  ASSUME Sound(rows)
  PROVE  NextId \in Int /\ \A r \in rows : r.id < NextId
  <1> DEFINE ids == {r.id : r \in rows}
             f == [r \in rows |-> r.id]
  <1>1. CASE rows = {}
    BY <1>1 DEF NextId
  <1>2. CASE rows # {}
    <2>1. IsFiniteSet(ids)
      <3>1. f \in Surjection(rows, ids)
        BY DEF Surjection
      <3> QED BY <3>1, FS_Surjection DEF Sound
    <2>2. ids \subseteq Int /\ ids # {}
      BY <1>2 DEF Sound
    <2>3. \E n \in ids : \A m \in ids : m <= n
      <3> HIDE DEF ids
      <3> QED BY <2>1, <2>2, GreatestExists
    <2>4. PICK n \in ids : n = CHOOSE m \in ids : \A r \in rows : r.id <= m
      BY <2>3
    <2>5. \A r \in rows : r.id <= n
      BY <2>3, <2>4
    <2>6. NextId = 1 + n
      BY <1>2, <2>4 DEF NextId
    <2> QED BY <2>2, <2>5, <2>6 DEF Sound
  <1> QED BY <1>1, <1>2

(* The steps of a run that a repeated request takes again. *)
Alike(x, y) ==
  /\ y.phase = x.phase /\ y.city = x.city /\ y.vintage = x.vintage /\ y.reading = x.reading
  /\ y.first = x.first /\ y.chunks = x.chunks /\ y.sent = x.sent

SameRun(x, y) ==
  y.city = x.city /\ y.vintage = x.vintage /\ y.reading = x.reading /\ y.first = x.first

LEMMA SameRunFacts ==
  ASSUME NEW x, NEW y, SameRun(x, y)
  PROVE  /\ Fresh(y) = Fresh(x)
         /\ \A n : Filed(y, n) = Filed(x, n)
         /\ \A rs : Own(y, rs) = Own(x, rs) /\ Old(y, rs) = Old(x, rs)
         /\ \A k : FreshAt(y, k) = FreshAt(x, k)
         /\ \A tb : (Counts(y, tb) <=> Counts(x, tb)) /\ (Counted(y, tb) <=> Counted(x, tb))
  <1>1. Fresh(y) = Fresh(x)
    BY DEF SameRun, Fresh
  <1>2. \A n : Filed(y, n) = Filed(x, n)
    BY <1>1 DEF SameRun, Filed, FreshRow
  <1>3. \A rs : Own(y, rs) = Own(x, rs) /\ Old(y, rs) = Old(x, rs)
    BY DEF SameRun, Own, Old
  <1>4. \A k : FreshAt(y, k) = FreshAt(x, k)
    BY <1>1 DEF FreshAt
  <1>5. \A tb : (Counts(y, tb) <=> Counts(x, tb)) /\ (Counted(y, tb) <=> Counted(x, tb))
    BY <1>4 DEF SameRun, Counts, Counted
  <1> QED BY <1>1, <1>2, <1>3, <1>4, <1>5

Stands(x, rs, ct, rg, lg, op) ==
  RowsStand(x, rs) /\ TablesStand(x, ct, rg) /\ LedgerStands(x, lg, op)

LEMMA StandsAlike ==
  ASSUME NEW x, NEW y, Alike(x, y), NEW rs, NEW ct, NEW rg, NEW lg, NEW op,
         Stands(x, rs, ct, rg, lg, op)
  PROVE  Stands(y, rs, ct, rg, lg, op)
  <1>1. SameRun(x, y)
    BY DEF Alike, SameRun
  <1>2. RowsStand(y, rs)
    BY <1>1, SameRunFacts DEF Alike, Stands, RowsStand
  <1>3. TablesStand(y, ct, rg)
    BY <1>1, SameRunFacts DEF Alike, Stands, TablesStand
  <1>4. LedgerStands(y, lg, op)
    BY DEF Alike, Stands, LedgerStands
  <1> QED BY <1>2, <1>3, <1>4 DEF Stands

LEMMA StandsIdle ==
  ASSUME NEW x, x.phase = "idle", NEW rs, NEW ct, NEW rg, NEW lg, NEW op
  PROVE  Stands(x, rs, ct, rg, lg, op)
  BY DEF Stands, RowsStand, TablesStand, LedgerStands, Sweeping, Filling

LEMMA IdleFacts ==
  ASSUME run \in RunRecords
  PROVE  /\ Idle \in RunRecords /\ Idle.phase = "idle" /\ Idle.vintage = run.vintage
         /\ Idle.city = run.city
  <1>1. "idle" \in Phases /\ 1 \in Int /\ 0 \in Int /\ 0 \in Nat
    BY DEF Phases
  <1>2. /\ Idle.phase = "idle" /\ Idle.vintage = run.vintage /\ Idle.city = run.city
        /\ Idle.reading = run.reading /\ Idle.first = 1 /\ Idle.chunks = 0 /\ Idle.sent = 0
        /\ Idle.attempts = 0
    BY DEF Idle, RunRecords
  <1>3. Idle \in RunRecords
    BY <1>1 DEF Idle, RunRecords
  <1> QED BY <1>2, <1>3

LEMMA AgainFacts ==
  ASSUME run \in RunRecords
  PROVE  LET again == [run EXCEPT !.attempts = @ + 1]
         IN again \in RunRecords /\ Alike(run, again)
  BY DEF RunRecords, Alike

LEMMA AfterFailureFacts ==
  ASSUME run \in RunRecords
  PROVE  /\ AfterFailure \in RunRecords /\ AfterFailure.vintage = run.vintage
         /\ AfterFailure.phase = "idle" \/ Alike(run, AfterFailure)
  <1>1. CASE run.attempts + 1 = MaxAttempts
    BY <1>1, IdleFacts DEF AfterFailure
  <1>2. CASE run.attempts + 1 # MaxAttempts
    BY <1>2, AgainFacts DEF AfterFailure, Alike
  <1> QED BY <1>1, <1>2

(* What a step does to the city of its run is nothing to the others. *)
Elsewhere(c, rs, rsn, ct, ctn, rg, rgn, kv, kvn, lg, lgn) ==
  /\ \A r : r.key \notin Scope[c] => (r \in rsn <=> r \in rs)
  /\ \A k \in Keys \ Scope[c] : ctn[k] = ct[k] /\ rgn[k] = rg[k] /\ kvn[k] = kv[k]
  /\ \A d \in Cities \ {c} : lgn[d] = lg[d]

WholeOf(d, v, rs, ct, rg, kv) ==
  LET ws == Located[v][d]["whole"]
  IN /\ Cardinality(Among(d, rs)) = Len(ws)
     /\ \A r \in Among(d, rs) : r.vintage = v
     /\ \A e \in ToSet(ws) : \E r \in Among(d, rs) : r.addr = e.addr /\ r.key = e.key
     /\ \A k \in Scope[d] : /\ ct[k] = Cardinality({r \in rs : r.key = k})
                            /\ rg[k] = ct[k]
                            /\ kv[k] = v

LEMMA WholeElsewhere ==
  ASSUME NEW c \in Cities, NEW d \in Cities, c # d, NEW v,
         NEW rs, NEW rsn, NEW ct, NEW ctn, NEW rg, NEW rgn, NEW kv, NEW kvn, NEW lg, NEW lgn,
         Elsewhere(c, rs, rsn, ct, ctn, rg, rgn, kv, kvn, lg, lgn),
         WholeOf(d, v, rs, ct, rg, kv)
  PROVE  WholeOf(d, v, rsn, ctn, rgn, kvn)
  <1>1. \A k \in Scope[d] : k \in Keys /\ k \notin Scope[c]
    BY ScopesDisjoint
  <1>2. Among(d, rsn) = Among(d, rs)
    BY <1>1 DEF Elsewhere, Among
  <1>3. ASSUME NEW k \in Scope[d]
        PROVE  {r \in rsn : r.key = k} = {r \in rs : r.key = k}
    BY <1>1, <1>3 DEF Elsewhere
  <1>4. \A k \in Scope[d] : ctn[k] = ct[k] /\ rgn[k] = rg[k] /\ kvn[k] = kv[k]
    BY <1>1 DEF Elsewhere
  <1> QED BY <1>2, <1>3, <1>4 DEF WholeOf

LEMMA DoneFolds ==
  DoneIsWhole <=> \A d \in Cities : ledger[d] # {} /\ d \notin open \cup torn =>
                    WholeOf(d, Latest(d), rows, centroids, ranges, keyVintage)
  BY DEF DoneIsWhole, WholeOf, Among, InScope

LEMMA DoneElsewhere ==
  ASSUME DoneIsWhole, NEW c \in Cities,
         \A d \in Cities \ {c} : d \in open \cup torn => d \in open' \cup torn',
         ledger'[c] # {} /\ c \notin open' \cup torn' =>
           WholeOf(c, Latest(c)', rows', centroids', ranges', keyVintage'),
         Elsewhere(c, rows, rows', centroids, centroids', ranges, ranges', keyVintage, keyVintage',
                   ledger, ledger')
  PROVE  DoneIsWhole'
  <1>1. ASSUME NEW d \in Cities, ledger'[d] # {}, d \notin open' \cup torn', d # c
        PROVE  WholeOf(d, Latest(d)', rows', centroids', ranges', keyVintage')
    <2>1. ledger'[d] = ledger[d] /\ d \notin open \cup torn
      BY <1>1 DEF Elsewhere
    <2>2. WholeOf(d, Latest(d), rows, centroids, ranges, keyVintage)
      BY <1>1, <2>1, DoneFolds
    <2>3. Latest(d)' = Latest(d)
      BY <2>1 DEF Latest
    <2> QED BY <1>1, <2>2, <2>3, WholeElsewhere
  <1>2. DoneIsWhole' <=> \A d \in Cities : ledger'[d] # {} /\ d \notin open' \cup torn' =>
                    WholeOf(d, Latest(d)', rows', centroids', ranges', keyVintage')
    BY DEF DoneIsWhole, WholeOf, Among, InScope
  <1> QED BY <1>1, <1>2

LEMMA DoneUnchanged ==
  ASSUME DoneIsWhole, UNCHANGED <<rows, centroids, ranges, keyVintage, ledger, torn>>,
         open \subseteq open'
  PROVE  DoneIsWhole'
  <1>1. \A d : Latest(d)' = Latest(d) /\ InScope(d)' = InScope(d)
    BY DEF Latest, InScope
  <1> QED BY <1>1 DEF DoneIsWhole

-----------------------------------------------------------------------------
(* A request of a run, acknowledged or not *)

LEMMA PhaseFacts ==
  ASSUME run \in RunRecords, NEW p \in Phases
  PROVE  LET y == [run EXCEPT !.phase = p, !.attempts = 0]
         IN /\ y \in RunRecords /\ SameRun(run, y) /\ y.phase = p /\ y.sent = run.sent
            /\ y.chunks = run.chunks /\ y.vintage = run.vintage /\ y.city = run.city
  <1> DEFINE y == [run EXCEPT !.phase = p, !.attempts = 0]
  <1>1. /\ y.phase = p /\ y.sent = run.sent /\ y.chunks = run.chunks /\ y.vintage = run.vintage
        /\ y.city = run.city /\ y.reading = run.reading /\ y.first = run.first
    BY DEF RunRecords
  <1>2. y \in RunRecords
    <2>1. 0 \in Int
      OBVIOUS
    <2> QED BY <2>1 DEF RunRecords
  <1> QED BY <1>1, <1>2 DEF SameRun

(* A step of a run that leaves it as y. *)
LEMMA GoesKeeps ==
  ASSUME RefreshInv, run.phase # "idle", NEW y \in RunRecords, y.vintage = run.vintage,
         Goes(y), Sound(rows'), Ledgers(ledger', release),
         Elsewhere(run.city, rows, rows', centroids, centroids', ranges, ranges',
                   keyVintage, keyVintage', ledger, ledger'),
         Stands(y, rows', centroids', ranges', ledger', open)
  PROVE  RefreshInv'
  <1>1. /\ run' = y /\ release' = release /\ open' = open /\ torn' = torn
        /\ staged' = staged \/ staged' = Removed(run.vintage)
    BY DEF Goes
  <1>2. run.city \in Cities /\ run.city \in open /\ run.vintage <= release
    BY DEF RefreshInv, RefreshTypes, LedgerStands, RunRecords
  <1>3. staged' \in [Vintages -> Readings \cup {"none"}]
    BY <1>1 DEF RefreshInv, RefreshTypes, Removed
  <1>4. RefreshTypes'
    BY <1>1, <1>2, <1>3 DEF RefreshInv, RefreshTypes
  <1>5. DoneIsWhole'
    BY <1>1, <1>2, DoneElsewhere DEF RefreshInv
  <1>6. RowsStand(run', rows') /\ TablesStand(run', centroids', ranges')
        /\ LedgerStands(run', ledger', open')
    BY <1>1 DEF Stands
  <1> QED BY <1>4, <1>5, <1>6 DEF RefreshInv

LEMMA RequestKeeps ==
  ASSUME RefreshInv, run.phase # "idle", NEW p \in Phases,
         Sound(rows'), Ledgers(ledger', release),
         Elsewhere(run.city, rows, rows', centroids, centroids', ranges, ranges',
                   keyVintage, keyVintage', ledger, ledger'),
         \/ /\ Goes([run EXCEPT !.phase = p, !.attempts = 0])
            /\ Stands([run EXCEPT !.phase = p, !.attempts = 0],
                      rows', centroids', ranges', ledger', open)
         \/ /\ Goes(AfterFailure)
            /\ Stands(run, rows', centroids', ranges', ledger', open)
  PROVE  RefreshInv'
  <1>0. run \in RunRecords
    BY DEF RefreshInv, RefreshTypes
  <1>1. CASE /\ Goes([run EXCEPT !.phase = p, !.attempts = 0])
             /\ Stands([run EXCEPT !.phase = p, !.attempts = 0],
                       rows', centroids', ranges', ledger', open)
    <2> PICK y : y = [run EXCEPT !.phase = p, !.attempts = 0]
      OBVIOUS
    <2>1. y \in RunRecords /\ y.vintage = run.vintage
      BY <1>0, PhaseFacts
    <2>2. Goes(y) /\ Stands(y, rows', centroids', ranges', ledger', open)
      BY <1>1
    <2> QED BY <2>1, <2>2, GoesKeeps
  <1>2. CASE /\ Goes(AfterFailure)
             /\ Stands(run, rows', centroids', ranges', ledger', open)
    <2> PICK y : y = AfterFailure
      OBVIOUS
    <2>1. y \in RunRecords /\ y.vintage = run.vintage /\ (y.phase = "idle" \/ Alike(run, y))
      BY <1>0, AfterFailureFacts
    <2>2. Stands(y, rows', centroids', ranges', ledger', open)
      BY <1>2, <2>1, StandsIdle, StandsAlike
    <2>3. Goes(y)
      BY <1>2
    <2> QED BY <2>1, <2>2, <2>3, GoesKeeps
  <1> QED BY <1>1, <1>2

(* What stands for the run as it is. *)
LEMMA StandsNow ==
  ASSUME RefreshInv
  PROVE  /\ Stands(run, rows, centroids, ranges, ledger, open)
         /\ run \in RunRecords /\ Sound(rows) /\ Ledgers(ledger, release)
         /\ run.city \in Cities
         /\ Elsewhere(run.city, rows, rows, centroids, centroids, ranges, ranges,
                      keyVintage, keyVintage, ledger, ledger)
  BY DEF RefreshInv, RefreshTypes, Stands, Elsewhere, RunRecords

(* A table swept of the run's keys. *)
LEMMA ClearedFacts ==
  ASSUME run \in RunRecords, NEW tb
  PROVE  /\ \A k \in Keys \ Scope[run.city] : Cleared(tb)[k] = tb[k]
         /\ Counts(run, Cleared(tb))
  <1>1. Scope[run.city] \subseteq Keys
    BY ScopesDisjoint DEF RunRecords
  <1> QED BY <1>1 DEF Cleared, Counts

LEMMA DeleteCentroidsKeeps ==
  ASSUME RefreshInv, DeleteCentroids
  PROVE  RefreshInv'
  <1> PICK y : y = [run EXCEPT !.phase = "ranges", !.attempts = 0]
    OBVIOUS
  <1>0. run.phase = "centroids" /\ "ranges" \in Phases
    BY DEF DeleteCentroids, Phases, Sweeping
  <1>1. y.phase = "ranges" /\ SameRun(run, y) /\ y.city = run.city /\ y.vintage = run.vintage
    BY <1>0, StandsNow, PhaseFacts
  <1>2. UNCHANGED <<rows, ranges, ledger, keyVintage>>
    BY DEF DeleteCentroids, Request, tables
  <1>3. Stands(run, rows', centroids', ranges', ledger', open)
    BY <1>0, <1>2, StandsNow DEF Stands, TablesStand, Filling
  <1>4. CASE centroids' = Cleared(centroids) /\ Goes(y)
    <2>1. RowsStand(y, rows')
      BY <1>0, <1>1, <1>2, StandsNow, SameRunFacts DEF Stands, RowsStand, Sweeping, Filling
    <2>2. TablesStand(y, centroids', ranges')
      BY <1>1, <1>4, StandsNow, ClearedFacts, SameRunFacts DEF TablesStand, Filling
    <2>3. LedgerStands(y, ledger', open)
      BY <1>0, <1>1, <1>2, StandsNow DEF Stands, LedgerStands
    <2>4. Stands(y, rows', centroids', ranges', ledger', open)
      BY <2>1, <2>2, <2>3 DEF Stands
    <2>5. Elsewhere(run.city, rows, rows', centroids, centroids', ranges, ranges',
                    keyVintage, keyVintage', ledger, ledger')
      BY <1>2, <1>4, StandsNow, ClearedFacts DEF Elsewhere
    <2> QED BY <1>0, <1>2, <1>4, <2>4, <2>5, StandsNow, RequestKeeps
  <1>5. CASE (centroids' = Cleared(centroids) \/ centroids' = centroids) /\ Goes(AfterFailure)
    <2>1. Elsewhere(run.city, rows, rows', centroids, centroids', ranges, ranges',
                    keyVintage, keyVintage', ledger, ledger')
      BY <1>2, <1>5, StandsNow, ClearedFacts DEF Elsewhere
    <2> QED BY <1>0, <1>2, <1>3, <1>5, <2>1, StandsNow, RequestKeeps
  <1> QED BY <1>4, <1>5 DEF DeleteCentroids, Request, Succeeds, Fails, tables

LEMMA DeleteRangesKeeps ==
  ASSUME RefreshInv, DeleteRanges
  PROVE  RefreshInv'
  <1> PICK y : y = [run EXCEPT !.phase = "insert", !.attempts = 0]
    OBVIOUS
  <1>0. run.phase = "ranges" /\ "insert" \in Phases
    BY DEF DeleteRanges, Phases
  <1>1. y.phase = "insert" /\ SameRun(run, y) /\ y.city = run.city /\ y.vintage = run.vintage
        /\ y.sent = run.sent
    BY <1>0, StandsNow, PhaseFacts
  <1>2. UNCHANGED <<rows, centroids, ledger, keyVintage>>
    BY DEF DeleteRanges, Request, tables
  <1>3. Stands(run, rows', centroids', ranges', ledger', open)
    BY <1>0, <1>2, StandsNow DEF Stands, TablesStand, Filling
  <1>4. CASE ranges' = Cleared(ranges) /\ Goes(y)
    <2>1. RowsStand(y, rows')
      <3>1. Own(y, rows') = {} /\ Old(y, rows') = {}
        BY <1>0, <1>1, <1>2, StandsNow, SameRunFacts DEF Stands, RowsStand, Sweeping
      <3>2. Own(y, rows') = Filed(y, 0) /\ 0 \in y.sent .. Len(Fresh(y))
        <4>1. run.sent = 0
          BY <1>0 DEF RefreshInv, RowsStand, Sweeping
        <4>2. Len(Fresh(y)) \in Nat
          BY <1>1, StandsNow, FreshFacts, SameRunFacts DEF Insertable
        <4> QED BY <1>1, <3>1, <4>1, <4>2 DEF Filed
      <3> QED BY <1>1, <3>1, <3>2 DEF RowsStand, Sweeping, Filling
    <2>2. TablesStand(y, centroids', ranges')
      <3>1. Counts(y, centroids')
        BY <1>0, <1>1, <1>2, StandsNow, SameRunFacts DEF Stands, TablesStand
      <3>2. Counts(y, ranges')
        BY <1>1, <1>4, StandsNow, ClearedFacts, SameRunFacts
      <3> QED BY <1>1, <3>1, <3>2 DEF TablesStand, Filling
    <2>3. LedgerStands(y, ledger', open)
      BY <1>0, <1>1, <1>2, StandsNow DEF Stands, LedgerStands
    <2>4. Stands(y, rows', centroids', ranges', ledger', open)
      BY <2>1, <2>2, <2>3 DEF Stands
    <2>5. Elsewhere(run.city, rows, rows', centroids, centroids', ranges, ranges',
                    keyVintage, keyVintage', ledger, ledger')
      BY <1>2, <1>4, StandsNow, ClearedFacts DEF Elsewhere
    <2> QED BY <1>0, <1>2, <1>4, <2>4, <2>5, StandsNow, RequestKeeps
  <1>5. CASE (ranges' = Cleared(ranges) \/ ranges' = ranges) /\ Goes(AfterFailure)
    <2>1. Elsewhere(run.city, rows, rows', centroids, centroids', ranges, ranges',
                    keyVintage, keyVintage', ledger, ledger')
      BY <1>2, <1>5, StandsNow, ClearedFacts DEF Elsewhere
    <2> QED BY <1>0, <1>2, <1>3, <1>5, <2>1, StandsNow, RequestKeeps
  <1> QED BY <1>4, <1>5 DEF DeleteRanges, Request, Succeeds, Fails, tables

(* What is counted of the run's rows is of its keys. *)
LEMMA FreshCounts ==
  ASSUME NEW x \in RunRecords, NEW k
  PROVE  FreshAt(x, k) \in Nat /\ (k \notin Scope[x.city] => FreshAt(x, k) = 0)
  <1> DEFINE at == {i \in DOMAIN Fresh(x) : Fresh(x)[i].key = k}
  <1>1. /\ Len(Fresh(x)) \in Nat /\ DOMAIN Fresh(x) = 1 .. Len(Fresh(x))
        /\ \A i \in DOMAIN Fresh(x) : Fresh(x)[i].key \in Scope[x.city]
    BY FreshFacts DEF Insertable
  <1>2. IsFiniteSet(DOMAIN Fresh(x))
    <2>1. 1 \in Int /\ Len(Fresh(x)) \in Int
      BY <1>1
    <2> QED BY <1>1, <2>1, FS_Interval
  <1>3. at \in SUBSET DOMAIN Fresh(x)
    OBVIOUS
  <1>4. IsFiniteSet(at) /\ Cardinality(at) \in Nat
    BY <1>2, <1>3, FS_Subset, FS_CardinalityType
  <1>5. ASSUME k \notin Scope[x.city] PROVE Cardinality(at) = 0
    <2>1. at = {}
      BY <1>1, <1>5
    <2> QED BY <2>1, FS_EmptySet
  <1> QED BY <1>4, <1>5 DEF FreshAt

(* WriteAggregates of one table. *)
Written(tb) == [k \in Keys |-> IF FreshAt(run, k) > 0 THEN FreshAt(run, k) ELSE tb[k]]

LEMMA WrittenFacts ==
  ASSUME run \in RunRecords, NEW tb
  PROVE  /\ \A k \in Keys \ Scope[run.city] : Written(tb)[k] = tb[k]
         /\ Counts(run, tb) => Counted(run, Written(tb)) /\ Counts(run, Written(tb))
  <1>1. Scope[run.city] \subseteq Keys
    BY ScopesDisjoint DEF RunRecords
  <1>2. \A k : FreshAt(run, k) \in Nat /\ (k \notin Scope[run.city] => FreshAt(run, k) = 0)
    BY FreshCounts
  <1>3. \A k \in Keys \ Scope[run.city] : Written(tb)[k] = tb[k]
    BY <1>2 DEF Written
  <1>4. ASSUME Counts(run, tb), NEW k \in Scope[run.city] PROVE Written(tb)[k] = FreshAt(run, k)
    BY <1>1, <1>2, <1>4 DEF Written, Counts
  <1> QED BY <1>3, <1>4 DEF Counts, Counted

LEMMA WriteAggregatesKeeps ==
  ASSUME RefreshInv, WriteAggregates
  PROVE  RefreshInv'
  <1> PICK y : y = [run EXCEPT !.phase = "postal", !.attempts = 0]
    OBVIOUS
  <1>0. run.phase = "aggregates" /\ "postal" \in Phases
    BY DEF WriteAggregates, Phases, Filling
  <1>1. y.phase = "postal" /\ SameRun(run, y) /\ y.city = run.city /\ y.vintage = run.vintage
    BY <1>0, StandsNow, PhaseFacts
  <1>2. /\ UNCHANGED <<rows, ledger, keyVintage>>
        /\ \/ centroids' = Written(centroids) /\ ranges' = Written(ranges) /\ Goes(y)
           \/ /\ \/ centroids' = Written(centroids) /\ ranges' = Written(ranges)
                 \/ centroids' = centroids /\ ranges' = ranges
              /\ Goes(AfterFailure)
    <2>1. \A k : CountOf(k) = FreshAt(run, k)
      BY DEF CountOf, FreshAt, Fresh, W
    <2> QED BY <2>1 DEF WriteAggregates, Request, Succeeds, Fails, tables, Written
  <1>3. Counts(run, centroids) /\ Counts(run, ranges) /\ RowsStand(run, rows)
        /\ LedgerStands(run, ledger, open)
    BY <1>0, StandsNow DEF Stands, TablesStand
  <1>4. Counts(run, centroids') /\ Counts(run, ranges')
    BY <1>2, <1>3, StandsNow, WrittenFacts
  <1>5. Stands(run, rows', centroids', ranges', ledger', open)
    BY <1>0, <1>2, <1>3, <1>4 DEF Stands, TablesStand, Filling
  <1>6. Elsewhere(run.city, rows, rows', centroids, centroids', ranges, ranges',
                  keyVintage, keyVintage', ledger, ledger')
    BY <1>2, StandsNow, WrittenFacts DEF Elsewhere
  <1>7. CASE centroids' = Written(centroids) /\ ranges' = Written(ranges) /\ Goes(y)
    <2>1. RowsStand(y, rows')
      BY <1>0, <1>1, <1>2, <1>3, SameRunFacts DEF RowsStand, Sweeping, Filling
    <2>2. TablesStand(y, centroids', ranges')
      <3>1. Counted(y, centroids') /\ Counted(y, ranges') /\ Counts(y, centroids') /\ Counts(y, ranges')
        BY <1>1, <1>3, <1>4, <1>7, StandsNow, WrittenFacts, SameRunFacts
      <3> QED BY <3>1 DEF TablesStand
    <2>3. LedgerStands(y, ledger', open)
      BY <1>0, <1>1, <1>2, <1>3 DEF LedgerStands
    <2>4. Stands(y, rows', centroids', ranges', ledger', open)
      BY <2>1, <2>2, <2>3 DEF Stands
    <2> QED BY <1>0, <1>2, <1>6, <1>7, <2>4, StandsNow, RequestKeeps
  <1>8. CASE Goes(AfterFailure)
    BY <1>0, <1>2, <1>5, <1>6, <1>8, StandsNow, RequestKeeps
  <1> QED BY <1>2, <1>7, <1>8

(* A step of the phases after the aggregates that writes neither rows nor   *)
(* what the readers count.                                                  *)
LEMMA LaterKeeps ==
  ASSUME RefreshInv, run.phase \in Filling \ {"aggregates"},
         NEW p \in Filling \ {"aggregates"}, p # "keys",
         UNCHANGED <<rows, centroids, ranges, ledger, keyVintage>>,
         Goes([run EXCEPT !.phase = p, !.attempts = 0]) \/ Goes(AfterFailure)
  PROVE  RefreshInv'
  <1> PICK y : y = [run EXCEPT !.phase = p, !.attempts = 0]
    OBVIOUS
  <1>0. run.phase # "idle" /\ p \in Phases
    BY DEF Filling, Phases
  <1>1. y.phase = p /\ SameRun(run, y) /\ y.city = run.city /\ y.vintage = run.vintage
    BY <1>0, StandsNow, PhaseFacts
  <1>2. Stands(run, rows', centroids', ranges', ledger', open)
    BY StandsNow
  <1>3. Stands(y, rows', centroids', ranges', ledger', open)
    <2>1. RowsStand(y, rows')
      BY <1>1, <1>2, SameRunFacts DEF Stands, RowsStand, Sweeping, Filling
    <2>2. TablesStand(y, centroids', ranges')
      BY <1>1, <1>2, SameRunFacts DEF Stands, TablesStand, Filling
    <2>3. LedgerStands(y, ledger', open)
      BY <1>0, <1>1, <1>2 DEF Stands, LedgerStands
    <2> QED BY <2>1, <2>2, <2>3 DEF Stands
  <1>4. Elsewhere(run.city, rows, rows', centroids, centroids', ranges, ranges',
                  keyVintage, keyVintage', ledger, ledger')
    BY DEF Elsewhere
  <1> QED BY <1>0, <1>2, <1>3, <1>4, StandsNow, RequestKeeps

LEMMA RecomputePostalsKeeps ==
  ASSUME RefreshInv, RecomputePostals
  PROVE  RefreshInv'
  <1>1. run.phase \in Filling \ {"aggregates"} /\ "suggest" \in Filling \ {"aggregates"}
    BY DEF RecomputePostals, Filling
  <1>2. /\ UNCHANGED <<rows, centroids, ranges, ledger, keyVintage>>
        /\ Goes([run EXCEPT !.phase = "suggest", !.attempts = 0]) \/ Goes(AfterFailure)
    BY DEF RecomputePostals, Request, Succeeds, Fails, tables
  <1> QED BY <1>1, <1>2, LaterKeeps

LEMMA RebuildSuggestKeeps ==
  ASSUME RefreshInv, RebuildSuggest
  PROVE  RefreshInv'
  <1>1. run.phase = "suggest" /\ "provenance" \in Filling \ {"aggregates"}
    BY DEF RebuildSuggest, Filling
  <1>2. run.phase \in Filling \ {"aggregates"} /\ run.phase # "idle"
    BY <1>1 DEF Filling
  <1>3. UNCHANGED <<rows, centroids, ranges, ledger, keyVintage>>
    BY DEF RebuildSuggest, Succeeds, Fails, tables
  <1>4. CASE Goes([run EXCEPT !.phase = "provenance", !.attempts = 0])
    BY <1>1, <1>2, <1>3, <1>4, LaterKeeps
  <1>5. CASE Goes([run EXCEPT !.attempts = @ + 1])
    <2> PICK y : y = [run EXCEPT !.attempts = @ + 1]
      OBVIOUS
    <2>1. y \in RunRecords /\ Alike(run, y) /\ y.vintage = run.vintage
      BY StandsNow, AgainFacts DEF Alike
    <2>2. Stands(run, rows', centroids', ranges', ledger', open)
      BY <1>3, StandsNow
    <2>3. Stands(y, rows', centroids', ranges', ledger', open)
      BY <2>1, <2>2, StandsAlike
    <2>4. Elsewhere(run.city, rows, rows', centroids, centroids', ranges, ranges',
                    keyVintage, keyVintage', ledger, ledger')
      BY <1>3 DEF Elsewhere
    <2>5. Goes(y)
      BY <1>5
    <2> QED BY <1>2, <1>3, <2>1, <2>3, <2>4, <2>5, StandsNow, GoesKeeps
  <1> QED BY <1>4, <1>5 DEF RebuildSuggest, Succeeds, Fails

LEMMA RecordImportKeeps ==
  ASSUME RefreshInv, RecordImport
  PROVE  RefreshInv'
  <1> PICK y : y = [run EXCEPT !.phase = "keys", !.attempts = 0]
    OBVIOUS
  <1>0. run.phase = "provenance" /\ "keys" \in Phases
    BY DEF RecordImport, Phases, Filling
  <1>1. y.phase = "keys" /\ SameRun(run, y) /\ y.city = run.city /\ y.vintage = run.vintage
    BY <1>0, StandsNow, PhaseFacts
  <1>2. /\ UNCHANGED <<rows, centroids, ranges, keyVintage>>
        /\ \/ ledger' = Recorded /\ Goes(y)
           \/ (ledger' = Recorded \/ ledger' = ledger) /\ Goes(AfterFailure)
    BY DEF RecordImport, Request, Succeeds, Fails, tables
  <1>3. /\ run.city \in open /\ ledger[run.city] \subseteq 1 .. run.vintage
        /\ run.vintage \in Vintages /\ run.vintage <= release /\ release \in Vintages
    BY <1>0, StandsNow DEF Stands, LedgerStands, RunRecords, RefreshInv, RefreshTypes
  <1>4. /\ Recorded[run.city] = ledger[run.city] \cup {run.vintage}
        /\ Recorded[run.city] \subseteq 1 .. run.vintage /\ run.vintage \in Recorded[run.city]
        /\ \A d \in Cities \ {run.city} : Recorded[d] = ledger[d]
        /\ Ledgers(Recorded, release)
    <2>1. DOMAIN ledger = Cities /\ run.city \in Cities
      BY StandsNow DEF Ledgers
    <2>2. DOMAIN Recorded = Cities
      BY <2>1 DEF Recorded
    <2>3. Recorded[run.city] = ledger[run.city] \cup {run.vintage}
      BY <2>1 DEF Recorded
    <2>4. \A d \in Cities \ {run.city} : Recorded[d] = ledger[d]
      BY <2>1 DEF Recorded
    <2>5. run.vintage \in 1 .. run.vintage /\ run.vintage \in 1 .. release
      BY <1>3, Bounds DEF Vintages
    <2> QED BY <1>3, <2>2, <2>3, <2>4, <2>5, StandsNow DEF Ledgers
  <1>5. Ledgers(ledger', release)
    BY <1>2, <1>4, StandsNow
  <1>6. Elsewhere(run.city, rows, rows', centroids, centroids', ranges, ranges',
                  keyVintage, keyVintage', ledger, ledger')
    BY <1>2, <1>4 DEF Elsewhere
  <1>7. RowsStand(run, rows') /\ TablesStand(run, centroids', ranges')
    BY <1>2, StandsNow DEF Stands
  <1>8. LedgerStands(run, ledger', open)
    BY <1>0, <1>2, <1>3, <1>4 DEF LedgerStands
  <1>9. CASE ledger' = Recorded /\ Goes(y)
    <2>1. RowsStand(y, rows')
      BY <1>0, <1>1, <1>7, SameRunFacts DEF RowsStand, Sweeping, Filling
    <2>2. TablesStand(y, centroids', ranges')
      BY <1>0, <1>1, <1>7, SameRunFacts DEF TablesStand, Filling
    <2>3. LedgerStands(y, ledger', open)
      BY <1>1, <1>3, <1>4, <1>9 DEF LedgerStands
    <2>4. Stands(y, rows', centroids', ranges', ledger', open)
      BY <2>1, <2>2, <2>3 DEF Stands
    <2> QED BY <1>0, <1>2, <1>5, <1>6, <1>9, <2>4, StandsNow, RequestKeeps
  <1>10. CASE Goes(AfterFailure)
    <2>1. Stands(run, rows', centroids', ranges', ledger', open)
      BY <1>7, <1>8 DEF Stands
    <2> QED BY <1>0, <1>2, <1>5, <1>6, <1>10, <2>1, StandsNow, RequestKeeps
  <1> QED BY <1>2, <1>9, <1>10

(* The rows of a scope that a chunk leaves. *)
LEMMA ChunkFacts ==
  ASSUME RefreshInv, run.phase = "delete"
  PROVE  /\ Doomed \subseteq Old(run, rows)
         /\ IsFiniteSet(Old(run, rows \ Doomed))
         /\ Cardinality(Old(run, rows \ Doomed)) \in Nat
         /\ Cardinality(Old(run, rows \ Doomed)) <= ChunkRows * run.chunks
         /\ IF run.chunks = 1
            THEN Old(run, rows \ Doomed) = {}
            ELSE Cardinality(Old(run, rows \ Doomed)) <= ChunkRows * (run.chunks - 1)
  <1> DEFINE S == Old(run, rows)
             f == [r \in S |-> r.id]
             b == ChunkRows * run.chunks
             rest == Rest(S, f, ChunkRows)
  <1>1. /\ run.chunks \in Int /\ run.chunks > 0 /\ ChunkRows \in Nat \ {0} /\ Cardinality(S) <= b
        /\ Sound(rows)
    BY StandsNow, Bounds DEF Stands, RowsStand, RunRecords
  <1>2. IsFiniteSet(S) /\ S \subseteq rows
    <2>1. S \in SUBSET rows
      BY DEF Old, Among
    <2> QED BY <1>1, <2>1, FS_Subset DEF Sound
  <1>3. b \in Nat
    BY <1>1
  <1>4. /\ \A x \in S : f[x] \in Int
        /\ \A x, y \in S : f[x] = f[y] => x = y
    BY <1>1, <1>2 DEF Sound
  <1>5. \A x \in S : RankedBefore(S, f, x) = {o \in S : o.id < x.id}
    BY DEF RankedBefore
  <1>6. S = {r \in InScope(run.city) : r.id < run.first}
    BY DEF Old, Among, InScope
  <1> HIDE DEF S, f, b
  <1>7. /\ IsFiniteSet(rest) /\ Cardinality(rest) \in Nat
        /\ Cardinality(rest) <= (IF b <= ChunkRows THEN 0 ELSE b - ChunkRows)
    <2>1. ChunkRows \in Nat /\ Cardinality(S) <= b
      BY <1>1
    <2> QED BY <1>2, <1>3, <1>4, <2>1, FirstOnes
  <1>8. Doomed = {r \in S : Cardinality({o \in S : o.id < r.id}) < ChunkRows}
    BY <1>6 DEF Doomed
  <1>9. Old(run, rows \ Doomed) = rest
    <2>1. Old(run, rows \ Doomed) = {r \in S : r \notin Doomed}
      BY <1>6 DEF Old, Among, InScope
    <2>2. ASSUME NEW r \in S
          PROVE  r \notin Doomed <=> ~(Cardinality(RankedBefore(S, f, r)) < ChunkRows)
      BY <1>5, <1>8, <2>2
    <2> QED BY <2>1, <2>2 DEF Rest
  <1> HIDE DEF rest
  <1>10. Doomed \subseteq S
    BY <1>8
  <1>11. CASE run.chunks = 1
    <2>1. b = ChunkRows
      BY <1>1, <1>11 DEF b
    <2>2. Cardinality(rest) = 0 /\ 0 <= b
      BY <1>1, <1>7, <2>1
    <2>3. rest = {}
      BY <1>7, <2>2, FS_EmptySet
    <2> QED BY <1>7, <1>9, <1>10, <1>11, <2>2, <2>3 DEF S, b
  <1>12. CASE run.chunks # 1
    <2>0. run.chunks - 1 \in Nat \ {0} /\ run.chunks = run.chunks - 1 + 1
      BY <1>1, <1>12
    <2>1. PICK c \in Nat \ {0} : run.chunks = c + 1
      BY <2>0
    <2>2. ChunkRows * (c + 1) = ChunkRows * c + ChunkRows /\ ChunkRows * c \in Nat
      BY <1>1
    <2>3. run.chunks - 1 = c /\ b = ChunkRows * c + ChunkRows
      BY <2>1, <2>2 DEF b
    <2>4. Cardinality(rest) <= ChunkRows * c
      BY <1>1, <1>7, <2>2, <2>3
    <2>5. Cardinality(rest) <= ChunkRows * run.chunks
      BY <1>1, <1>7, <2>1, <2>2, <2>4
    <2> QED BY <1>7, <1>9, <1>10, <1>12, <2>3, <2>4, <2>5 DEF S
  <1> QED BY <1>11, <1>12

LEMMA SoundSubset ==
  ASSUME NEW rs, Sound(rs), NEW rsn, rsn \subseteq rs
  PROVE  Sound(rsn)
  <1>1. rsn \in SUBSET rs
    OBVIOUS
  <1> QED BY <1>1, FS_Subset DEF Sound

LEMMA DeleteChunkKeeps ==
  ASSUME RefreshInv, DeleteChunk
  PROVE  RefreshInv'
  <1> PICK y : y = [run EXCEPT !.chunks = @ - 1, !.attempts = 0,
                               !.phase = IF run.chunks = 1 THEN "centroids" ELSE "delete"]
    OBVIOUS
  <1>0. run.phase = "delete" /\ run.phase # "idle" /\ run \in RunRecords
    BY StandsNow DEF DeleteChunk
  <1>1. /\ y \in RunRecords /\ SameRun(run, y) /\ y.city = run.city /\ y.vintage = run.vintage
        /\ y.chunks = run.chunks - 1 /\ y.sent = run.sent
        /\ y.phase = IF run.chunks = 1 THEN "centroids" ELSE "delete"
    <2>1. /\ y.city = run.city /\ y.vintage = run.vintage /\ y.reading = run.reading
          /\ y.first = run.first /\ y.chunks = run.chunks - 1 /\ y.sent = run.sent
          /\ y.phase = IF run.chunks = 1 THEN "centroids" ELSE "delete"
      BY <1>0 DEF RunRecords
    <2>2. y \in RunRecords
      <3>1. 0 \in Int /\ "centroids" \in Phases /\ "delete" \in Phases /\ run.chunks - 1 \in Int
        BY <1>0 DEF Phases, Sweeping, RunRecords
      <3> QED BY <1>0, <3>1 DEF RunRecords
    <2> QED BY <2>1, <2>2 DEF SameRun
  <1>2. UNCHANGED <<centroids, ranges, ledger, keyVintage>>
    BY DEF DeleteChunk, tables
  <1>3. /\ \/ rows' = rows \ Doomed /\ Goes(y)
           \/ (rows' = rows \ Doomed \/ rows' = rows) /\ Goes(AfterFailure)
    BY DEF DeleteChunk, Fails, tables
  <1>4. /\ Own(run, rows) = {} /\ run.chunks > 0 /\ run.chunks \in Int /\ run.sent = 0
        /\ Cardinality(Old(run, rows)) <= ChunkRows * run.chunks
        /\ LedgerStands(run, ledger, open) /\ Sound(rows)
    BY <1>0, StandsNow DEF Stands, RowsStand, Sweeping, RunRecords
  <1>5. rows' \subseteq rows /\ Sound(rows') /\ Own(run, rows') = {}
    <2>1. rows' \subseteq rows
      BY <1>3
    <2> QED BY <1>4, <2>1, SoundSubset DEF Own
  <1>6. Elsewhere(run.city, rows, rows', centroids, centroids', ranges, ranges',
                  keyVintage, keyVintage', ledger, ledger')
    <2>1. \A r \in Doomed : r.key \in Scope[run.city]
      BY DEF Doomed, InScope
    <2> QED BY <1>2, <1>3, <2>1 DEF Elsewhere
  <1>7. CASE rows' = rows \ Doomed /\ Goes(y)
    <2>1. RowsStand(y, rows')
      <3>1. Own(y, rows') = {} /\ Old(y, rows') = Old(run, rows \ Doomed)
        BY <1>1, <1>5, <1>7, SameRunFacts
      <3>2. CASE run.chunks = 1
        BY <1>0, <1>1, <1>4, <3>1, <3>2, ChunkFacts DEF RowsStand, Sweeping, Filling
      <3>3. CASE run.chunks # 1
        <4>1. y.chunks > 0 /\ y.phase = "delete"
          BY <1>1, <1>4, <3>3
        <4>2. Cardinality(Old(y, rows')) <= ChunkRows * y.chunks
          BY <1>0, <1>1, <3>1, <3>3, ChunkFacts
        <4> QED BY <1>1, <1>4, <3>1, <4>1, <4>2 DEF RowsStand, Filling
      <3> QED BY <3>2, <3>3
    <2>2. TablesStand(y, centroids', ranges') /\ LedgerStands(y, ledger', open)
      BY <1>0, <1>1, <1>2, <1>4 DEF TablesStand, LedgerStands, Filling
    <2>3. Stands(y, rows', centroids', ranges', ledger', open)
      BY <2>1, <2>2 DEF Stands
    <2> QED BY <1>0, <1>1, <1>2, <1>5, <1>6, <1>7, <2>3, StandsNow, GoesKeeps
  <1>8. CASE (rows' = rows \ Doomed \/ rows' = rows) /\ Goes(AfterFailure)
    <2>1. RowsStand(run, rows')
      <3>1. Cardinality(Old(run, rows')) <= ChunkRows * run.chunks
        BY <1>0, <1>4, <1>8, ChunkFacts
      <3> QED BY <1>0, <1>4, <1>5, <3>1 DEF RowsStand, Filling
    <2>2. Stands(run, rows', centroids', ranges', ledger', open)
      BY <1>0, <1>2, <1>4, <2>1 DEF Stands, TablesStand, Filling
    <2> PICK z : z = AfterFailure
      OBVIOUS
    <2>3. z \in RunRecords /\ z.vintage = run.vintage /\ (z.phase = "idle" \/ Alike(run, z))
      BY <1>0, AfterFailureFacts
    <2>4. Stands(z, rows', centroids', ranges', ledger', open)
      BY <2>2, <2>3, StandsIdle, StandsAlike
    <2>5. Goes(z)
      BY <1>8
    <2> QED BY <1>0, <1>2, <1>5, <1>6, <2>3, <2>4, <2>5, StandsNow, GoesKeeps
  <1> QED BY <1>3, <1>7, <1>8

(* What a batch adds, of which no id is taken. *)
LEMMA BatchFacts ==
  ASSUME RefreshInv, run.phase = "insert", run.sent < Len(W), ~IdTaken,
         NEW m \in run.sent .. BatchEnd
  PROVE  /\ BatchEnd \in run.sent + 1 .. Len(W)
         /\ Own(run, rows) = Filed(run, run.sent)
         /\ \A s \in RowsTo(m) : /\ s.key \in Scope[run.city] /\ s.id >= run.first
                                 /\ s.id \in Int /\ Origin(s)
                                 /\ \E i \in run.sent + 1 .. m : s = FreshRow(run, i)
         /\ Own(run, rows \cup RowsTo(m)) = Filed(run, m)
         /\ Old(run, rows \cup RowsTo(m)) = {}
         /\ Sound(rows \cup RowsTo(m))
  <1>0. /\ run \in RunRecords /\ Sound(rows) /\ RowsStand(run, rows) /\ run.sent \in Nat
        /\ BatchSize \in Nat \ {0} /\ run.first \in Int
    BY StandsNow, Bounds DEF Stands, RunRecords
  <1>1. W = Fresh(run) /\ \A i : RowAt(i) = FreshRow(run, i)
    BY DEF W, Fresh, RowAt, FreshRow
  <1>2. Len(W) \in Nat /\ DOMAIN W = 1 .. Len(W)
    BY <1>0, <1>1, FreshFacts DEF Insertable
  <1>3. BatchEnd \in run.sent + 1 .. Len(W)
    BY <1>0, <1>2 DEF BatchEnd, Lesser
  <1>4. \A i \in 1 .. Len(W) :
          /\ FreshRow(run, i).id = run.first + i - 1 /\ FreshRow(run, i).id \in Int
          /\ FreshRow(run, i).key \in Scope[run.city] /\ Origin(FreshRow(run, i))
          /\ FreshRow(run, i).id >= run.first
    BY <1>0, <1>1, <1>2, FreshRows
  <1>5. RowsTo(m) = {FreshRow(run, i) : i \in run.sent + 1 .. m}
    BY <1>1 DEF RowsTo
  <1>6. m \in Nat /\ m <= Len(W) /\ run.sent <= m
    BY <1>0, <1>2, <1>3
  <1>7. Own(run, rows) = Filed(run, run.sent)
    <2>1. PICK n \in run.sent .. Len(W) : Own(run, rows) = Filed(run, n)
      BY <1>0, <1>1 DEF RowsStand
    <2>2. CASE n = run.sent
      BY <2>1, <2>2
    <2>3. CASE n # run.sent
      <3> DEFINE i == run.sent + 1
      <3>1. i \in 1 .. n /\ i \in run.sent + 1 .. BatchEnd
        BY <1>0, <1>2, <1>3, <2>1, <2>3
      <3>2. FreshRow(run, i) \in rows
        BY <2>1, <3>1 DEF Filed, Own
      <3>3. FreshRow(run, i) \in RowsTo(BatchEnd)
        BY <1>1, <3>1 DEF RowsTo
      <3> QED BY <3>2, <3>3 DEF IdTaken
    <2> QED BY <2>2, <2>3
  <1>8. \A s \in RowsTo(m) : \E i \in run.sent + 1 .. m : s = FreshRow(run, i) /\ i \in 1 .. Len(W)
    BY <1>0, <1>2, <1>5, <1>6
  <1>9. \A s \in RowsTo(m) : s.key \in Scope[run.city] /\ s.id >= run.first /\ s.id \in Int /\ Origin(s)
    BY <1>4, <1>8
  <1>10. Own(run, rows \cup RowsTo(m)) = Filed(run, m)
    <2>1. Own(run, rows \cup RowsTo(m)) = Own(run, rows) \cup RowsTo(m)
      BY <1>9 DEF Own
    <2>2. Filed(run, m) = Filed(run, run.sent) \cup RowsTo(m)
      <3>1. 1 .. m = (1 .. run.sent) \cup (run.sent + 1 .. m)
        BY <1>0, <1>6
      <3> QED BY <1>5, <3>1 DEF Filed
    <2> QED BY <1>7, <2>1, <2>2
  <1>11. Old(run, rows \cup RowsTo(m)) = {}
    <2>1. Old(run, rows) = {}
      BY <1>0 DEF RowsStand
    <2>2. \A s \in RowsTo(m) : ~(s.id < run.first)
      BY <1>0, <1>9
    <2> QED BY <2>1, <2>2 DEF Old, Among
  <1>12. Sound(rows \cup RowsTo(m))
    <2>1. IsFiniteSet(RowsTo(m))
      <3> DEFINE I == run.sent + 1 .. m
                 f == [i \in I |-> FreshRow(run, i)]
      <3>1. IsFiniteSet(I)
        <4>1. run.sent + 1 \in Int /\ m \in Int
          BY <1>0, <1>6
        <4> QED BY <4>1, FS_Interval
      <3>2. f \in Surjection(I, RowsTo(m))
        BY <1>5 DEF Surjection
      <3> QED BY <3>1, <3>2, FS_Surjection
    <2>2. IsFiniteSet(rows \cup RowsTo(m))
      BY <1>0, <2>1, FS_Union DEF Sound
    <2>3. ASSUME NEW r \in rows, NEW s \in RowsTo(m), r.id = s.id PROVE r = s
      <3>1. r \in Own(run, rows)
        BY <1>9, <2>3 DEF Own
      <3>2. PICK j \in 1 .. run.sent : r = FreshRow(run, j)
        BY <1>7, <3>1 DEF Filed
      <3>3. PICK i \in run.sent + 1 .. m : s = FreshRow(run, i) /\ i \in 1 .. Len(W)
        BY <1>8
      <3>4. j \in 1 .. Len(W)
        BY <1>0, <1>2, <1>6, <3>2
      <3>5. run.first + j - 1 = run.first + i - 1
        BY <1>4, <2>3, <3>2, <3>3, <3>4
      <3>6. j = i
        BY <1>0, <1>6, <3>2, <3>3, <3>5
      <3> QED BY <3>2, <3>3, <3>6
    <2>4. ASSUME NEW r \in RowsTo(m), NEW s \in RowsTo(m), r.id = s.id PROVE r = s
      <3>1. PICK i \in run.sent + 1 .. m : s = FreshRow(run, i) /\ i \in 1 .. Len(W)
        BY <1>8
      <3>2. PICK j \in run.sent + 1 .. m : r = FreshRow(run, j) /\ j \in 1 .. Len(W)
        BY <1>8
      <3>3. run.first + j - 1 = run.first + i - 1
        BY <1>4, <2>4, <3>1, <3>2
      <3>4. j = i
        BY <1>0, <1>6, <3>1, <3>2, <3>3
      <3> QED BY <3>1, <3>2, <3>4
    <2> QED BY <1>0, <1>9, <2>2, <2>3, <2>4 DEF Sound
  <1> QED BY <1>3, <1>7, <1>8, <1>9, <1>10, <1>11, <1>12

LEMMA InsertBatchKeeps ==
  ASSUME RefreshInv, InsertBatch
  PROVE  RefreshInv'
  <1> PICK y : y = [run EXCEPT !.sent = BatchEnd, !.attempts = 0]
    OBVIOUS
  <1>0. /\ run.phase = "insert" /\ run.phase # "idle" /\ run.sent < Len(W) /\ ~IdTaken
        /\ run \in RunRecords /\ run.sent \in Nat
    BY StandsNow DEF InsertBatch, RunRecords
  <1>1. Len(W) \in Nat /\ Len(Fresh(run)) = Len(W)
    <2>1. Len(Fresh(run)) \in Nat
      BY <1>0, FreshFacts DEF Insertable
    <2> QED BY <2>1 DEF W, Fresh
  <1>2. UNCHANGED <<centroids, ranges, ledger, keyVintage>>
    BY DEF InsertBatch
  <1>3. PICK m \in run.sent .. BatchEnd :
          /\ rows' = rows \cup RowsTo(m)
          /\ (m = BatchEnd /\ Goes(y)) \/ Goes(AfterFailure)
    <2>1. run.sent \in run.sent .. BatchEnd /\ BatchEnd \in run.sent .. BatchEnd
      <3>1. BatchEnd \in run.sent + 1 .. Len(W)
        <4>1. BatchSize \in Nat \ {0}
          BY Bounds
        <4> QED BY <1>0, <1>1, <4>1 DEF BatchEnd, Lesser
      <3> QED BY <1>0, <1>1, <3>1
    <2> QED BY <2>1 DEF InsertBatch, Fails
  <1>4. /\ BatchEnd \in run.sent + 1 .. Len(W) /\ m \in Nat /\ m <= Len(W) /\ run.sent <= m
        /\ BatchEnd \in Nat
    <2>1. BatchEnd \in run.sent + 1 .. Len(W)
      BY <1>0, BatchFacts
    <2> QED BY <1>0, <1>1, <1>3, <2>1
  <1>5. /\ Own(run, rows') = Filed(run, m) /\ Old(run, rows') = {} /\ Sound(rows')
        /\ \A s \in RowsTo(m) : s.key \in Scope[run.city]
    BY <1>0, <1>3, BatchFacts
  <1>6. Elsewhere(run.city, rows, rows', centroids, centroids', ranges, ranges',
                  keyVintage, keyVintage', ledger, ledger')
    BY <1>2, <1>3, <1>5 DEF Elsewhere
  <1>7. TablesStand(run, centroids', ranges') /\ LedgerStands(run, ledger', open)
    BY <1>2, StandsNow DEF Stands
  <1>8. CASE m = BatchEnd /\ Goes(y)
    <2>1. /\ y.phase = "insert" /\ y.sent = BatchEnd /\ SameRun(run, y) /\ y.city = run.city
          /\ y.vintage = run.vintage /\ y \in RunRecords
      <3>1. /\ y.city = run.city /\ y.vintage = run.vintage /\ y.reading = run.reading
            /\ y.first = run.first /\ y.phase = "insert" /\ y.sent = BatchEnd
        BY <1>0 DEF RunRecords
      <3>2. y \in RunRecords
        <4>1. 0 \in Int
          OBVIOUS
        <4> QED BY <1>0, <1>4, <4>1 DEF RunRecords
      <3> QED BY <3>1, <3>2 DEF SameRun
    <2>2. RowsStand(y, rows')
      <3>1. Own(y, rows') = Filed(y, m) /\ Old(y, rows') = {} /\ m \in y.sent .. Len(Fresh(y))
        <4>1. m \in y.sent .. Len(W)
          BY <1>1, <1>4, <1>8, <2>1
        <4> QED BY <1>1, <1>5, <2>1, <4>1, SameRunFacts
      <3> QED BY <2>1, <3>1 DEF RowsStand, Sweeping, Filling
    <2>3. TablesStand(y, centroids', ranges')
      BY <1>0, <1>7, <2>1, SameRunFacts DEF TablesStand, Filling
    <2>4. LedgerStands(y, ledger', open)
      BY <1>0, <1>7, <2>1 DEF LedgerStands
    <2>5. Stands(y, rows', centroids', ranges', ledger', open)
      BY <2>2, <2>3, <2>4 DEF Stands
    <2> QED BY <1>0, <1>2, <1>5, <1>6, <1>8, <2>1, <2>5, StandsNow, GoesKeeps
  <1>9. CASE Goes(AfterFailure)
    <2>1. RowsStand(run, rows')
      <3>1. m \in run.sent .. Len(Fresh(run))
        BY <1>0, <1>1, <1>4
      <3> QED BY <1>0, <1>5, <3>1 DEF RowsStand, Sweeping, Filling
    <2>2. Stands(run, rows', centroids', ranges', ledger', open)
      BY <1>7, <2>1 DEF Stands
    <2> PICK z : z = AfterFailure
      OBVIOUS
    <2>3. z \in RunRecords /\ z.vintage = run.vintage /\ (z.phase = "idle" \/ Alike(run, z))
      BY <1>0, AfterFailureFacts
    <2>4. Stands(z, rows', centroids', ranges', ledger', open)
      BY <2>2, <2>3, StandsIdle, StandsAlike
    <2>5. Goes(z)
      BY <1>9
    <2> QED BY <1>0, <1>2, <1>5, <1>6, <2>3, <2>4, <2>5, StandsNow, GoesKeeps
  <1> QED BY <1>3, <1>8, <1>9

LEMMA InsertRefusedKeeps ==
  ASSUME RefreshInv, InsertRefused
  PROVE  RefreshInv'
  <1>1. run.phase # "idle" /\ UNCHANGED <<rows, centroids, ranges, ledger, keyVintage>>
    BY DEF InsertRefused, tables
  <1>2. Goes(AfterFailure) /\ "insert" \in Phases
    BY DEF InsertRefused, Phases
  <1>3. /\ Sound(rows') /\ Ledgers(ledger', release)
        /\ Stands(run, rows', centroids', ranges', ledger', open)
        /\ Elsewhere(run.city, rows, rows', centroids, centroids', ranges, ranges',
                     keyVintage, keyVintage', ledger, ledger')
    BY <1>1, StandsNow
  <1> QED BY <1>1, <1>2, <1>3, RequestKeeps

LEMMA InsertedAllKeeps ==
  ASSUME RefreshInv, InsertedAll
  PROVE  RefreshInv'
  <1> PICK y : y = [run EXCEPT !.phase = "aggregates", !.attempts = 0]
    OBVIOUS
  <1>0. run.phase = "insert" /\ run.sent = Len(W) /\ run.phase # "idle" /\ "aggregates" \in Phases
    BY DEF InsertedAll, Phases, Filling
  <1>1. y.phase = "aggregates" /\ SameRun(run, y) /\ y.city = run.city /\ y.vintage = run.vintage
    BY <1>0, StandsNow, PhaseFacts
  <1>2. UNCHANGED <<rows, centroids, ranges, ledger, keyVintage>> /\ Goes(y)
    BY DEF InsertedAll, Succeeds, tables
  <1>3. /\ Sound(rows') /\ Ledgers(ledger', release)
        /\ Stands(run, rows', centroids', ranges', ledger', open)
        /\ Elsewhere(run.city, rows, rows', centroids, centroids', ranges, ranges',
                     keyVintage, keyVintage', ledger, ledger')
    BY <1>2, StandsNow
  <1>4. RowsStand(y, rows')
    <2>1. Len(Fresh(run)) = run.sent /\ run.sent \in Nat
      BY <1>0, StandsNow DEF W, Fresh, RunRecords
    <2>2. Own(run, rows') = Filed(run, Len(Fresh(run))) /\ Old(run, rows') = {}
      <3>1. PICK n \in run.sent .. Len(Fresh(run)) : Own(run, rows') = Filed(run, n)
        BY <1>0, <1>3 DEF Stands, RowsStand
      <3>2. n = Len(Fresh(run))
        BY <2>1, <3>1
      <3> QED BY <1>0, <1>3, <3>1, <3>2 DEF Stands, RowsStand
    <2> QED BY <1>1, <2>2, SameRunFacts DEF RowsStand, Sweeping
  <1>5. TablesStand(y, centroids', ranges')
    BY <1>0, <1>1, <1>3, SameRunFacts DEF Stands, TablesStand, Filling
  <1>6. LedgerStands(y, ledger', open)
    BY <1>0, <1>1, <1>3 DEF Stands, LedgerStands
  <1>7. Stands(y, rows', centroids', ranges', ledger', open)
    BY <1>4, <1>5, <1>6 DEF Stands
  <1> QED BY <1>0, <1>2, <1>3, <1>7, RequestKeeps

(* As many rows as entries they are made from. *)
LEMMA FiledCount ==
  ASSUME NEW x \in RunRecords, NEW I \in SUBSET DOMAIN Fresh(x)
  PROVE  Cardinality({FreshRow(x, i) : i \in I}) = Cardinality(I)
  <1> DEFINE T == {FreshRow(x, i) : i \in I}
             f == [i \in I |-> FreshRow(x, i)]
  <1>0. Len(Fresh(x)) \in Nat /\ DOMAIN Fresh(x) = 1 .. Len(Fresh(x))
    BY FreshFacts DEF Insertable
  <1>1. IsFiniteSet(I)
    <2>1. 1 \in Int /\ Len(Fresh(x)) \in Int
      BY <1>0
    <2>2. IsFiniteSet(DOMAIN Fresh(x))
      BY <1>0, <2>1, FS_Interval
    <2> QED BY <2>2, FS_Subset
  <1>2. f \in Surjection(I, T)
    BY DEF Surjection
  <1>3. f \in Injection(I, T)
    <2>1. f \in [I -> T]
      OBVIOUS
    <2>2. ASSUME NEW i \in I, NEW j \in I, f[i] = f[j] PROVE i = j
      <3>1. FreshRow(x, i).id = FreshRow(x, j).id
        BY <2>2
      <3>2. x.first + i - 1 = x.first + j - 1 /\ i \in Nat /\ j \in Nat /\ x.first \in Int
        BY <3>1, FreshRows, FreshFacts
      <3> QED BY <3>2
    <2> QED BY <2>1, <2>2 DEF Injection, IsInjective
  <1> HIDE DEF T, f
  <1>4. Cardinality(T) = Cardinality(I)
    BY <1>1, <1>2, <1>3, FS_Surjection
  <1> QED BY <1>4 DEF T

(* The city of a run that read the whole release and has come to its end. *)
LEMMA RunWhole ==
  ASSUME RefreshInv, run.phase = "keys", run.reading = "whole", NEW kv,
         \A k \in Scope[run.city] : kv[k] = run.vintage
  PROVE  WholeOf(run.city, run.vintage, rows, centroids, ranges, kv)
  <1> DEFINE ws == Fresh(run)
  <1>0. /\ run \in RunRecords /\ run.city \in Cities /\ ws = Located[run.vintage][run.city]["whole"]
        /\ Own(run, rows) = Filed(run, Len(ws)) /\ Old(run, rows) = {}
        /\ Counted(run, centroids) /\ Counted(run, ranges) /\ Sound(rows) /\ run.first \in Int
    BY StandsNow DEF Stands, RowsStand, TablesStand, Filling, Fresh, RunRecords
  <1>1. Len(ws) \in Nat /\ DOMAIN ws = 1 .. Len(ws)
    BY <1>0, FreshFacts DEF Insertable
  <1>2. \A i \in DOMAIN ws : /\ FreshRow(run, i).addr = ws[i].addr /\ FreshRow(run, i).key = ws[i].key
                             /\ FreshRow(run, i).key \in Scope[run.city]
                             /\ FreshRow(run, i).vintage = run.vintage
    BY <1>0, FreshRows
  <1>3. Among(run.city, rows) = {FreshRow(run, i) : i \in DOMAIN ws}
    <2>1. ASSUME NEW r \in Among(run.city, rows) PROVE \E i \in DOMAIN ws : r = FreshRow(run, i)
      <3>1. r \in rows /\ r.id \in Int /\ ~(r.id < run.first)
        BY <1>0, <2>1 DEF Among, Old, Sound
      <3>2. r \in Own(run, rows)
        BY <1>0, <3>1 DEF Own
      <3> QED BY <1>0, <1>1, <3>2 DEF Filed
    <2>2. ASSUME NEW i \in DOMAIN ws PROVE FreshRow(run, i) \in Among(run.city, rows)
      <3>1. FreshRow(run, i) \in Own(run, rows)
        BY <1>0, <1>1, <2>2 DEF Filed
      <3> QED BY <1>2, <3>1 DEF Own, Among
    <2> QED BY <2>1, <2>2
  <1>4. Cardinality(Among(run.city, rows)) = Len(ws)
    <2>1. Cardinality(DOMAIN ws) = Len(ws)
      <3>1. PICK l : l = Len(ws)
        OBVIOUS
      <3>2. l \in Nat /\ DOMAIN ws = 1 .. l /\ 1 \in Int
        BY <1>1, <3>1
      <3>3. Cardinality(1 .. l) = IF 1 > l THEN 0 ELSE l - 1 + 1
        BY <3>2, FS_Interval
      <3> QED BY <3>1, <3>2, <3>3
    <2>2. DOMAIN ws \in SUBSET DOMAIN Fresh(run)
      OBVIOUS
    <2> QED BY <1>0, <1>3, <2>1, <2>2, FiledCount
  <1>5. \A r \in Among(run.city, rows) : r.vintage = run.vintage
    BY <1>2, <1>3
  <1>6. \A e \in ToSet(ws) : \E r \in Among(run.city, rows) : r.addr = e.addr /\ r.key = e.key
    BY <1>2, <1>3 DEF ToSet
  <1>7. ASSUME NEW k \in Scope[run.city]
        PROVE  centroids[k] = Cardinality({r \in rows : r.key = k}) /\ ranges[k] = centroids[k]
    <2> DEFINE I == {i \in DOMAIN ws : ws[i].key = k}
    <2>1. {r \in rows : r.key = k} = {FreshRow(run, i) : i \in I}
      <3>1. {r \in rows : r.key = k} = {r \in Among(run.city, rows) : r.key = k}
        BY DEF Among
      <3> QED BY <1>2, <1>3, <3>1
    <2>2. I \in SUBSET DOMAIN Fresh(run)
      OBVIOUS
    <2> HIDE DEF I
    <2>3. Cardinality({FreshRow(run, i) : i \in I}) = Cardinality(I)
      BY <1>0, <2>2, FiledCount
    <2>4. FreshAt(run, k) = Cardinality(I)
      BY DEF FreshAt, I
    <2>5. centroids[k] = FreshAt(run, k) /\ ranges[k] = FreshAt(run, k)
      BY <1>0 DEF Counted
    <2> QED BY <2>1, <2>3, <2>4, <2>5
  <1> HIDE DEF ws
  <1> QED BY <1>0, <1>4, <1>5, <1>6, <1>7 DEF WholeOf

LEMMA RecordKeysKeeps ==
  ASSUME RefreshInv, RecordKeys
  PROVE  RefreshInv'
  <1> DEFINE stated == [k \in Keys |-> IF k \in Scope[run.city] THEN run.vintage ELSE keyVintage[k]]
  <1>0. /\ run.phase = "keys" /\ run.phase # "idle" /\ run \in RunRecords /\ run.city \in Cities
        /\ Scope[run.city] \subseteq Keys
    BY StandsNow, ScopesDisjoint DEF RecordKeys
  <1>1. UNCHANGED <<rows, centroids, ranges, ledger>> /\ release' = release
        /\ (keyVintage' = stated \/ keyVintage' = keyVintage)
    BY DEF RecordKeys, tables, Fails, Goes
  <1>2. Elsewhere(run.city, rows, rows', centroids, centroids', ranges, ranges',
                  keyVintage, keyVintage', ledger, ledger')
    BY <1>1 DEF Elsewhere
  <1>3. /\ Sound(rows') /\ Ledgers(ledger', release)
        /\ Stands(run, rows', centroids', ranges', ledger', open)
    BY <1>1, StandsNow
  <1>4. CASE Goes(AfterFailure)
    <2>1. "keys" \in Phases
      BY DEF Phases, Filling
    <2> QED BY <1>0, <1>2, <1>3, <1>4, <2>1, RequestKeeps
  <1>5. CASE /\ keyVintage' = stated /\ run' = Idle /\ staged' = Removed(run.vintage)
             /\ open' = open \ {run.city}
             /\ torn' = IF run.reading = "whole" THEN torn \ {run.city} ELSE torn \cup {run.city}
    <2>1. run' \in RunRecords /\ run'.phase = "idle"
      BY <1>0, <1>5, IdleFacts
    <2>2. staged' \in [Vintages -> Readings \cup {"none"}]
      BY <1>5 DEF RefreshInv, RefreshTypes, Removed
    <2>3. RefreshTypes'
      BY <1>1, <1>3, <2>1, <2>2 DEF RefreshInv, RefreshTypes
    <2>4. Stands(run', rows', centroids', ranges', ledger', open')
      BY <2>1, StandsIdle
    <2>5. \A d \in Cities \ {run.city} : d \in open \cup torn => d \in open' \cup torn'
      BY <1>5
    <2> PICK c \in Cities : c = run.city
      BY <1>0
    <2>6. ASSUME c \notin open' \cup torn'
          PROVE  WholeOf(c, Latest(c)', rows', centroids', ranges', keyVintage')
      <3>1. run.reading = "whole"
        BY <1>5, <2>6
      <3>2. Latest(c)' = run.vintage
        <4>1. run.vintage \in ledger[c] /\ ledger[c] \subseteq 1 .. run.vintage
              /\ run.vintage \in Nat
          BY <1>0, StandsNow, Bounds DEF Stands, LedgerStands, RunRecords, Vintages
        <4>2. \A u \in ledger[c] : u \in Nat /\ u <= run.vintage
          BY <4>1
        <4>3. \A v \in ledger[c] : (\A u \in ledger[c] : u <= v) <=> v = run.vintage
          <5>1. ASSUME NEW v \in ledger[c], \A u \in ledger[c] : u <= v
                PROVE  v = run.vintage
            <6>1. v \in Nat /\ v <= run.vintage /\ run.vintage <= v
              BY <4>1, <4>2, <5>1
            <6> QED BY <4>1, <6>1
          <5> QED BY <4>2, <5>1
        <4>4. (CHOOSE v \in ledger[c] : \A u \in ledger[c] : u <= v) = run.vintage
          BY <4>1, <4>2, <4>3
        <4> QED BY <1>1, <4>4 DEF Latest
      <3>3. \A k \in Scope[run.city] : stated[k] = run.vintage
        BY <1>0
      <3>4. WholeOf(run.city, run.vintage, rows, centroids, ranges, stated)
        <4> HIDE DEF stated
        <4> QED BY <1>0, <3>1, <3>3, RunWhole
      <3> QED BY <1>1, <1>5, <3>2, <3>4
    <2>7. DoneIsWhole'
      <3>1. DoneIsWhole
        BY DEF RefreshInv
      <3>2. ledger'[c] # {} /\ c \notin open' \cup torn' =>
              WholeOf(c, Latest(c)', rows', centroids', ranges', keyVintage')
        BY <2>6
      <3>3. \A d \in Cities \ {c} : d \in open \cup torn => d \in open' \cup torn'
        BY <2>5
      <3>4. Elsewhere(c, rows, rows', centroids, centroids', ranges, ranges',
                  keyVintage, keyVintage', ledger, ledger')
        BY <1>2
      <3> QED BY <3>1, <3>2, <3>3, <3>4, DoneElsewhere
    <2> QED BY <1>3, <2>3, <2>4, <2>7 DEF RefreshInv, Stands
  <1> QED BY <1>4, <1>5 DEF RecordKeys, Fails

-----------------------------------------------------------------------------
(* What begins and ends a run *)

LEMMA RefreshCityKeeps ==
  ASSUME RefreshInv, NEW c \in Cities, NEW force, RefreshCity(c, force)
  PROVE  RefreshInv'
  <1>0. /\ UNCHANGED <<rows, centroids, ranges, keyVintage, ledger, torn, release>>
        /\ run.phase = "idle"
    BY DEF RefreshCity, tables
  <1>1. Unpacked \in Readings /\ release \in Vintages
    BY DEF RefreshInv, RefreshTypes, Unpacked, Readings
  <1>2. Sound(rows') /\ Ledgers(ledger', release') /\ Sound(rows) /\ Ledgers(ledger, release)
    BY <1>0, StandsNow
  <1>3. CASE /\ run' = [phase |-> "delete", city |-> c, vintage |-> release, reading |-> Unpacked,
                        first |-> NextId, chunks |-> ChunksFor(Cardinality(InScope(c))),
                        sent |-> 0, attempts |-> 0]
             /\ staged' = [staged EXCEPT ![release] = Unpacked]
             /\ open' = open \cup {c}
    <2>1. /\ IsFiniteSet(InScope(c)) /\ Cardinality(InScope(c)) \in Nat
      <3>1. InScope(c) \in SUBSET rows
        BY DEF InScope
      <3> QED BY <1>2, <3>1, FS_Subset, FS_CardinalityType DEF Sound
    <2> PICK first, chunks : first = NextId /\ chunks = ChunksFor(Cardinality(InScope(c)))
      OBVIOUS
    <2>2. first \in Int /\ \A r \in rows : r.id < first
      BY <1>2, NextIdFacts
    <2>3. chunks \in Nat /\ chunks > 0 /\ Cardinality(InScope(c)) <= ChunkRows * chunks
      BY <2>1, ChunksSuffice
    <2>4. /\ run'.phase = "delete" /\ run'.city = c /\ run'.vintage = release /\ run'.first = first
          /\ run'.chunks = chunks /\ run'.sent = 0
      BY <1>3
    <2>5. run' \in RunRecords
      <3>1. "delete" \in Phases /\ 0 \in Nat /\ 0 \in Int /\ chunks \in Int
        BY <2>3 DEF Phases, Sweeping
      <3> QED BY <1>1, <1>3, <2>2, <3>1 DEF RunRecords
    <2>6. staged' \in [Vintages -> Readings \cup {"none"}]
      BY <1>1, <1>3 DEF RefreshInv, RefreshTypes
    <2>7. release \in Nat
      BY <1>1, Bounds DEF Vintages
    <2>8. RefreshTypes'
      BY <1>0, <1>1, <1>2, <2>4, <2>5, <2>6, <2>7 DEF RefreshTypes
    <2>9. RowsStand(run', rows')
      <3>1. Own(run', rows') = {}
        BY <1>0, <1>2, <2>2, <2>4 DEF Own, Sound
      <3>2. Cardinality(Old(run', rows')) <= ChunkRows * chunks
        <4>1. Old(run', rows') \in SUBSET InScope(c)
          BY <1>0, <2>4 DEF Old, Among, InScope
        <4>2. IsFiniteSet(Old(run', rows'))
              /\ Cardinality(Old(run', rows')) <= Cardinality(InScope(c))
          BY <2>1, <4>1, FS_Subset
        <4>3. Cardinality(Old(run', rows')) \in Nat
          BY <4>2, FS_CardinalityType
        <4>4. ChunkRows * chunks \in Nat
          BY <2>3, Bounds
        <4> QED BY <2>1, <2>3, <4>2, <4>3, <4>4
      <3> QED BY <2>3, <2>4, <3>1, <3>2 DEF RowsStand, Filling
    <2>10. TablesStand(run', centroids', ranges')
      BY <2>4 DEF TablesStand, Filling
    <2>11. LedgerStands(run', ledger', open')
      BY <1>0, <1>2, <1>3, <2>4 DEF LedgerStands, Ledgers
    <2>12. DoneIsWhole'
      BY <1>0, <1>3, DoneUnchanged DEF RefreshInv
    <2> QED BY <1>2, <2>8, <2>9, <2>10, <2>11, <2>12 DEF RefreshInv
  <1>4. CASE staged' = Removed(release) /\ UNCHANGED <<run, open>>
    <2>1. staged' \in [Vintages -> Readings \cup {"none"}]
      BY <1>4 DEF RefreshInv, RefreshTypes, Removed
    <2>2. RefreshTypes'
      BY <1>0, <1>4, <2>1 DEF RefreshInv, RefreshTypes
    <2>3. DoneIsWhole'
      BY <1>0, <1>4, DoneUnchanged DEF RefreshInv
    <2> QED BY <1>0, <1>4, <2>2, <2>3 DEF RefreshInv
  <1> QED BY <1>3, <1>4 DEF RefreshCity

LEMMA DailyRunKeeps ==
  ASSUME RefreshInv, DailyRun
  PROVE  RefreshInv'
  <1>1. PICK i \in DOMAIN Queue : RefreshCity(Queue[i], FALSE)
    BY DEF DailyRun, Unfinished
  <1>2. Queue[i] \in Cities
    BY Bounds, LenProperties, ElementOfSeq
  <1> QED BY <1>1, <1>2, RefreshCityKeeps

(* A step that leaves the tables alone, and ends a run or none. *)
LEMMA QuietKeeps ==
  ASSUME RefreshInv, UNCHANGED <<tables, open, torn>>,
         \/ run' = run
         \/ run'.phase = "idle" /\ run' \in RunRecords,
         staged' \in [Vintages -> Readings \cup {"none"}],
         release' \in Vintages, release <= release'
  PROVE  RefreshInv'
  <1>0. UNCHANGED <<rows, centroids, ranges, keyVintage, ledger>>
    BY DEF tables
  <1>1. release \in Nat /\ release' \in Nat
    BY Bounds DEF RefreshInv, RefreshTypes, Vintages
  <1>2. Ledgers(ledger', release')
    BY <1>0, <1>1, StandsNow DEF Ledgers
  <1>3. run' \in RunRecords
    BY StandsNow
  <1>4. run'.phase # "idle" => run'.vintage <= release'
    <2>1. run.vintage \in Nat
      BY StandsNow, Bounds DEF RunRecords, Vintages
    <2> QED BY <1>1, <2>1 DEF RefreshInv, RefreshTypes
  <1>5. RefreshTypes'
    BY <1>2, <1>3, <1>4 DEF RefreshTypes
  <1>6. Stands(run', rows', centroids', ranges', ledger', open')
    <2>1. CASE run' = run
      BY <1>0, <2>1, StandsNow
    <2>2. CASE run'.phase = "idle"
      BY <2>2, StandsIdle
    <2> QED BY <2>1, <2>2
  <1>7. DoneIsWhole'
    BY <1>0, DoneUnchanged DEF RefreshInv
  <1> QED BY <1>0, <1>5, <1>6, <1>7, StandsNow DEF RefreshInv, Stands

LEMMA DiesUnpackingKeeps ==
  ASSUME RefreshInv, DiesUnpacking
  PROVE  RefreshInv'
  <1>1. UNCHANGED <<tables, open, torn, run, release>>
    BY DEF DiesUnpacking
  <1>2. staged' \in [Vintages -> Readings \cup {"none"}]
    BY DEF DiesUnpacking, RefreshInv, RefreshTypes
  <1>3. release' \in Vintages /\ release <= release'
    BY <1>1, Bounds DEF RefreshInv, RefreshTypes, Vintages
  <1> QED BY <1>1, <1>2, <1>3, QuietKeeps

LEMMA DiesKeeps ==
  ASSUME RefreshInv, Dies
  PROVE  RefreshInv'
  <1>1. UNCHANGED <<tables, open, torn, staged, release>> /\ run' = Idle
    BY DEF Dies
  <1>2. run'.phase = "idle" /\ run' \in RunRecords
    BY <1>1, StandsNow, IdleFacts
  <1>3. release' \in Vintages /\ release <= release'
    BY <1>1, Bounds DEF RefreshInv, RefreshTypes, Vintages
  <1>4. staged' \in [Vintages -> Readings \cup {"none"}]
    BY <1>1 DEF RefreshInv, RefreshTypes
  <1> QED BY <1>1, <1>2, <1>3, <1>4, QuietKeeps

LEMMA NewReleaseKeeps ==
  ASSUME RefreshInv, NewRelease
  PROVE  RefreshInv'
  <1>1. UNCHANGED <<tables, open, torn, staged, run>>
    BY DEF NewRelease
  <1>3. release' \in Vintages /\ release <= release'
    BY Bounds DEF NewRelease, RefreshInv, RefreshTypes, Vintages
  <1>4. staged' \in [Vintages -> Readings \cup {"none"}]
    BY <1>1 DEF RefreshInv, RefreshTypes
  <1> QED BY <1>1, <1>3, <1>4, QuietKeeps

LEMMA RefreshNextKeeps ==
  ASSUME RefreshInv, [Next]_vars
  PROVE  RefreshInv'
  <1>1. CASE UNCHANGED vars
    <2>1. UNCHANGED <<tables, open, torn, staged, run, release>>
      BY <1>1 DEF vars
    <2>2. release' \in Vintages /\ release <= release'
      BY <2>1, Bounds DEF RefreshInv, RefreshTypes, Vintages
    <2>3. staged' \in [Vintages -> Readings \cup {"none"}]
      BY <2>1 DEF RefreshInv, RefreshTypes
    <2> QED BY <2>1, <2>2, <2>3, QuietKeeps
  <1>2. CASE Work
    BY <1>2, DeleteChunkKeeps, DeleteCentroidsKeeps, DeleteRangesKeeps, InsertBatchKeeps,
       InsertRefusedKeeps, InsertedAllKeeps, WriteAggregatesKeeps, RecomputePostalsKeeps,
       RebuildSuggestKeeps, RecordImportKeeps, RecordKeysKeeps DEF Work
  <1>3. CASE \E c \in Cities, force \in BOOLEAN : ManualRun(c, force)
    BY <1>3, RefreshCityKeeps DEF ManualRun
  <1> QED BY <1>1, <1>2, <1>3, DailyRunKeeps, DiesUnpackingKeeps, DiesKeeps, NewReleaseKeeps DEF Next

(* What was there before the first refresh stands. *)
LEMMA RefreshStarts ==
  ASSUME Init
  PROVE  RefreshInv
  <1>0. 1 \in Vintages /\ Queue[1] \in Cities
    BY Bounds, LenProperties, ElementOfSeq, EmptySeq DEF Vintages
  <1>1. run \in RunRecords /\ run.phase = "idle"
    <2>1. "idle" \in Phases /\ "whole" \in Readings /\ 1 \in Int /\ 0 \in Int /\ 0 \in Nat
      BY DEF Phases, Readings
    <2> QED BY <1>0, <2>1 DEF Init, RunRecords
  <1>2. RefreshTypes
    BY <1>0, <1>1 DEF Init, RefreshTypes, Ledgers
  <1>3. Sound(rows)
    <2>1. \A r \in Oda : Origin(r) /\ r.id \in Int
      BY OdaIsTable DEF Origin
    <2> QED BY <2>1, OdaIsTable, ListedOnce DEF Init, Sound
  <1>4. Stands(run, rows, centroids, ranges, ledger, open)
    BY <1>1, StandsIdle
  <1>5. DoneIsWhole
    BY DEF Init, DoneIsWhole
  <1> QED BY <1>2, <1>3, <1>4, <1>5 DEF RefreshInv, Stands

-----------------------------------------------------------------------------
(* What a refresh is to the import of the province *)

(* Without a run the tables stay, and only an insert adds rows. *)
LEMMA TablesNext ==
  ASSUME Next
  PROVE  /\ centroids' = centroids \/ DOMAIN centroids' = Keys
         /\ ranges' = ranges \/ DOMAIN ranges' = Keys
         /\ postals' = postals \/ DOMAIN postals' = Postals
         /\ run.phase = "idle" => UNCHANGED tables
         /\ InsertBatch \/ rows' \subseteq rows
  <1>1. CASE Work
    <2>1. run.phase # "idle"
      BY <1>1 DEF Work, DeleteChunk, DeleteCentroids, DeleteRanges, InsertBatch, InsertRefused,
         InsertedAll, WriteAggregates, RecomputePostals, RebuildSuggest, RecordImport, RecordKeys
    <2>2. CASE DeleteChunk \/ DeleteCentroids \/ DeleteRanges
      BY <2>1, <2>2 DEF DeleteChunk, DeleteCentroids, DeleteRanges, Request, Cleared, tables
    <2>3. CASE InsertBatch \/ InsertRefused \/ InsertedAll
      BY <2>1, <2>3 DEF InsertBatch, InsertRefused, InsertedAll, tables
    <2>4. CASE WriteAggregates \/ RecomputePostals
      BY <2>1, <2>4 DEF WriteAggregates, RecomputePostals, Recounted, Request, tables
    <2>5. CASE RebuildSuggest \/ RecordImport \/ RecordKeys
      BY <2>1, <2>5 DEF RebuildSuggest, RecordImport, RecordKeys, Request, tables
    <2> QED BY <1>1, <2>2, <2>3, <2>4, <2>5 DEF Work
  <1>2. CASE ~Work
    <2>1. UNCHANGED tables
      BY <1>2 DEF Next, DailyRun, ManualRun, RefreshCity, DiesUnpacking, Dies, NewRelease
    <2> QED BY <2>1 DEF tables
  <1> QED BY <1>1, <1>2

(* The address of an entry is nowhere but in its city. *)
LEMMA AddressStays ==
  ASSUME NEW c \in Cities, NEW e \in Listed(c), NEW r, Origin(r), r.addr = e.addr
  PROVE  r.key \in Scope[c]
  <1>1. CASE \E o \in Oda : r.addr = o.addr /\ r.key = o.key
    BY <1>1, ListedOnce
  <1>2. CASE \E d \in Cities : \E f \in Listed(d) : r.addr = f.addr /\ r.key = f.key
    <2> PICK d \in Cities : \E f \in Listed(d) : r.addr = f.addr /\ r.key = f.key
      BY <1>2
    <2>1. PICK f \in Listed(d) : r.addr = f.addr /\ r.key = f.key
      OBVIOUS
    <2>2. c = d
      BY <2>1, ListedOnce
    <2>3. f.key \in Scope[d]
      BY <2>1, ReleasesMatchScope DEF Listed
    <2> QED BY <2>1, <2>2, <2>3
  <1> QED BY <1>1, <1>2 DEF Origin

LEMMA InsertNeverDoubles ==
  ASSUME RefreshInv, NeverDoubleServed, InsertBatch
  PROVE  NeverDoubleServed'
  <1>0. /\ run.phase = "insert" /\ run.sent < Len(W) /\ ~IdTaken /\ run \in RunRecords
        /\ run.sent \in Nat /\ run.city \in Cities /\ Sound(rows) /\ Old(run, rows) = {}
    BY StandsNow DEF InsertBatch, RunRecords, Stands, RowsStand
  <1>1. Len(W) \in Nat /\ W = Fresh(run) /\ DOMAIN W = 1 .. Len(W)
        /\ \A i, j \in DOMAIN W : W[i].addr = W[j].addr => i = j
    <2>1. W = Fresh(run)
      BY DEF W, Fresh
    <2> QED BY <1>0, <2>1, FreshFacts DEF Insertable
  <1>2. run.sent \in run.sent .. BatchEnd /\ BatchEnd \in run.sent .. BatchEnd
    <2>1. BatchEnd \in run.sent + 1 .. Len(W)
      BY <1>0, <1>1, Bounds DEF BatchEnd, Lesser
    <2> QED BY <1>0, <1>1, <2>1
  <1>3. PICK m \in run.sent .. BatchEnd : rows' = rows \cup RowsTo(m)
    BY <1>2 DEF InsertBatch
  <1>4. /\ BatchEnd \in run.sent + 1 .. Len(W) /\ Own(run, rows) = Filed(run, run.sent)
        /\ \A s \in RowsTo(m) : \E i \in run.sent + 1 .. m : s = FreshRow(run, i)
        /\ Sound(rows')
    BY <1>0, <1>3, BatchFacts
  <1>5. m \in Nat /\ m <= Len(W)
    BY <1>0, <1>1, <1>3, <1>4
  <1>6. \A s \in RowsTo(m) : \E i \in DOMAIN W : i > run.sent /\ s = FreshRow(run, i)
    <2>1. \A i \in run.sent + 1 .. m : i \in DOMAIN W /\ i > run.sent
      BY <1>0, <1>1, <1>5
    <2> QED BY <1>4, <2>1
  <1>7. \A i \in DOMAIN W : FreshRow(run, i).addr = W[i].addr /\ W[i] \in Listed(run.city)
    BY <1>0, <1>1, FreshRows
  <1>8. ASSUME NEW r \in rows, NEW s \in RowsTo(m), r.addr = s.addr
        PROVE  FALSE
    <2>1. PICK i \in DOMAIN W : i > run.sent /\ s = FreshRow(run, i)
      BY <1>6
    <2>2. r.addr = W[i].addr /\ Origin(r) /\ r.id \in Int
      BY <1>0, <1>7, <1>8, <2>1 DEF Sound
    <2>3. r \in Among(run.city, rows)
      BY <1>0, <1>7, <2>2, AddressStays DEF Among
    <2>4. r \in Own(run, rows)
      <3>1. run.first \in Int
        BY <1>0 DEF RunRecords
      <3> QED BY <1>0, <2>2, <2>3, <3>1 DEF Own, Old
    <2>5. PICK j \in 1 .. run.sent : r = FreshRow(run, j)
      BY <1>4, <2>4 DEF Filed
    <2>6. j \in DOMAIN W /\ j < i
      BY <1>0, <1>1, <2>1, <2>5
    <2>7. W[j].addr = W[i].addr
      BY <1>7, <2>2, <2>5, <2>6
    <2> QED BY <1>1, <2>6, <2>7
  <1>9. ASSUME NEW r \in RowsTo(m), NEW s \in RowsTo(m), r.addr = s.addr
        PROVE  r = s
    <2>1. PICK i \in DOMAIN W : s = FreshRow(run, i)
      BY <1>6
    <2>2. PICK j \in DOMAIN W : r = FreshRow(run, j)
      BY <1>6
    <2>3. W[i].addr = W[j].addr
      BY <1>7, <1>9, <2>1, <2>2
    <2> QED BY <1>1, <2>1, <2>2, <2>3
  <1>10. ASSUME NEW r \in rows', NEW s \in rows', r.addr = s.addr
         PROVE  r = s
    <2>1. CASE r \in rows /\ s \in rows
      BY <1>10, <2>1 DEF NeverDoubleServed
    <2>2. CASE r \in RowsTo(m) /\ s \in RowsTo(m)
      BY <1>9, <1>10, <2>2
    <2>3. CASE r \in rows /\ s \in RowsTo(m)
      BY <1>8, <1>10, <2>3
    <2>4. CASE s \in rows /\ r \in RowsTo(m)
      BY <1>8, <1>10, <2>4
    <2> QED BY <1>3, <2>1, <2>2, <2>3, <2>4
  <1> QED BY <1>4, <1>10 DEF NeverDoubleServed, Sound

LEMMA NextNeverDoubles ==
  ASSUME RefreshInv, NeverDoubleServed, [Next]_vars
  PROVE  NeverDoubleServed'
  <1>1. CASE rows' \subseteq rows
    BY <1>1 DEF NeverDoubleServed
  <1>2. CASE InsertBatch
    BY <1>2, InsertNeverDoubles
  <1>3. CASE UNCHANGED vars
    BY <1>1, <1>3 DEF vars, tables
  <1> QED BY <1>1, <1>2, <1>3, TablesNext

-----------------------------------------------------------------------------
(* The rows of the data set *)

(* A beginning of the data set has as many rows as that. *)
LEMMA BeginningCounts ==
  ASSUME NEW rs, NEW n \in Nat, Beginning(rs, n)
  PROVE  Cardinality(rs) = n /\ n <= Len(Csv)
  <1> DEFINE I == 1 .. n
             f == [i \in I |-> CHOOSE r \in rs : RowOf(r, i)]
  <1>0. /\ Len(Csv) \in Nat /\ DOMAIN Csv = 1 .. Len(Csv) /\ n <= Len(Csv)
        /\ \A i, j \in DOMAIN Csv : Csv[i].addr = Csv[j].addr => i = j
    BY CsvConstants, LenProperties DEF Beginning
  <1>1. /\ \A r \in rs : \E i \in I : RowOf(r, i)
        /\ \A r, s \in rs : r.addr = s.addr => r = s
        /\ \A i \in I : i \in DOMAIN Csv
    BY <1>0 DEF Beginning
  <1>2. \A i \in I : f[i] \in rs /\ RowOf(f[i], i)
    BY DEF Beginning
  <1> HIDE DEF f
  <1>3. f \in [I -> rs]
    <2>1. DOMAIN f = I /\ f = [i \in I |-> f[i]]
      BY DEF f
    <2> QED BY <1>2, <2>1
  <1>4. f \in Surjection(I, rs)
    <2>1. ASSUME NEW r \in rs PROVE \E i \in I : f[i] = r
      BY <1>1, <1>2 DEF RowOf
    <2> QED BY <1>3, <2>1 DEF Surjection
  <1>5. f \in Injection(I, rs)
    <2>1. ASSUME NEW i \in I, NEW j \in I, f[i] = f[j] PROVE i = j
      BY <1>0, <1>1, <1>2, <2>1 DEF RowOf
    <2> QED BY <1>3, <2>1 DEF Injection, IsInjective
  <1>6. IsFiniteSet(I) /\ Cardinality(I) = n
    <2>1. 1 \in Int /\ n \in Int
      OBVIOUS
    <2> QED BY <2>1, FS_Interval
  <1> HIDE DEF I
  <1>7. Cardinality(rs) = Cardinality(I)
    BY <1>4, <1>5, <1>6, FS_Surjection
  <1> QED BY <1>0, <1>6, <1>7

(* A beginning of the data set, its ids apart, is doubled nowhere. *)
LEMMA BeginningOnce ==
  ASSUME Sound(rows), NEW n, Beginning(rows, n)
  PROVE  NeverDoubleServed
  BY DEF Sound, Beginning, NeverDoubleServed

LEMMA CsvFacts ==
  /\ Len(Csv) \in Nat \ {0} /\ DOMAIN Csv = 1 .. Len(Csv)
  /\ \A i, j \in 1 .. Len(Csv) : Csv[i].addr = Csv[j].addr => i = j
  /\ \A r, i : i \in 1 .. Len(Csv) /\ RowOf(r, i) => Origin(r)
  <1>1. Len(Csv) \in Nat /\ DOMAIN Csv = 1 .. Len(Csv) /\ Csv # <<>>
    BY CsvConstants, LenProperties
  <1>2. Len(Csv) # 0
    BY <1>1, CsvConstants, EmptySeq
  <1>3. ASSUME NEW r, NEW i \in 1 .. Len(Csv), RowOf(r, i)
        PROVE  Origin(r)
    <2>1. \E o \in Oda : o.addr = Csv[i].addr /\ o.key = Csv[i].key
      <3> DEFINE o == [id |-> i, addr |-> Csv[i].addr, key |-> Csv[i].key,
                       postal |-> Csv[i].postal, vintage |-> 0]
      <3>1. o \in Oda
        BY <1>1, OdaIsImported
      <3> QED BY <3>1
    <2> QED BY <1>3, <2>1 DEF Origin, RowOf
  <1> QED BY <1>1, <1>2, <1>3, CsvConstants

LEMMA PutFacts ==
  ASSUME NEW ld \in LoadRecords, NEW m \in ld.sent .. Len(Csv)
  PROVE  /\ IsFiniteSet(Put(ld, m)) /\ ld.base \in Int /\ ld.sent \in Nat /\ m \in Nat
         /\ \A s \in Put(ld, m) : \E i \in ld.sent + 1 .. m :
              s = CsvAt(ld, i) /\ s.id = ld.base + i /\ RowOf(s, i) /\ i \in 1 .. Len(Csv)
         /\ \A i \in ld.sent + 1 .. m : \E s \in Put(ld, m) : RowOf(s, i)
  <1>0. ld.base \in Int /\ ld.sent \in Nat /\ Len(Csv) \in Nat /\ m \in Nat
    BY CsvFacts DEF LoadRecords
  <1> DEFINE I == ld.sent + 1 .. m
             f == [i \in I |-> CsvAt(ld, i)]
  <1>1. IsFiniteSet(I)
    <2>1. ld.sent + 1 \in Int /\ m \in Int
      BY <1>0
    <2> QED BY <2>1, FS_Interval
  <1>2. f \in Surjection(I, Put(ld, m))
    BY DEF Surjection, Put
  <1>3. IsFiniteSet(Put(ld, m))
    BY <1>1, <1>2, FS_Surjection
  <1>4. \A i \in I : CsvAt(ld, i).id = ld.base + i /\ RowOf(CsvAt(ld, i), i) /\ i \in 1 .. Len(Csv)
    BY <1>0 DEF CsvAt, RowOf
  <1> QED BY <1>0, <1>3, <1>4 DEF Put

(* Rows put after those there are. *)
LEMMA PutKeeps ==
  ASSUME NEW ld \in LoadRecords, NEW m \in ld.sent .. Len(Csv), NEW rs, Sound(rs),
         \A r \in rs : r.id <= ld.base + ld.sent
  PROVE  /\ Sound(rs \cup Put(ld, m)) /\ Uploaded(ld, rs \cup Put(ld, m), m)
         /\ \A r \in rs \cup Put(ld, m) : r.id <= ld.base + m
         /\ Beginning(rs, ld.sent) => Beginning(rs \cup Put(ld, m), m)
  <1> DEFINE new == Put(ld, m)
  <1>0. /\ IsFiniteSet(new) /\ ld.base \in Int /\ ld.sent \in Nat /\ m \in Nat /\ ld.sent <= m
        /\ \A s \in new : \E i \in ld.sent + 1 .. m :
              s = CsvAt(ld, i) /\ s.id = ld.base + i /\ RowOf(s, i) /\ i \in 1 .. Len(Csv)
        /\ \A i \in ld.sent + 1 .. m : \E s \in new : RowOf(s, i)
    BY PutFacts, CsvFacts
  <1> HIDE DEF new
  <1>7. ld.base \in Int /\ ld.sent \in Nat /\ m \in Nat /\ ld.sent <= m
    BY <1>0
  <1>1. \A s \in new : s.id \in Int /\ s.id > ld.base + ld.sent /\ s.id <= ld.base + m /\ Origin(s)
    <2>1. ASSUME NEW s \in new
          PROVE  s.id \in Int /\ s.id > ld.base + ld.sent /\ s.id <= ld.base + m /\ Origin(s)
      <3>1. PICK i \in ld.sent + 1 .. m : s.id = ld.base + i /\ RowOf(s, i) /\ i \in 1 .. Len(Csv)
        BY <1>0
      <3>2. Origin(s)
        BY <3>1, CsvFacts
      <3>3. s.id \in Int /\ s.id > ld.base + ld.sent /\ s.id <= ld.base + m
        BY <1>7, <3>1
      <3> QED BY <3>2, <3>3
    <2> QED BY <2>1
  <1>2. \A r \in rs : r.id \in Int
    BY DEF Sound
  <1>3. Sound(rs \cup new)
    <2>1. IsFiniteSet(rs \cup new)
      BY <1>0, FS_Union DEF Sound
    <2>2. ASSUME NEW r \in rs, NEW s \in new, r.id = s.id PROVE FALSE
      BY <1>0, <1>1, <1>2, <2>2
    <2>3. ASSUME NEW r \in new, NEW s \in new, r.id = s.id PROVE r = s
      <3>1. PICK i \in ld.sent + 1 .. m : r = CsvAt(ld, i) /\ r.id = ld.base + i
        BY <1>0
      <3>2. PICK j \in ld.sent + 1 .. m : s = CsvAt(ld, j) /\ s.id = ld.base + j
        BY <1>0
      <3>3. ld.base + i = ld.base + j /\ i \in Int /\ j \in Int
        BY <1>7, <2>3, <3>1, <3>2
      <3>4. i = j
        BY <1>7, <3>3
      <3> QED BY <3>1, <3>2, <3>4
    <2>4. ASSUME NEW r \in rs \cup new, NEW s \in rs \cup new, r.id = s.id PROVE r = s
      <3>1. CASE r \in rs /\ s \in rs
        BY <2>4, <3>1 DEF Sound
      <3>2. CASE r \in rs /\ s \in new
        BY <2>2, <2>4, <3>2
      <3>3. CASE r \in new /\ s \in rs
        BY <2>2, <2>4, <3>3
      <3>4. CASE r \in new /\ s \in new
        BY <2>3, <2>4, <3>4
      <3> QED BY <3>1, <3>2, <3>3, <3>4
    <2>5. \A r \in rs \cup new : r.id \in Int /\ Origin(r)
      BY <1>1 DEF Sound
    <2> QED BY <2>1, <2>4, <2>5 DEF Sound
  <1>4. {r \in rs \cup new : r.id > ld.base + ld.sent} = new
    <2>1. \A r \in rs : ~(r.id > ld.base + ld.sent)
      BY <1>0, <1>2
    <2> QED BY <1>1, <2>1
  <1>5. \A r \in rs \cup new : r.id <= ld.base + m
    BY <1>0, <1>1, <1>2
  <1>6. ASSUME Beginning(rs, ld.sent)
        PROVE  Beginning(rs \cup new, m)
    <2>1. /\ \A r \in rs : \E i \in 1 .. ld.sent : RowOf(r, i)
          /\ \A i \in 1 .. ld.sent : \E r \in rs : RowOf(r, i)
          /\ \A r, s \in rs : r.addr = s.addr => r = s
          /\ m \in 0 .. Len(Csv)
      BY <1>0, <1>6, CsvFacts DEF Beginning
    <2>2. \A i \in 1 .. ld.sent : i \in 1 .. m /\ i \in 1 .. Len(Csv)
      BY <1>0, CsvFacts
    <2>3. \A i \in ld.sent + 1 .. m : i \in 1 .. m /\ i \in 1 .. Len(Csv)
      BY <1>0, CsvFacts
    <2>4. \A r \in rs \cup new : \E i \in 1 .. m : RowOf(r, i)
      BY <1>0, <2>1, <2>2, <2>3
    <2>5. \A i \in 1 .. m : \E r \in rs \cup new : RowOf(r, i)
      <3>1. \A i \in 1 .. m : i \in 1 .. ld.sent \/ i \in ld.sent + 1 .. m
        BY <1>0
      <3> QED BY <1>0, <2>1, <3>1
    <2>6. ASSUME NEW r \in rs, NEW s \in new, r.addr = s.addr PROVE FALSE
      <3>1. PICK i \in 1 .. ld.sent : RowOf(r, i)
        BY <2>1
      <3>2. PICK j \in ld.sent + 1 .. m : RowOf(s, j)
        BY <1>0
      <3>3. Csv[i].addr = Csv[j].addr
        BY <2>6, <3>1, <3>2 DEF RowOf
      <3>4. i = j
        BY <2>2, <2>3, <3>3, CsvFacts
      <3> QED BY <1>0, <3>4
    <2>7. ASSUME NEW r \in new, NEW s \in new, r.addr = s.addr PROVE r = s
      <3>1. PICK i \in ld.sent + 1 .. m : RowOf(r, i) /\ r = CsvAt(ld, i)
        BY <1>0
      <3>2. PICK j \in ld.sent + 1 .. m : RowOf(s, j) /\ s = CsvAt(ld, j)
        BY <1>0
      <3>3. Csv[i].addr = Csv[j].addr
        BY <2>7, <3>1, <3>2 DEF RowOf
      <3>4. i = j
        BY <2>3, <3>3, CsvFacts
      <3> QED BY <3>1, <3>2, <3>4
    <2>8. ASSUME NEW r \in rs \cup new, NEW s \in rs \cup new, r.addr = s.addr PROVE r = s
      <3>1. CASE r \in rs /\ s \in rs
        BY <2>1, <2>8, <3>1
      <3>2. CASE r \in rs /\ s \in new
        BY <2>6, <2>8, <3>2
      <3>3. CASE r \in new /\ s \in rs
        BY <2>6, <2>8, <3>3
      <3>4. CASE r \in new /\ s \in new
        BY <2>7, <2>8, <3>4
      <3> QED BY <3>1, <3>2, <3>3, <3>4
    <2> QED BY <2>1, <2>4, <2>5, <2>8 DEF Beginning
  <1> QED BY <1>3, <1>4, <1>5, <1>6 DEF Uploaded, new

(* Where the next rows are all put, of a run that does not clear. *)
LEMMA NotTaken ==
  ASSUME LoadInv, Sound(rows), load.phase = "upload", ~Clears, ~RowTaken
  PROVE  /\ \A r \in rows : r.id <= load.base + load.sent
         /\ content = "file" => Beginning(rows, load.sent)
  <1>0. /\ load \in LoadRecords /\ load.sent < Len(Csv) /\ load.base \in Int /\ load.sent \in Nat
        /\ Len(Csv) \in Nat
    BY CsvFacts DEF LoadInv, LoadTypes, LoadRows, Uploading, LoadRecords
  <1>1. PICK n \in load.sent .. Len(Csv) :
          Uploaded(load, rows, n) /\ (content = "file" => Beginning(rows, n))
    BY DEF LoadInv, LoadRows, Uploading, Clears
  <1>2. n = load.sent
    <2>1. ASSUME n # load.sent PROVE FALSE
      <3> DEFINE i == load.sent + 1
      <3>1. i \in load.sent + 1 .. n
        BY <1>0, <1>1, <2>1
      <3>2. CsvAt(load, i) \in rows
        BY <1>1, <3>1 DEF Uploaded, Put
      <3>3. CsvAt(load, i).id = load.base + load.sent + 1
        BY <1>0 DEF CsvAt
      <3> QED BY <3>2, <3>3 DEF RowTaken
    <2> QED BY <2>1
  <1>3. Put(load, n) = {}
    BY <1>0, <1>2 DEF Put
  <1>4. \A r \in rows : r.id \in Int /\ ~(r.id > load.base + load.sent)
    BY <1>1, <1>3 DEF Uploaded, Sound
  <1> QED BY <1>0, <1>1, <1>2, <1>4

-----------------------------------------------------------------------------
(* The import of the province, step by step *)

LEMMA LoadRecordFacts ==
  ASSUME load \in LoadRecords
  PROVE  /\ NoLoad \in LoadRecords /\ NoLoad.phase = "idle" /\ NoLoad.how = load.how
         /\ load.base \in Int /\ load.sent \in Nat /\ load.phase \in LoadPhases
  <1>1. NoLoad.phase = "idle" /\ NoLoad.how = load.how
    BY DEF NoLoad, LoadRecords
  <1>2. NoLoad \in LoadRecords
    <2>1. "idle" \in LoadPhases /\ 0 \in Int /\ 0 \in Nat
      BY DEF LoadPhases
    <2> QED BY <2>1 DEF NoLoad, LoadRecords
  <1> QED BY <1>1, <1>2 DEF LoadRecords

SameLoad(x, y) == y.phase = x.phase /\ y.how = x.how /\ y.base = x.base /\ y.sent = x.sent

LEMMA LoadFailsFacts ==
  ASSUME load \in LoadRecords, LoadFails
  PROVE  /\ load' \in LoadRecords /\ finished' = finished
         /\ load'.phase = "idle" \/ SameLoad(load, load')
  <1>1. CASE load' = NoLoad
    BY <1>1, LoadRecordFacts DEF LoadFails
  <1>2. CASE load' = [load EXCEPT !.attempts = @ + 1]
    <2>1. SameLoad(load, load')
      BY <1>2 DEF LoadRecords, SameLoad
    <2>2. load' \in LoadRecords
      BY <1>2 DEF LoadRecords
    <2> QED BY <2>1, <2>2 DEF LoadFails
  <1> QED BY <1>1, <1>2 DEF LoadFails

LEMMA GoesOnFacts ==
  ASSUME load \in LoadRecords, NEW p \in LoadPhases, NEW n \in Nat, GoesOn(p, n)
  PROVE  /\ load' \in LoadRecords /\ load'.phase = p /\ load'.how = load.how
         /\ finished' = IF p = "idle" THEN load.how ELSE "none"
         /\ p # "idle" => load'.base = load.base /\ load'.sent = n
  <1>1. CASE p = "idle"
    BY <1>1, LoadRecordFacts DEF GoesOn
  <1>2. CASE p # "idle"
    <2>1. load' = [load EXCEPT !.phase = p, !.sent = n, !.attempts = 0]
      BY <1>2 DEF GoesOn
    <2>2. /\ load'.phase = p /\ load'.how = load.how /\ load'.base = load.base /\ load'.sent = n
      BY <2>1 DEF LoadRecords
    <2>3. load' \in LoadRecords
      <3>1. 0 \in Int
        OBVIOUS
      <3> QED BY <2>1, <3>1 DEF LoadRecords
    <2> QED BY <1>2, <2>2, <2>3 DEF GoesOn
  <1> QED BY <1>1, <1>2

LEMMA SameLoadFacts ==
  ASSUME NEW x, NEW y, SameLoad(x, y), NEW rs, NEW content0, NEW pt, NEW ct, NEW rg
  PROVE  /\ LoadRows(x, rs, content0) => LoadRows(y, rs, content0)
         /\ Deriving(x, pt, ct, rg) => Deriving(y, pt, ct, rg)
  <1>1. \A n : Uploaded(y, rs, n) <=> Uploaded(x, rs, n)
    BY DEF SameLoad, Uploaded, Put, CsvAt
  <1>2. LoadRows(x, rs, content0) => LoadRows(y, rs, content0)
    <2>1. Uploading(x, rs, content0) => Uploading(y, rs, content0)
      BY <1>1 DEF SameLoad, Uploading
    <2> QED BY <2>1 DEF SameLoad, LoadRows
  <1>3. Deriving(x, pt, ct, rg) => Deriving(y, pt, ct, rg)
    BY DEF SameLoad, Deriving
  <1> QED BY <1>2, <1>3

LEMMA NoLoadFacts ==
  ASSUME NEW x, x.phase = "idle", NEW rs, NEW content0, NEW pt, NEW ct, NEW rg,
         content0 = "file" => \E n \in Nat : Beginning(rs, n)
  PROVE  LoadRows(x, rs, content0) /\ Deriving(x, pt, ct, rg)
  BY DEF LoadRows, Uploading, Deriving

(* The refresh is not disturbed by what is done while none runs. *)
LEMMA AsideKeeps ==
  ASSUME RefreshInv, run.phase = "idle", UNCHANGED <<run, release, staged, ledger, torn>>,
         Sound(rows'),
         \/ open' = Cities
         \/ UNCHANGED <<rows, centroids, ranges, keyVintage>> /\ open \subseteq open'
  PROVE  RefreshInv'
  <1>1. RefreshTypes'
    BY DEF RefreshInv, RefreshTypes
  <1>2. Stands(run', rows', centroids', ranges', ledger', open')
    BY StandsIdle
  <1>3. DoneIsWhole'
    <2>1. CASE open' = Cities
      BY <2>1 DEF DoneIsWhole
    <2>2. CASE UNCHANGED <<rows, centroids, ranges, keyVintage>> /\ open \subseteq open'
      BY <2>2, DoneUnchanged DEF RefreshInv
    <2> QED BY <2>1, <2>2
  <1> QED BY <1>1, <1>2, <1>3 DEF RefreshInv, Stands

(* A step of a process that imports. *)
LEMMA LoadKeeps ==
  ASSUME ImportInv, load.phase # "idle", UNCHANGED <<run, release, staged, ledger, torn, open>>,
         load' \in LoadRecords, load'.phase # "index",
         load.phase = "index" => load'.phase = "idle" /\ UNCHANGED <<rows, centroids, ranges, keyVintage>>,
         content' \in {"file", "refreshed", "mixed"},
         DOMAIN postals' = Postals, DOMAIN centroids' = Keys, DOMAIN ranges' = Keys,
         Sound(rows'), content' # "mixed" => NeverDoubleServed',
         LoadRows(load', rows', content'), Deriving(load', postals', centroids', ranges'),
         finished' # "none" => load'.phase = "idle",
         finished' \in {"plain", "resume"} /\ content' = "file" => Beginning(rows', Len(Csv)),
         ImportedIsWhole'
  PROVE  ImportInv'
  <1>0. run.phase = "idle" /\ (load.phase # "index" => open = Cities)
    BY DEF ImportInv, LoadInv, LoadAlone
  <1>1. RefreshInv'
    <2>1. \/ open' = Cities
          \/ UNCHANGED <<rows, centroids, ranges, keyVintage>> /\ open \subseteq open'
      BY <1>0
    <2>2. RefreshInv
      BY DEF ImportInv
    <2> QED BY <1>0, <2>1, <2>2, AsideKeeps
  <1>2. LoadTypes'
    BY DEF LoadTypes
  <1>3. LoadAlone'
    BY <1>0 DEF LoadAlone
  <1>4. LoadInv'
    BY <1>2, <1>3 DEF LoadInv
  <1>5. NeverDoubled'
    BY DEF NeverDoubled
  <1> QED BY <1>1, <1>4, <1>5 DEF ImportInv

(* What is there before a step of a process that imports. *)
LEMMA LoadNow ==
  ASSUME ImportInv, load.phase # "idle"
  PROVE  /\ load \in LoadRecords /\ finished = "none" /\ Sound(rows) /\ run.phase = "idle"
         /\ content \in {"file", "refreshed", "mixed"}
         /\ DOMAIN postals = Postals /\ DOMAIN centroids = Keys /\ DOMAIN ranges = Keys
         /\ LoadRows(load, rows, content) /\ Deriving(load, postals, centroids, ranges)
         /\ content # "mixed" => NeverDoubleServed
  BY DEF ImportInv, RefreshInv, LoadInv, LoadTypes, LoadAlone, NeverDoubled

(* A step that fails, or is the process's last. *)
LEMMA LoadFailsKeeps ==
  ASSUME ImportInv, load.phase # "idle", load.phase # "index",
         UNCHANGED <<run, release, staged, ledger, torn, open>>,
         load' \in LoadRecords, load'.phase = "idle" \/ SameLoad(load, load'), finished' = finished,
         content' \in {"file", "refreshed", "mixed"},
         DOMAIN postals' = Postals, DOMAIN centroids' = Keys, DOMAIN ranges' = Keys,
         Sound(rows'), content' # "mixed" => NeverDoubleServed',
         LoadRows(load, rows', content'), Deriving(load, postals', centroids', ranges')
  PROVE  ImportInv'
  <1>1. finished' = "none"
    BY LoadNow
  <1>2. ImportedIsWhole'
    BY <1>1 DEF ImportedIsWhole
  <1>3. LoadRows(load', rows', content') /\ Deriving(load', postals', centroids', ranges')
    <2>1. CASE load'.phase = "idle"
      <3>1. content' = "file" => \E n \in Nat : Beginning(rows', n)
        BY DEF LoadRows
      <3> QED BY <2>1, <3>1, NoLoadFacts
    <2>2. CASE SameLoad(load, load')
      BY <2>2, SameLoadFacts
    <2> QED BY <2>1, <2>2
  <1>4. load'.phase # "index"
    BY DEF SameLoad
  <1> QED BY <1>1, <1>2, <1>3, <1>4, LoadKeeps

LEMMA UploadRefusedKeeps ==
  ASSUME ImportInv, UploadRefused
  PROVE  ImportInv'
  <1>1. /\ UNCHANGED <<rows, postals, centroids, ranges, content>>
        /\ UNCHANGED <<run, release, staged, ledger, torn, open>>
        /\ load.phase = "upload" /\ load.phase # "idle" /\ load.phase # "index" /\ LoadFails
    BY DEF UploadRefused, tables
  <1>2. /\ load' \in LoadRecords /\ finished' = finished
        /\ load'.phase = "idle" \/ SameLoad(load, load')
    BY <1>1, LoadNow, LoadFailsFacts
  <1>3. Sound(rows') /\ (content' # "mixed" => NeverDoubleServed')
    BY <1>1, LoadNow DEF NeverDoubleServed
  <1>4. LoadRows(load, rows', content') /\ Deriving(load, postals', centroids', ranges')
    BY <1>1, LoadNow
  <1>5. /\ content' \in {"file", "refreshed", "mixed"}
        /\ DOMAIN postals' = Postals /\ DOMAIN centroids' = Keys /\ DOMAIN ranges' = Keys
    BY <1>1, LoadNow
  <1> QED BY <1>1, <1>2, <1>3, <1>4, <1>5, LoadFailsKeeps

(* How far a file reaches, and how many of its statements are rows. *)
LEMMA FileFacts ==
  ASSUME load \in LoadRecords, load.sent < Len(Csv)
  PROVE  /\ UploadEnd \in load.sent + 1 .. Len(Csv) /\ UploadEnd \in Nat /\ load.sent \in Nat
         /\ FileLength \in Nat /\ Len(Csv) \in Nat
         /\ Clears => FileLength = UploadEnd + 4 /\ load.sent = 0
         /\ ~Clears => FileLength = UploadEnd - load.sent
  <1> DEFINE room == IF ~Clears THEN FileStatements
                     ELSE IF FileStatements > Deletions THEN FileStatements - Deletions ELSE 1
  <1>0. load.sent \in Nat /\ Len(Csv) \in Nat
    BY CsvFacts DEF LoadRecords
  <1>1. room \in Nat /\ room > 0
    BY CsvConstants DEF Deletions
  <1>2. UploadEnd = Lesser(load.sent + room, Len(Csv))
    BY DEF UploadEnd
  <1> HIDE DEF room
  <1>3. UploadEnd \in load.sent + 1 .. Len(Csv) /\ UploadEnd \in Nat
    BY <1>0, <1>1, <1>2 DEF Lesser
  <1>4. FileLength = UploadEnd - load.sent + (IF Clears THEN 4 ELSE 0)
    BY DEF FileLength, Deletions
  <1>5. Clears => load.sent = 0
    BY DEF Clears
  <1>6. (Clears => FileLength = UploadEnd + 4) /\ (~Clears => FileLength = UploadEnd - load.sent)
    BY <1>0, <1>3, <1>4, <1>5
  <1>7. FileLength \in Nat
    BY <1>0, <1>3, <1>6
  <1> QED BY <1>0, <1>3, <1>5, <1>6, <1>7

(* What a beginning of a file of addresses makes of the table. *)
LEMMA UploadsFacts ==
  ASSUME ImportInv, load.phase = "upload", ~RowTaken, NEW n \in 0 .. FileLength, Uploads(n)
  PROVE  /\ Sound(rows') /\ (content' # "mixed" => NeverDoubleServed')
         /\ content' \in {"file", "refreshed", "mixed"}
         /\ DOMAIN postals' = Postals /\ DOMAIN centroids' = Keys /\ DOMAIN ranges' = Keys
         /\ LoadRows(load, rows', content') /\ Deriving(load, postals', centroids', ranges')
         /\ n = FileLength =>
              /\ \A r \in rows' : r.id <= load.base + UploadEnd
              /\ content' = "file" => Beginning(rows', UploadEnd)
              /\ load.how = "plain" => /\ content' = "file"
                                       /\ Blank(postals') /\ Blank(centroids') /\ Blank(ranges')
              /\ load.how = "resume" => content' # "refreshed"
  <1>0. /\ load \in LoadRecords /\ load.sent < Len(Csv) /\ Sound(rows)
        /\ load.how \in {"plain", "resume"} /\ Uploading(load, rows, content)
        /\ content \in {"file", "refreshed", "mixed"} /\ LoadRows(load, rows, content)
        /\ DOMAIN postals = Postals /\ DOMAIN centroids = Keys /\ DOMAIN ranges = Keys
        /\ content # "mixed" => NeverDoubleServed
        /\ Deriving(load, postals, centroids, ranges)
    BY LoadNow DEF LoadRows, Uploading
  <1>1. /\ UploadEnd \in load.sent + 1 .. Len(Csv) /\ UploadEnd \in Nat /\ load.sent \in Nat
        /\ FileLength \in Nat /\ Len(Csv) \in Nat
        /\ Clears => FileLength = UploadEnd + 4 /\ load.sent = 0
        /\ ~Clears => FileLength = UploadEnd - load.sent
    BY <1>0, FileFacts
  <1>2. \A i : CsvRow(i) = CsvAt(load, i)
    BY DEF CsvRow, CsvAt
  <1>3. load.base \in Int
    BY <1>0 DEF LoadRecords
  <1>4. CASE Clears /\ n >= 1
    <2>1. PICK k \in 0 .. UploadEnd :
            /\ k = IF n > 4 THEN n - 4 ELSE 0
            /\ n = FileLength => k = UploadEnd
      BY <1>1, <1>4
    <2>2. rows' = {} \cup Put(load, k)
      <3>1. rows' = {} \cup {CsvRow(i) : i \in load.sent + 1 .. load.sent + k}
        BY <1>4, <2>1 DEF Uploads, Deletions
      <3>2. load.sent + k = k
        BY <1>1, <1>4, <2>1
      <3> QED BY <1>2, <3>1, <3>2 DEF Put
    <2>3. /\ content' = "file"
          /\ DOMAIN postals' = Postals /\ DOMAIN centroids' = Keys /\ DOMAIN ranges' = Keys
      BY <1>0, <1>4 DEF Uploads
    <2>4. n = FileLength => Blank(postals') /\ Blank(centroids') /\ Blank(ranges')
      BY <1>1, <1>4 DEF Uploads, Blank
    <2>5. k \in load.sent .. Len(Csv)
      BY <1>1, <1>4
    <2>6. Sound({}) /\ Beginning({}, load.sent) /\ \A r \in {} : r.id <= load.base + load.sent
      <3>1. IsFiniteSet({})
        BY FS_EmptySet
      <3> QED BY <1>1, <1>4, <3>1 DEF Sound, Beginning
    <2>7. /\ Sound({} \cup Put(load, k)) /\ Beginning({} \cup Put(load, k), k)
          /\ \A r \in {} \cup Put(load, k) : r.id <= load.base + k
      BY <1>0, <2>5, <2>6, PutKeeps
    <2>8. Sound(rows') /\ Beginning(rows', k) /\ \A r \in rows' : r.id <= load.base + k
      BY <2>2, <2>7
    <2>9. NeverDoubleServed'
      BY <2>8 DEF Sound, Beginning, NeverDoubleServed
    <2>10. LoadRows(load, rows', content')
      <3>1. \E m \in Nat : Beginning(rows', m)
        BY <1>1, <2>8
      <3> QED BY <1>0, <1>1, <1>4, <3>1 DEF LoadRows, Uploading, Clears
    <2>11. Deriving(load, postals', centroids', ranges')
      BY <1>1, <1>4 DEF Deriving
    <2> QED BY <1>0, <2>1, <2>3, <2>4, <2>8, <2>9, <2>10, <2>11
  <1>5. CASE Clears /\ ~(n >= 1)
    <2>1. n = 0 /\ n # FileLength
      BY <1>1, <1>5
    <2>2. /\ rows' = rows \cup {CsvRow(i) : i \in load.sent + 1 .. load.sent + 0}
          /\ postals' = postals /\ centroids' = centroids /\ ranges' = ranges /\ content' = content
      BY <1>5, <2>1 DEF Uploads, Deletions
    <2>3. load.sent + 1 .. load.sent + 0 = {}
      BY <1>1
    <2>4. rows' = rows
      BY <2>2, <2>3
    <2> QED BY <1>0, <2>1, <2>2, <2>4 DEF NeverDoubleServed
  <1>6. CASE ~Clears
    <2>1. PICK k \in load.sent .. UploadEnd :
            /\ k = load.sent + n
            /\ n = FileLength => k = UploadEnd
      BY <1>1, <1>6
    <2>2. /\ rows' = rows \cup {CsvRow(i) : i \in load.sent + 1 .. load.sent + n}
          /\ postals' = postals /\ centroids' = centroids /\ ranges' = ranges /\ content' = content
      BY <1>6 DEF Uploads
    <2>3. rows' = rows \cup Put(load, k)
      BY <1>2, <2>1, <2>2 DEF Put
    <2>4. k \in load.sent .. Len(Csv)
      BY <1>1
    <2>5. /\ \A r \in rows : r.id <= load.base + load.sent
          /\ content = "file" => Beginning(rows, load.sent)
      <3>1. LoadInv
        BY DEF ImportInv
      <3> QED BY <1>0, <1>6, <3>1, NotTaken
    <2>6. /\ Sound(rows \cup Put(load, k)) /\ Uploaded(load, rows \cup Put(load, k), k)
          /\ \A r \in rows \cup Put(load, k) : r.id <= load.base + k
          /\ Beginning(rows, load.sent) => Beginning(rows \cup Put(load, k), k)
      BY <1>0, <2>4, <2>5, PutKeeps
    <2>7. /\ Sound(rows') /\ Uploaded(load, rows', k) /\ \A r \in rows' : r.id <= load.base + k
          /\ content' = "file" => Beginning(rows', k)
      BY <2>2, <2>3, <2>5, <2>6
    <2>8. content' \in {"file", "mixed"} /\ (load.how = "plain" => content' = "file")
      BY <1>0, <1>1, <1>6, <2>2 DEF Uploading, Clears
    <2>9. content' # "mixed" => NeverDoubleServed'
      BY <2>7, <2>8 DEF Sound, Beginning, NeverDoubleServed
    <2>10. LoadRows(load, rows', content')
      <3>1. k \in Nat
        BY <1>1, <2>4
      <3>2. content' = "file" => \E m \in Nat : Beginning(rows', m)
        BY <2>7, <3>1
      <3>3. Uploading(load, rows', content')
        BY <1>0, <1>6, <2>2, <2>4, <2>7 DEF Uploading, Clears
      <3> QED BY <3>2, <3>3 DEF LoadRows
    <2>11. load.how = "plain" => Blank(postals') /\ Blank(centroids') /\ Blank(ranges')
      <3>1. load.how = "plain" => load.sent > 0
        BY <1>1, <1>6 DEF Clears
      <3> QED BY <1>0, <2>2, <3>1 DEF Deriving
    <2> QED BY <1>0, <2>1, <2>2, <2>7, <2>8, <2>9, <2>10, <2>11
  <1> QED BY <1>4, <1>5, <1>6

LEMMA UploadFileKeeps ==
  ASSUME ImportInv, UploadFile
  PROVE  ImportInv'
  <1>0. /\ load.phase = "upload" /\ load.phase # "idle" /\ load.phase # "index" /\ ~RowTaken
        /\ UNCHANGED <<run, release, staged, ledger, torn, open>>
    BY DEF UploadFile, NotMine
  <1>1. /\ load \in LoadRecords /\ load.sent < Len(Csv) /\ load.how \in {"plain", "resume"}
    BY <1>0, LoadNow DEF LoadRows, Uploading
  <1>2. /\ UploadEnd \in load.sent + 1 .. Len(Csv) /\ UploadEnd \in Nat /\ load.sent \in Nat
        /\ FileLength \in Nat /\ Len(Csv) \in Nat
    BY <1>1, FileFacts
  <1>3. CASE (\E n \in 0 .. FileLength : Uploads(n)) /\ LoadFails
    <2>1. PICK n \in 0 .. FileLength : Uploads(n)
      BY <1>3
    <2>2. /\ Sound(rows') /\ (content' # "mixed" => NeverDoubleServed')
          /\ content' \in {"file", "refreshed", "mixed"}
          /\ DOMAIN postals' = Postals /\ DOMAIN centroids' = Keys /\ DOMAIN ranges' = Keys
          /\ LoadRows(load, rows', content') /\ Deriving(load, postals', centroids', ranges')
      BY <1>0, <2>1, UploadsFacts
    <2>3. /\ load' \in LoadRecords /\ finished' = finished
          /\ load'.phase = "idle" \/ SameLoad(load, load')
      BY <1>1, <1>3, LoadFailsFacts
    <2> QED BY <1>0, <2>2, <2>3, LoadFailsKeeps
  <1>4. CASE /\ Uploads(FileLength)
             /\ GoesOn(IF UploadEnd = Len(Csv) THEN Derived(load.how) ELSE "upload", UploadEnd)
    <2>1. FileLength \in 0 .. FileLength
      BY <1>2
    <2>2. /\ Sound(rows') /\ (content' # "mixed" => NeverDoubleServed')
          /\ content' \in {"file", "refreshed", "mixed"}
          /\ DOMAIN postals' = Postals /\ DOMAIN centroids' = Keys /\ DOMAIN ranges' = Keys
          /\ \A r \in rows' : r.id <= load.base + UploadEnd
          /\ content' = "file" => Beginning(rows', UploadEnd)
          /\ load.how = "plain" => /\ content' = "file"
                                   /\ Blank(postals') /\ Blank(centroids') /\ Blank(ranges')
          /\ load.how = "resume" => content' # "refreshed"
      BY <1>0, <1>4, <2>1, UploadsFacts
    <2> PICK p : p = IF UploadEnd = Len(Csv) THEN Derived(load.how) ELSE "upload"
      OBVIOUS
    <2>3. p \in {"upload", "sweep", "aggregates"} /\ p \in LoadPhases /\ p # "idle"
          /\ (p = "aggregates" => load.how = "plain")
          /\ (p = "upload" => UploadEnd < Len(Csv)) /\ (p # "upload" => UploadEnd = Len(Csv))
      <3>1. UploadEnd # Len(Csv) => UploadEnd < Len(Csv)
        BY <1>2
      <3>2. Derived(load.how) \in {"sweep", "aggregates"}
            /\ (Derived(load.how) = "aggregates" => load.how = "plain")
        BY DEF Derived
      <3> QED BY <3>1, <3>2 DEF LoadPhases
    <2>4. /\ load' \in LoadRecords /\ load'.phase = p /\ load'.how = load.how
          /\ finished' = "none" /\ load'.base = load.base /\ load'.sent = UploadEnd
      BY <1>1, <1>2, <1>4, <2>3, GoesOnFacts
    <2>5. LoadRows(load', rows', content')
      <3>1. content' = "file" => \E m \in Nat : Beginning(rows', m)
        BY <1>2, <2>2
      <3>2. Uploaded(load', rows', UploadEnd)
        <4>1. Put(load', UploadEnd) = {}
          BY <1>2, <2>4 DEF Put
        <4>2. load.base \in Int /\ \A r \in rows' : r.id \in Int
          BY <1>1, <2>2 DEF LoadRecords, Sound
        <4>3. \A r \in rows' : ~(r.id > load'.base + load'.sent)
          BY <1>2, <2>2, <2>4, <4>2
        <4> QED BY <4>1, <4>3 DEF Uploaded
      <3>3. Uploading(load', rows', content')
        <4>1. UploadEnd \in load'.sent .. Len(Csv) /\ load'.sent > 0
          BY <1>2, <2>4
        <4> QED BY <1>1, <1>2, <2>2, <2>3, <2>4, <3>2, <4>1 DEF Uploading
      <3> QED BY <1>1, <2>2, <2>3, <2>4, <3>1, <3>3 DEF LoadRows
    <2>6. Deriving(load', postals', centroids', ranges')
      <3>1. p = "aggregates" => Blank(postals') /\ Blank(centroids') /\ Blank(ranges')
        BY <2>2, <2>3
      <3>2. DOMAIN CsvAtPostal = Postals /\ DOMAIN CsvAtKey = Keys
        BY DEF CsvAtPostal, CsvAtKey
      <3>3. p = "aggregates" => /\ EmptyOr(postals', CsvAtPostal) /\ EmptyOr(centroids', CsvAtKey)
                                /\ EmptyOr(ranges', CsvAtKey)
        BY <2>2, <3>1, <3>2 DEF EmptyOr, Blank
      <3> QED BY <2>2, <2>3, <2>4, <3>3 DEF Deriving
    <2>7. ImportedIsWhole'
      BY <2>4 DEF ImportedIsWhole
    <2>8. load'.phase # "index"
      BY <2>3, <2>4
    <2> QED BY <1>0, <2>2, <2>4, <2>5, <2>6, <2>7, <2>8, LoadKeeps
  <1> QED BY <1>3, <1>4 DEF UploadFile

LEMMA SweepKeeps ==
  ASSUME ImportInv, Sweep
  PROVE  ImportInv'
  <1>0. /\ load.phase = "sweep" /\ load.phase # "idle" /\ load.phase # "index"
        /\ UNCHANGED <<run, release, staged, ledger, torn, open>> /\ UNCHANGED <<rows, content>>
    BY DEF Sweep, NotMine
  <1>1. \E n \in 0 .. 3 : Derives(n, Zero(postals), Zero(centroids), Zero(ranges))
    BY DEF Sweep
  <1>2. DOMAIN postals' = Postals /\ DOMAIN centroids' = Keys /\ DOMAIN ranges' = Keys
    BY <1>0, <1>1, LoadNow DEF Derives, Zero
  <1>3. /\ content' \in {"file", "refreshed", "mixed"} /\ Sound(rows')
        /\ content' # "mixed" => NeverDoubleServed'
    BY <1>0, LoadNow DEF NeverDoubleServed
  <1>4. LoadRows(load, rows', content') /\ Deriving(load, postals', centroids', ranges')
    BY <1>0, LoadNow DEF Deriving
  <1>5. CASE LoadFails
    <2>1. /\ load' \in LoadRecords /\ finished' = finished
          /\ load'.phase = "idle" \/ SameLoad(load, load')
      BY <1>0, <1>5, LoadNow, LoadFailsFacts
    <2> QED BY <1>0, <1>2, <1>3, <1>4, <2>1, LoadFailsKeeps
  <1>6. CASE /\ Derives(3, Zero(postals), Zero(centroids), Zero(ranges))
             /\ GoesOn("aggregates", load.sent)
    <2>1. load \in LoadRecords /\ load.sent \in Nat /\ "aggregates" \in LoadPhases
      BY <1>0, LoadNow, LoadRecordFacts DEF LoadPhases
    <2>2. load' \in LoadRecords /\ load'.phase = "aggregates" /\ load'.how = load.how /\ finished' = "none"
      BY <1>6, <2>1, GoesOnFacts
    <2>3. LoadRows(load', rows', content')
      BY <1>0, <1>4, <2>2 DEF LoadRows, Uploading
    <2>4. Deriving(load', postals', centroids', ranges')
      <3>1. Blank(postals') /\ Blank(centroids') /\ Blank(ranges')
        BY <1>6 DEF Derives, Zero, Blank
      <3>2. DOMAIN CsvAtPostal = Postals /\ DOMAIN CsvAtKey = Keys
        BY DEF CsvAtPostal, CsvAtKey
      <3>3. /\ EmptyOr(postals', CsvAtPostal) /\ EmptyOr(centroids', CsvAtKey)
            /\ EmptyOr(ranges', CsvAtKey)
        BY <1>2, <3>1, <3>2 DEF EmptyOr, Blank
      <3> QED BY <2>2, <3>3 DEF Deriving
    <2>5. ImportedIsWhole'
      BY <2>2 DEF ImportedIsWhole
    <2> QED BY <1>0, <1>2, <1>3, <2>2, <2>3, <2>4, <2>5, LoadKeeps
  <1> QED BY <1>5, <1>6 DEF Sweep

(* What the data set has, written over nothing or over a part of the same. *)
LEMMA FilledFacts ==
  ASSUME NEW tb, NEW n, DOMAIN tb = DOMAIN n, \A x \in DOMAIN n : n[x] \in Nat, EmptyOr(tb, n)
  PROVE  /\ DOMAIN Filled(tb, n) = DOMAIN tb /\ EmptyOr(Filled(tb, n), n)
         /\ Filled(tb, n) = [x \in DOMAIN n |-> n[x]]
  <1>1. ASSUME NEW x \in DOMAIN n PROVE Filled(tb, n)[x] = n[x]
    <2>1. tb[x] \in {0, n[x]} /\ n[x] \in Nat
      BY DEF EmptyOr
    <2> QED BY <2>1 DEF Filled
  <1>2. DOMAIN Filled(tb, n) = DOMAIN tb
    BY DEF Filled
  <1>3. Filled(tb, n) = [x \in DOMAIN n |-> n[x]]
    BY <1>1 DEF Filled
  <1> QED BY <1>1, <1>2, <1>3 DEF EmptyOr

LEMMA CsvCounts ==
  /\ DOMAIN CsvAtPostal = Postals /\ DOMAIN CsvAtKey = Keys
  /\ \A p \in Postals : CsvAtPostal[p] \in Nat
  /\ \A k \in Keys : CsvAtKey[k] \in Nat
  /\ CsvAtPostal = [p \in Postals |-> CsvAtPostal[p]] /\ CsvAtKey = [k \in Keys |-> CsvAtKey[k]]
  <1>1. IsFiniteSet(DOMAIN Csv)
    <2>1. 1 \in Int /\ Len(Csv) \in Int
      BY CsvFacts
    <2> QED BY <2>1, CsvFacts, FS_Interval
  <1>2. \A I \in SUBSET DOMAIN Csv : Cardinality(I) \in Nat
    BY <1>1, FS_Subset, FS_CardinalityType
  <1>3. \A p \in Postals : CsvAtPostal[p] \in Nat
    BY <1>2 DEF CsvAtPostal
  <1>4. \A k \in Keys : CsvAtKey[k] \in Nat
    BY <1>2 DEF CsvAtKey
  <1> QED BY <1>3, <1>4 DEF CsvAtPostal, CsvAtKey

LEMMA FlushKeeps ==
  ASSUME ImportInv, FlushAggregates
  PROVE  ImportInv'
  <1>0. /\ load.phase = "aggregates" /\ load.phase # "idle" /\ load.phase # "index"
        /\ UNCHANGED <<run, release, staged, ledger, torn, open>> /\ UNCHANGED <<rows, content>>
    BY DEF FlushAggregates, NotMine
  <1> DEFINE pt == Filled(postals, CsvAtPostal)
             ct == Filled(centroids, CsvAtKey)
             rg == Filled(ranges, CsvAtKey)
  <1>1. \E n \in 0 .. 3 : Derives(n, pt, ct, rg)
    BY DEF FlushAggregates
  <1>2. /\ EmptyOr(postals, CsvAtPostal) /\ EmptyOr(centroids, CsvAtKey) /\ EmptyOr(ranges, CsvAtKey)
        /\ DOMAIN postals = Postals /\ DOMAIN centroids = Keys /\ DOMAIN ranges = Keys
        /\ load \in LoadRecords /\ load.how \in {"plain", "resume", "centroids"}
        /\ load.how # "centroids" /\ content = "file" => Beginning(rows, Len(Csv))
    BY <1>0, LoadNow DEF Deriving, LoadRows
  <1>3. /\ EmptyOr(pt, CsvAtPostal) /\ EmptyOr(ct, CsvAtKey) /\ EmptyOr(rg, CsvAtKey)
        /\ DOMAIN pt = Postals /\ DOMAIN ct = Keys /\ DOMAIN rg = Keys
        /\ pt = CsvAtPostal /\ ct = CsvAtKey /\ rg = CsvAtKey
    BY <1>2, CsvCounts, FilledFacts
  <1>4. DOMAIN postals' = Postals /\ DOMAIN centroids' = Keys /\ DOMAIN ranges' = Keys
    BY <1>1, <1>2, <1>3 DEF Derives
  <1>5. /\ content' \in {"file", "refreshed", "mixed"} /\ Sound(rows')
        /\ content' # "mixed" => NeverDoubleServed'
    BY <1>0, LoadNow DEF NeverDoubleServed
  <1>6. LoadRows(load, rows', content')
    BY <1>0, LoadNow
  <1>7. CASE LoadFails
    <2>1. /\ load' \in LoadRecords /\ finished' = finished
          /\ load'.phase = "idle" \/ SameLoad(load, load')
      BY <1>0, <1>7, LoadNow, LoadFailsFacts
    <2>2. /\ EmptyOr(postals', CsvAtPostal) /\ EmptyOr(centroids', CsvAtKey)
          /\ EmptyOr(ranges', CsvAtKey)
      BY <1>1, <1>2, <1>3 DEF Derives
    <2>3. Deriving(load, postals', centroids', ranges')
      BY <1>0, <2>2 DEF Deriving
    <2> QED BY <1>0, <1>4, <1>5, <1>6, <2>1, <2>3, LoadFailsKeeps
  <1>8. CASE Derives(3, pt, ct, rg) /\ GoesOn("idle", 0)
    <2>1. load' \in LoadRecords /\ load'.phase = "idle" /\ finished' = load.how
      <3>1. "idle" \in LoadPhases /\ 0 \in Nat
        BY DEF LoadPhases
      <3> QED BY <1>2, <1>8, <3>1, GoesOnFacts
    <2>2. postals' = CsvAtPostal /\ centroids' = CsvAtKey /\ ranges' = CsvAtKey
      BY <1>3, <1>8 DEF Derives
    <2>3. finished' # "centroids" /\ content' = "file" => Beginning(rows', Len(Csv))
      BY <1>0, <1>2, <2>1
    <2>4. LoadRows(load', rows', content') /\ Deriving(load', postals', centroids', ranges')
      BY <1>6, <2>1, NoLoadFacts DEF LoadRows
    <2>5. ImportedIsWhole'
      <3>1. finished' # "index"
        BY <1>2, <2>1
      <3>2. ASSUME finished' # "centroids", content' = "file"
            PROVE  /\ Cardinality(rows') = Len(Csv)
                   /\ \A i \in DOMAIN Csv : \E r \in rows' : r.addr = Csv[i].addr /\ r.key = Csv[i].key
        <4>1. Beginning(rows', Len(Csv)) /\ Len(Csv) \in Nat
          BY <2>3, <3>2, CsvFacts
        <4>2. Cardinality(rows') = Len(Csv)
          BY <4>1, BeginningCounts
        <4> QED BY <4>1, <4>2, CsvFacts DEF Beginning, RowOf
      <3>3. CsvAtPostal' = CsvAtPostal /\ CsvAtKey' = CsvAtKey
        BY DEF CsvAtPostal, CsvAtKey
      <3> QED BY <2>2, <3>1, <3>2, <3>3 DEF ImportedIsWhole
    <2>6. finished' \in {"plain", "resume"} /\ content' = "file" => Beginning(rows', Len(Csv))
      BY <2>3
    <2> QED BY <1>0, <1>4, <1>5, <2>1, <2>4, <2>5, <2>6, LoadKeeps
  <1> QED BY <1>7, <1>8 DEF FlushAggregates

LEMMA LoadDiesKeeps ==
  ASSUME ImportInv, LoadDies
  PROVE  ImportInv'
  <1>0. /\ load.phase # "idle" /\ load' = NoLoad /\ UNCHANGED <<finished, content>>
        /\ UNCHANGED <<run, release, staged, ledger, torn, open>>
        /\ UNCHANGED <<rows, centroids, ranges, postals, keyVintage>>
    BY DEF LoadDies, tables
  <1>1. load' \in LoadRecords /\ load'.phase = "idle"
    BY <1>0, LoadNow, LoadRecordFacts
  <1>2. /\ content' \in {"file", "refreshed", "mixed"} /\ Sound(rows')
        /\ content' # "mixed" => NeverDoubleServed'
        /\ DOMAIN postals' = Postals /\ DOMAIN centroids' = Keys /\ DOMAIN ranges' = Keys
    BY <1>0, LoadNow DEF NeverDoubleServed
  <1>3. LoadRows(load', rows', content') /\ Deriving(load', postals', centroids', ranges')
    BY <1>0, <1>1, LoadNow, NoLoadFacts DEF LoadRows
  <1>4. finished' = "none"
    BY <1>0, LoadNow
  <1>5. ImportedIsWhole'
    BY <1>4 DEF ImportedIsWhole
  <1> QED BY <1>0, <1>1, <1>2, <1>3, <1>4, <1>5, LoadKeeps

LEMMA BuildIndexKeeps ==
  ASSUME ImportInv, BuildIndex
  PROVE  ImportInv'
  <1>0. /\ load.phase = "index" /\ load.phase # "idle" /\ content' = content
        /\ UNCHANGED <<run, release, staged, ledger, torn, open>>
        /\ UNCHANGED <<rows, centroids, ranges, postals, keyVintage>>
    BY DEF BuildIndex
  <1>1. load \in LoadRecords /\ load.how = "index"
    BY <1>0, LoadNow DEF ImportInv, LoadInv, LoadAlone
  <1>2. /\ load' \in LoadRecords /\ load'.phase = "idle"
        /\ finished' = "none" \/ (finished' = "index" /\ suggest' = Index)
    <2>1. CASE suggest' = Index /\ GoesOn("idle", 0)
      <3>1. "idle" \in LoadPhases /\ 0 \in Nat
        BY DEF LoadPhases
      <3> QED BY <1>1, <2>1, <3>1, GoesOnFacts
    <2>2. CASE load' = NoLoad /\ finished' = finished
      BY <1>0, <1>1, <2>2, LoadNow, LoadRecordFacts
    <2> QED BY <2>1, <2>2 DEF BuildIndex
  <1>3. /\ content' \in {"file", "refreshed", "mixed"} /\ Sound(rows')
        /\ content' # "mixed" => NeverDoubleServed'
        /\ DOMAIN postals' = Postals /\ DOMAIN centroids' = Keys /\ DOMAIN ranges' = Keys
    BY <1>0, LoadNow DEF NeverDoubleServed
  <1>4. LoadRows(load', rows', content') /\ Deriving(load', postals', centroids', ranges')
    BY <1>0, <1>2, LoadNow, NoLoadFacts DEF LoadRows
  <1>5. ImportedIsWhole'
    <2>1. suggest' = Index =>
            \A k \in Keys : suggest'[k] > 0 <=> centroids'[k] > 0 /\ ranges'[k] > 0
      BY <1>0 DEF Index
    <2> QED BY <1>2, <2>1 DEF ImportedIsWhole
  <1> QED BY <1>0, <1>2, <1>3, <1>4, <1>5, LoadKeeps

LEMMA StartLoadKeeps ==
  ASSUME ImportInv, NEW how \in {"plain", "resume", "centroids"}, StartLoad(how)
  PROVE  ImportInv'
  <1>0. /\ load.phase = "idle" /\ run.phase = "idle" /\ open' = Cities /\ finished' = "none"
        /\ UNCHANGED <<run, release, staged, ledger, torn>>
        /\ UNCHANGED <<rows, centroids, ranges, postals>>
        /\ content' = IF how = "resume" /\ content = "refreshed" THEN "mixed" ELSE content
    BY DEF StartLoad, tables
  <1>1. /\ RefreshInv /\ LoadInv /\ Sound(rows) /\ content \in {"file", "refreshed", "mixed"}
        /\ DOMAIN postals = Postals /\ DOMAIN centroids = Keys /\ DOMAIN ranges = Keys
        /\ content # "mixed" => NeverDoubleServed
        /\ content = "file" => \E n \in Nat : Beginning(rows, n)
    BY DEF ImportInv, RefreshInv, LoadInv, LoadTypes, LoadRows, NeverDoubled
  <1>2. RefreshInv'
    <2>1. Sound(rows')
      BY <1>0, <1>1
    <2> QED BY <1>0, <1>1, <2>1, AsideKeeps
  <1>3. Len(Csv) \in Nat \ {0} /\ Cardinality(rows) \in Nat
    BY <1>1, CsvFacts, FS_CardinalityType DEF Sound
  <1> PICK skip : skip = IF how = "resume" THEN Lesser(Skip, Len(Csv)) ELSE 0
    OBVIOUS
  <1>4. /\ skip \in Nat /\ skip <= Len(Csv)
        /\ how = "resume" /\ content = "file" => Beginning(rows, skip)
    <2>1. skip \in Nat /\ skip <= Len(Csv) /\ (how = "resume" => skip = Lesser(Cardinality(rows), Len(Csv)))
      BY <1>3 DEF Lesser, Skip
    <2>2. ASSUME how = "resume", content = "file" PROVE Beginning(rows, skip)
      <3>1. PICK n \in Nat : Beginning(rows, n)
        BY <1>1, <2>2
      <3>2. Cardinality(rows) = n /\ n <= Len(Csv)
        BY <3>1, BeginningCounts
      <3>3. skip = n
        BY <1>3, <2>1, <2>2, <3>2 DEF Lesser
      <3> QED BY <3>1, <3>3
    <2> QED BY <2>1, <2>2
  <1> PICK phase : phase = IF how = "centroids" \/ skip = Len(Csv) THEN Derived(how) ELSE "upload"
    OBVIOUS
  <1>5. NextId \in Int /\ \A r \in rows : r.id < NextId /\ r.id \in Int
    BY <1>1, NextIdFacts DEF Sound
  <1>6. load' = [phase |-> phase, how |-> how, base |-> NextId - 1 - skip, sent |-> skip, attempts |-> 0]
    BY DEF StartLoad
  <1>7. /\ load'.phase = phase /\ load'.how = how /\ load'.base = NextId - 1 - skip /\ load'.sent = skip
    BY <1>6
  <1>8. /\ phase \in {"upload", "sweep"} /\ (phase = "upload" => how # "centroids" /\ skip # Len(Csv))
        /\ (phase = "sweep" => how = "centroids" \/ (how = "resume" /\ skip = Len(Csv)))
    BY <1>3 DEF Derived
  <1>9. load' \in LoadRecords
    <2>1. phase \in LoadPhases /\ how \in {"plain", "resume", "centroids", "index"} /\ 0 \in Int
      BY <1>8 DEF LoadPhases
    <2> PICK base : base = NextId - 1 - skip
      OBVIOUS
    <2>2. base \in Int
      BY <1>4, <1>5
    <2> QED BY <1>4, <1>6, <2>1, <2>2 DEF LoadRecords
  <1>10. Uploaded(load', rows', skip)
    <2>1. \A r \in rows : ~(r.id > load'.base + load'.sent)
      BY <1>4, <1>5, <1>7
    <2>2. Put(load', skip) = {}
      BY <1>4, <1>7 DEF Put
    <2> QED BY <1>0, <2>1, <2>2 DEF Uploaded
  <1>11. Uploading(load', rows', content')
    <2>1. ASSUME phase = "upload" PROVE skip < Len(Csv) /\ how \in {"plain", "resume"}
      BY <1>3, <1>4, <1>8, <2>1
    <2>2. how = "plain" => skip = 0
      OBVIOUS
    <2>3. how = "resume" => content' # "refreshed" /\ (content' = "file" => content = "file")
      BY <1>0
    <2>4. skip \in skip .. Len(Csv)
      BY <1>3, <1>4
    <2>5. content' = "file" => content = "file"
      BY <1>0
    <2> QED BY <1>0, <1>1, <1>4, <1>7, <1>10, <2>1, <2>2, <2>3, <2>4, <2>5 DEF Uploading
  <1>12. LoadRows(load', rows', content')
    <2>1. content' = "file" => content = "file"
      BY <1>0
    <2> QED BY <1>0, <1>1, <1>4, <1>7, <1>8, <1>11, <2>1 DEF LoadRows
  <1>13. Deriving(load', postals', centroids', ranges')
    <2>1. ~(load'.phase = "upload" /\ load'.how = "plain" /\ load'.sent > 0)
      BY <1>7
    <2> QED BY <1>7, <1>8, <2>1 DEF Deriving
  <1>14. LoadInv'
    <2>1. LoadTypes'
      BY <1>0, <1>1, <1>9 DEF LoadTypes
    <2>2. LoadAlone'
      BY <1>0, <1>7, <1>8 DEF LoadAlone
    <2> QED BY <1>0, <1>12, <1>13, <2>1, <2>2 DEF LoadInv
  <1>15. NeverDoubled' /\ ImportedIsWhole'
    BY <1>0, <1>1 DEF NeverDoubled, NeverDoubleServed, ImportedIsWhole
  <1> QED BY <1>2, <1>14, <1>15 DEF ImportInv

LEMMA StartBuildKeeps ==
  ASSUME ImportInv, StartBuild
  PROVE  ImportInv'
  <1>0. /\ load.phase = "idle" /\ run.phase = "idle" /\ finished' = "none" /\ content' = content
        /\ UNCHANGED <<run, release, staged, ledger, torn, open>>
        /\ UNCHANGED <<rows, centroids, ranges, postals, keyVintage>>
    BY DEF StartBuild, vars, tables
  <1>1. RefreshInv /\ LoadInv /\ LoadTypes /\ Sound(rows) /\ LoadRows(load, rows, content) /\ NeverDoubled
    BY DEF ImportInv, RefreshInv, LoadInv
  <1>2. RefreshInv'
    <2>1. UNCHANGED <<rows, centroids, ranges, keyVintage>> /\ open \subseteq open'
      BY <1>0
    <2> QED BY <1>0, <1>1, <2>1, AsideKeeps
  <1>3. load' \in LoadRecords /\ load'.phase = "index" /\ load'.how = "index"
    <2> PICK x : x = NoLoad
      OBVIOUS
    <2>1. x \in LoadRecords
      BY <1>1, LoadRecordFacts DEF LoadTypes
    <2>2. load' = [x EXCEPT !.phase = "index", !.how = "index"]
      BY DEF StartBuild
    <2>3. load'.phase = "index" /\ load'.how = "index"
      BY <2>1, <2>2 DEF LoadRecords
    <2>4. "index" \in LoadPhases
      BY DEF LoadPhases
    <2> QED BY <2>1, <2>2, <2>3, <2>4 DEF LoadRecords
  <1>4. LoadInv'
    <2>1. LoadTypes'
      BY <1>0, <1>1, <1>3 DEF LoadTypes
    <2>2. LoadAlone'
      BY <1>0, <1>1, <1>3 DEF LoadInv, LoadAlone
    <2>3. LoadRows(load', rows', content') /\ Deriving(load', postals', centroids', ranges')
      BY <1>0, <1>1, <1>3 DEF LoadRows, Uploading, Deriving
    <2> QED BY <1>0, <2>1, <2>2, <2>3 DEF LoadInv
  <1>5. NeverDoubled' /\ ImportedIsWhole'
    BY <1>0, <1>1 DEF NeverDoubled, NeverDoubleServed, ImportedIsWhole
  <1> QED BY <1>2, <1>4, <1>5 DEF ImportInv

LEMMA RefreshesKeeps ==
  ASSUME ImportInv, Refreshes
  PROVE  ImportInv'
  <1>0. /\ load.phase = "idle" /\ Next /\ load' = load
        /\ finished' = IF run'.phase = "idle" THEN finished ELSE "none"
        /\ content' = IF run'.phase # "idle" /\ content = "file" THEN "refreshed" ELSE content
    BY DEF Refreshes
  <1>1. RefreshInv /\ LoadInv /\ LoadTypes /\ LoadAlone /\ LoadRows(load, rows, content) /\ NeverDoubled
    BY DEF ImportInv, LoadInv
  <1>2. RefreshInv'
    BY <1>0, <1>1, RefreshNextKeeps
  <1>3. run.phase = "idle" => UNCHANGED <<rows, centroids, ranges, postals, suggest>>
    BY <1>0, TablesNext DEF tables
  <1>4. content' = "file" => content = "file" /\ run.phase = "idle" /\ run'.phase = "idle"
    BY <1>0, <1>1 DEF LoadAlone
  <1>5. finished' # "none" => finished' = finished /\ run.phase = "idle" /\ run'.phase = "idle"
    BY <1>0, <1>1 DEF LoadAlone
  <1>6. LoadInv'
    <2>1. LoadTypes'
      BY <1>0, <1>1, TablesNext DEF LoadTypes
    <2>2. LoadAlone'
      BY <1>0, <1>1, <1>4, <1>5 DEF LoadAlone
    <2>3. content' = "file" => \E n \in Nat : Beginning(rows', n)
      BY <1>1, <1>3, <1>4 DEF LoadRows
    <2>4. LoadRows(load', rows', content') /\ Deriving(load', postals', centroids', ranges')
      BY <1>0, <2>3, NoLoadFacts
    <2>5. finished' \in {"plain", "resume"} /\ content' = "file" => Beginning(rows', Len(Csv))
      BY <1>1, <1>3, <1>4, <1>5 DEF LoadInv
    <2> QED BY <2>1, <2>2, <2>4, <2>5 DEF LoadInv
  <1>7. NeverDoubled'
    BY <1>0, <1>1, NextNeverDoubles DEF NeverDoubled
  <1>8. ImportedIsWhole'
    <2>1. CASE finished' = "none"
      BY <2>1 DEF ImportedIsWhole
    <2>2. CASE finished' # "none"
      <3>1. UNCHANGED <<rows, centroids, ranges, postals, suggest, finished>>
        BY <1>3, <1>5, <2>2
      <3>2. content' = "file" => content = "file"
        BY <1>4
      <3>3. ImportedIsWhole
        BY DEF ImportInv
      <3>4. CsvAtPostal' = CsvAtPostal /\ CsvAtKey' = CsvAtKey
        BY DEF CsvAtPostal, CsvAtKey
      <3> QED BY <3>1, <3>2, <3>3, <3>4 DEF ImportedIsWhole
    <2> QED BY <2>1, <2>2
  <1> QED BY <1>2, <1>6, <1>7, <1>8 DEF ImportInv

LEMMA ImportNextKeeps ==
  ASSUME ImportInv, [OdaNext]_odaVars
  PROVE  ImportInv'
  <1>1. CASE UNCHANGED odaVars
    <2>1. /\ UNCHANGED <<load, finished, content, run, postals, centroids, ranges, suggest, open, rows>>
          /\ UNCHANGED vars
      BY <1>1 DEF odaVars, vars, tables, loading
    <2>2. RefreshInv'
      BY <2>1, RefreshNextKeeps DEF ImportInv
    <2>3. LoadInv'
      BY <2>1 DEF ImportInv, LoadInv, LoadTypes, LoadAlone
    <2>4. NeverDoubled'
      BY <2>1 DEF ImportInv, NeverDoubled, NeverDoubleServed
    <2>5. ImportedIsWhole'
      BY <2>1 DEF ImportInv, ImportedIsWhole, CsvAtPostal, CsvAtKey
    <2> QED BY <2>2, <2>3, <2>4, <2>5 DEF ImportInv
  <1>2. CASE LoadWork
    BY <1>2, UploadFileKeeps, UploadRefusedKeeps, SweepKeeps, FlushKeeps, BuildIndexKeeps DEF LoadWork
  <1>3. CASE \E how \in {"plain", "resume", "centroids"} : StartLoad(how)
    BY <1>3, StartLoadKeeps
  <1> QED BY <1>1, <1>2, <1>3, StartBuildKeeps, LoadDiesKeeps, RefreshesKeeps DEF OdaNext

LEMMA ImportStarts ==
  ASSUME OdaInit
  PROVE  ImportInv
  <1>0. /\ Init /\ rows = Oda /\ load.phase = "idle" /\ finished = "none" /\ content = "file"
        /\ load = [phase |-> "idle", how |-> "plain", base |-> 0, sent |-> 0, attempts |-> 0]
    BY DEF OdaInit, Init
  <1>1. RefreshInv
    BY <1>0, RefreshStarts
  <1>2. load \in LoadRecords
    <2>1. "idle" \in LoadPhases /\ 0 \in Nat /\ 0 \in Int
      BY DEF LoadPhases
    <2> QED BY <1>0, <2>1 DEF LoadRecords
  <1>3. Beginning(rows, Len(Csv)) /\ Len(Csv) \in Nat
    <2>1. \A i, j \in 1 .. Len(Csv) : Csv[i].addr = Csv[j].addr => i = j
      BY CsvFacts
    <2>2. \A r \in rows : \E i \in 1 .. Len(Csv) : RowOf(r, i)
      BY <1>0, CsvFacts, OdaIsImported DEF RowOf
    <2>3. \A i \in 1 .. Len(Csv) : \E r \in rows : RowOf(r, i)
      <3>1. ASSUME NEW i \in 1 .. Len(Csv) PROVE \E r \in rows : RowOf(r, i)
        <4> DEFINE o == [id |-> i, addr |-> Csv[i].addr, key |-> Csv[i].key,
                         postal |-> Csv[i].postal, vintage |-> 0]
        <4>1. o \in rows
          BY <1>0, CsvFacts, OdaIsImported
        <4>2. RowOf(o, i)
          BY DEF RowOf
        <4> QED BY <4>1, <4>2
      <3> QED BY <3>1
    <2>4. \A r, s \in rows : r.addr = s.addr => r = s
      BY <1>0, ListedOnce
    <2> QED BY <2>1, <2>2, <2>3, <2>4, CsvFacts DEF Beginning
  <1>4. LoadTypes
    BY <1>0, <1>2 DEF LoadTypes, Init
  <1>5. LoadAlone
    BY <1>0 DEF LoadAlone, Init
  <1>6. LoadRows(load, rows, content) /\ Deriving(load, postals, centroids, ranges)
    BY <1>0, <1>3, NoLoadFacts
  <1>7. LoadInv
    BY <1>0, <1>4, <1>5, <1>6 DEF LoadInv
  <1>8. NeverDoubled /\ ImportedIsWhole
    BY <1>0, ListedOnce DEF NeverDoubled, NeverDoubleServed, ImportedIsWhole
  <1> QED BY <1>1, <1>7, <1>8 DEF ImportInv

LEMMA ImportInvHolds == OdaSpec => []ImportInv
  <1>1. OdaInit => ImportInv
    BY ImportStarts
  <1>2. ImportInv /\ [OdaNext]_odaVars => ImportInv'
    BY ImportNextKeeps
  <1> QED BY <1>1, <1>2, PTL DEF OdaSpec

(* Whatever fails, is repeated, resumed or dies half-way, no address has    *)
(* two rows and no id is given to two of them, unless a province was        *)
(* resumed upon refreshed cities; and a city the ledger has done, that      *)
(* nothing has begun since, is served whole, under every spelling, with its *)
(* centroids, street ranges and stated vintage (scripts/import-nar.ts).     *)
THEOREM CitiesAreServedWhole == OdaSpec => []RefreshedWhole
  <1>1. ImportInv => RefreshedWhole
    BY DEF ImportInv, RefreshInv, RefreshedWhole
  <1> QED BY <1>1, ImportInvHolds, PTL

(* An import of the province that reaches its end, resumed or not, has      *)
(* every row of the data set once and all that is derived from it, and an   *)
(* index that was built lists the streets there are (scripts/import-oda.ts).*)
THEOREM ImportsAreWhole == OdaSpec => []ImportedIsWhole
  <1>1. ImportInv => ImportedIsWhole
    BY DEF ImportInv
  <1> QED BY <1>1, ImportInvHolds, PTL

-----------------------------------------------------------------------------
(* What a reader sees of a refresh *)

Row(r) == [addr |-> r.addr, key |-> r.key, postal |-> r.postal, vintage |-> r.vintage]
ServedFrom(rs) == [c \in Cities |-> Served(c, rs)]
FullOf(v, c, reading) ==
  {[addr |-> e.addr, key |-> e.key, postal |-> e.postal, vintage |-> v] :
     e \in ToSet(Located[v][c][reading])}

LEMMA ServedElsewhere ==
  ASSUME NEW c \in Cities, NEW rs, NEW rsn,
         \A r : r.key \notin Scope[c] => (r \in rsn <=> r \in rs)
  PROVE  ServedFrom(rsn) = [ServedFrom(rs) EXCEPT ![c] = Served(c, rsn)]
  <1>1. ASSUME NEW d \in Cities, d # c PROVE Served(d, rsn) = Served(d, rs)
    <2>1. \A k \in Scope[d] : k \notin Scope[c]
      BY <1>1, ScopesDisjoint
    <2>2. {q \in rsn : q.key \in Scope[d]} = {q \in rs : q.key \in Scope[d]}
      BY <2>1
    <2> QED BY <2>2 DEF Served
  <1> QED BY <1>1 DEF ServedFrom

(* The run's rows are all there is of its city, once the old ones are gone. *)
LEMMA ServedOfRun ==
  ASSUME RefreshInv, run.phase # "idle", run.phase # "delete", NEW n \in 0 .. Len(Fresh(run)),
         Own(run, rows) = Filed(run, n)
  PROVE  /\ Served(run.city, rows) = {Row(FreshRow(run, i)) : i \in 1 .. n}
         /\ Served(run.city, rows) \subseteq FullOf(run.vintage, run.city, run.reading)
         /\ n = Len(Fresh(run)) =>
              Served(run.city, rows) = FullOf(run.vintage, run.city, run.reading)
  <1>0. /\ run \in RunRecords /\ Old(run, rows) = {} /\ Sound(rows) /\ run.first \in Int
    BY StandsNow DEF Stands, RowsStand, RunRecords
  <1>1. Len(Fresh(run)) \in Nat /\ DOMAIN Fresh(run) = 1 .. Len(Fresh(run))
    BY <1>0, FreshFacts DEF Insertable
  <1>2. \A i \in 1 .. n : i \in DOMAIN Fresh(run)
    BY <1>1
  <1>3. \A i \in 1 .. n : FreshRow(run, i).key \in Scope[run.city]
    BY <1>0, <1>2, FreshRows
  <1>4. {r \in rows : r.key \in Scope[run.city]} = Filed(run, n)
    <2>1. ASSUME NEW r \in rows, r.key \in Scope[run.city] PROVE r \in Filed(run, n)
      <3>1. ~(r.id < run.first) /\ r.id \in Int
        BY <1>0, <2>1 DEF Old, Among, Sound
      <3> QED BY <1>0, <3>1 DEF Own
    <2>2. ASSUME NEW r \in Filed(run, n) PROVE r \in rows /\ r.key \in Scope[run.city]
      <3>1. r \in rows
        BY <2>2 DEF Own
      <3> QED BY <1>3, <2>2, <3>1 DEF Filed
    <2> QED BY <2>1, <2>2
  <1>5. Served(run.city, rows) = {Row(r) : r \in Filed(run, n)}
    BY <1>4 DEF Served, Row
  <1>6. Served(run.city, rows) = {Row(FreshRow(run, i)) : i \in 1 .. n}
    BY <1>5 DEF Filed
  <1>7. FullOf(run.vintage, run.city, run.reading) =
          {Row(FreshRow(run, i)) : i \in DOMAIN Fresh(run)}
    <2>1. \A i : Row(FreshRow(run, i)) = [addr |-> Fresh(run)[i].addr, key |-> Fresh(run)[i].key,
                                          postal |-> Fresh(run)[i].postal, vintage |-> run.vintage]
      BY DEF Row, FreshRow
    <2> QED BY <2>1 DEF FullOf, ToSet, Fresh
  <1> QED BY <1>1, <1>2, <1>6, <1>7

LEMMA NextRefreshes ==
  ASSUME RefreshInv, [Next]_vars
  PROVE  Refresh!Next \/ UNCHANGED Refresh!vars
  <1>1. /\ run \in RunRecords /\ run.city \in Cities /\ run.vintage \in Vintages
        /\ run.reading \in Readings
    BY StandsNow DEF RunRecords
  <1> DEFINE Full == [v \in Vintages |-> [d \in Cities |->
               {{[addr |-> e.addr, key |-> e.key, postal |-> e.postal, vintage |-> v] :
                   e \in ToSet(Located[v][d][reading])} : reading \in Readings}]]
  <1>0. /\ FullOf(run.vintage, run.city, run.reading) \in Full[run.vintage][run.city]
        /\ \A rs : ServedFrom(rs)[run.city] = Served(run.city, rs)
    BY <1>1 DEF FullOf, ServedFrom
  <1>2. CASE UNCHANGED <<rows, ledger>>
    BY <1>2 DEF Refresh!vars
  <1>3. CASE rows' = rows \ Doomed /\ ledger' = ledger
    <2>1. \A r : r.key \notin Scope[run.city] => (r \in rows' <=> r \in rows)
      BY <1>3 DEF Doomed, InScope
    <2>2. ServedFrom(rows') = [ServedFrom(rows) EXCEPT ![run.city] = Served(run.city, rows')]
      BY <1>1, <2>1, ServedElsewhere
    <2>3. Served(run.city, rows') \subseteq Served(run.city, rows)
      BY <1>3 DEF Served
    <2>4. CASE Served(run.city, rows') = Served(run.city, rows)
      <3>1. ServedFrom(rows') = ServedFrom(rows)
        BY <2>2, <2>4 DEF ServedFrom
      <3> QED BY <1>3, <3>1 DEF Refresh!vars, ServedFrom
    <2>5. CASE Served(run.city, rows') # Served(run.city, rows)
      <3>1. Refresh!Withdraw(run.city)
        BY <1>1, <1>3, <2>2, <2>3, <2>5 DEF Refresh!Withdraw, ServedFrom
      <3> QED BY <1>1, <3>1 DEF Refresh!Next
    <2> QED BY <2>4, <2>5
  <1>4. CASE InsertBatch
    <2>1. /\ run.phase = "insert" /\ run.sent < Len(W) /\ ~IdTaken /\ ledger' = ledger
          /\ W = Fresh(run) /\ Len(W) \in Nat /\ run.sent \in Nat /\ Sound(rows)
          /\ Old(run, rows) = {}
      <3>1. W = Fresh(run)
        BY DEF W, Fresh
      <3> QED BY <1>1, <1>4, <3>1, StandsNow, FreshFacts
              DEF InsertBatch, Insertable, RunRecords, Stands, RowsStand
    <2>2. BatchEnd \in run.sent + 1 .. Len(W)
      BY <2>1, Bounds DEF BatchEnd, Lesser
    <2>3. PICK m \in run.sent .. BatchEnd : rows' = rows \cup RowsTo(m)
      <3>1. run.sent \in run.sent .. BatchEnd /\ BatchEnd \in run.sent .. BatchEnd
        BY <2>1, <2>2
      <3> QED BY <1>4, <3>1 DEF InsertBatch
    <2>4. /\ Own(run, rows) = Filed(run, run.sent)
          /\ \A s \in RowsTo(m) : /\ s.key \in Scope[run.city]
                                  /\ \E i \in run.sent + 1 .. m : s = FreshRow(run, i)
      BY <2>1, <2>3, BatchFacts
    <2>5. Served(run.city, rows) \subseteq FullOf(run.vintage, run.city, run.reading)
      <3>1. run.sent \in 0 .. Len(Fresh(run))
        BY <2>1
      <3> QED BY <2>1, <2>4, <3>1, ServedOfRun
    <2>6. \A s \in RowsTo(m) : Row(s) \in FullOf(run.vintage, run.city, run.reading)
      <3>1. \A i \in run.sent + 1 .. m : i \in DOMAIN Fresh(run)
        <4>1. DOMAIN Fresh(run) = 1 .. Len(W)
          BY <1>1, <2>1, FreshFacts DEF Insertable
        <4> QED BY <2>1, <2>2, <2>3, <4>1
      <3>2. \A i : Row(FreshRow(run, i)) =
                     [addr |-> Fresh(run)[i].addr, key |-> Fresh(run)[i].key,
                      postal |-> Fresh(run)[i].postal, vintage |-> run.vintage]
        BY DEF Row, FreshRow
      <3>3. \A i \in DOMAIN Fresh(run) : Row(FreshRow(run, i)) \in FullOf(run.vintage, run.city, run.reading)
        BY <3>2 DEF FullOf, ToSet, Fresh
      <3> QED BY <2>4, <3>1, <3>3
    <2>7. /\ Served(run.city, rows') = Served(run.city, rows) \cup {Row(s) : s \in RowsTo(m)}
          /\ \A r : r.key \notin Scope[run.city] => (r \in rows' <=> r \in rows)
      BY <2>3, <2>4 DEF Served, Row
    <2>8. ServedFrom(rows') = [ServedFrom(rows) EXCEPT ![run.city] = Served(run.city, rows')]
      BY <1>1, <2>7, ServedElsewhere
    <2> DEFINE added == Served(run.city, rows') \ Served(run.city, rows)
               full == FullOf(run.vintage, run.city, run.reading)
    <2>9. CASE added = {}
      <3>1. ServedFrom(rows') = ServedFrom(rows)
        BY <2>7, <2>8, <2>9 DEF ServedFrom
      <3> QED BY <2>1, <3>1 DEF Refresh!vars, ServedFrom
    <2>10. CASE added # {}
      <3>1. added \in SUBSET (full \ Served(run.city, rows))
        BY <2>6, <2>7
      <3>2. Served(run.city, rows') = Served(run.city, rows) \cup added
        BY <2>7
      <3>3. ServedFrom(rows') = [ServedFrom(rows) EXCEPT ![run.city] = @ \cup added]
        BY <1>1, <2>8, <3>2 DEF ServedFrom
      <3> HIDE DEF added, full
      <3>4. Refresh!Serve(run.city, run.vintage)
        <4>1. full \in Full[run.vintage][run.city]
          BY <1>0 DEF full
        <4>2. ServedFrom(rows)[run.city] \subseteq full
          BY <1>0, <2>5 DEF full
        <4>3. added \in SUBSET (full \ ServedFrom(rows)[run.city])
          BY <1>0, <3>1
        <4> HIDE DEF Full
        <4>4. /\ \E f \in Full[run.vintage][run.city] :
                    /\ ServedFrom(rows)[run.city] \subseteq f
                    /\ \E new \in SUBSET (f \ ServedFrom(rows)[run.city]) :
                         /\ new # {}
                         /\ ServedFrom(rows') = [ServedFrom(rows) EXCEPT ![run.city] = @ \cup new]
              /\ ledger' = ledger
          BY <2>1, <2>10, <3>3, <4>1, <4>2, <4>3
        <4> QED BY <4>4 DEF Refresh!Serve, ServedFrom, Full
      <3> QED BY <1>1, <3>4 DEF Refresh!Next
    <2> QED BY <2>9, <2>10
  <1>5. CASE RecordImport
    <2>1. /\ run.phase = "provenance" /\ rows' = rows /\ (ledger' = Recorded \/ ledger' = ledger)
      BY <1>5 DEF RecordImport, Request, tables
    <2>2. CASE ledger' = ledger
      BY <1>2, <2>1, <2>2
    <2>3. CASE ledger' = Recorded
      <3>1. Served(run.city, rows) = FullOf(run.vintage, run.city, run.reading)
        <4>1. Own(run, rows) = Filed(run, Len(Fresh(run)))
          BY <2>1, StandsNow DEF Stands, RowsStand, Filling
        <4>2. Len(Fresh(run)) \in 0 .. Len(Fresh(run))
          BY <1>1, FreshFacts DEF Insertable
        <4> QED BY <2>1, <4>1, <4>2, ServedOfRun
      <3>2. Refresh!Declare(run.city, run.vintage)
        <4>1. /\ ServedFrom(rows)[run.city] \in Full[run.vintage][run.city]
              /\ ledger' = [ledger EXCEPT ![run.city] = @ \cup {run.vintage}]
              /\ ServedFrom(rows') = ServedFrom(rows)
          BY <1>0, <2>1, <2>3, <3>1 DEF Recorded
        <4> QED BY <4>1 DEF Refresh!Declare, ServedFrom
      <3> QED BY <1>1, <3>2 DEF Refresh!Next
    <2> QED BY <2>1, <2>2, <2>3
  <1>6. CASE DeleteChunk
    <2>1. ledger' = ledger /\ (rows' = rows \ Doomed \/ rows' = rows)
      BY <1>6 DEF DeleteChunk, tables
    <2> QED BY <1>2, <1>3, <2>1
  <1>7. CASE Work /\ ~DeleteChunk /\ ~InsertBatch /\ ~RecordImport
    <2>1. UNCHANGED <<rows, ledger>>
      BY <1>7 DEF Work, DeleteCentroids, DeleteRanges, InsertRefused, InsertedAll, WriteAggregates,
         RecomputePostals, RebuildSuggest, RecordKeys, Request, tables
    <2> QED BY <1>2, <2>1
  <1>8. CASE [Next]_vars /\ ~Work
    <2>1. UNCHANGED <<rows, ledger>>
      BY <1>8 DEF Next, DailyRun, ManualRun, RefreshCity, DiesUnpacking, Dies, NewRelease, vars, tables
    <2> QED BY <1>2, <2>1
  <1> QED BY <1>4, <1>5, <1>6, <1>7, <1>8

(* But for the import of the province, a reader sees a refresh withdraw the *)
(* rows of its city before it serves any of the new vintage, serve nothing  *)
(* but that vintage of it, declare it done when all of it is served, and    *)
(* touch no other city.                                                     *)
THEOREM RefreshKeepsPromise == OdaSpec => RefreshesByVintage
  <1>1. ASSUME ImportInv, [OdaNext]_odaVars
        PROVE  [load.phase = "idle" /\ load'.phase = "idle" => Refresh!Next]_(Refresh!vars)
    <2>1. ASSUME load.phase = "idle", load'.phase = "idle"
          PROVE  [Next]_vars
      <3>1. CASE UNCHANGED odaVars
        BY <3>1 DEF odaVars
      <3>2. CASE \E how \in {"plain", "resume", "centroids"} : StartLoad(how)
        <4>1. PICK how \in {"plain", "resume", "centroids"} : StartLoad(how)
          BY <3>2
        <4>2. load'.phase \in {"upload", "sweep", "aggregates"}
          BY <4>1 DEF StartLoad, Derived
        <4> QED BY <2>1, <4>2
      <3>3. CASE StartBuild
        <4> PICK x : x = NoLoad
          OBVIOUS
        <4>1. load \in LoadRecords
          BY <1>1 DEF ImportInv, LoadInv, LoadTypes
        <4>2. x \in LoadRecords
          BY <4>1, LoadRecordFacts
        <4>3. load'.phase = "index"
          BY <3>3, <4>2 DEF StartBuild, LoadRecords
        <4> QED BY <2>1, <4>3
      <3>4. ~LoadWork /\ ~LoadDies
        BY <2>1 DEF LoadWork, UploadFile, UploadRefused, Sweep, FlushAggregates, BuildIndex, LoadDies
      <3>5. CASE Refreshes
        BY <3>5 DEF Refreshes
      <3> QED BY <1>1, <3>1, <3>2, <3>3, <3>4, <3>5 DEF OdaNext
    <2>2. CASE load.phase = "idle" /\ load'.phase = "idle"
      <3>1. RefreshInv /\ [Next]_vars
        BY <1>1, <2>1, <2>2 DEF ImportInv
      <3>2. Refresh!Next \/ UNCHANGED Refresh!vars
        BY <3>1, NextRefreshes
      <3> QED BY <3>2
    <2> QED BY <2>2
  <1>2. ImportInv /\ [OdaNext]_odaVars =>
          [load.phase = "idle" /\ load'.phase = "idle" => Refresh!Next]_(Refresh!vars)
    BY <1>1
  <1> QED BY <1>2, ImportInvHolds, PTL DEF OdaSpec, RefreshesByVintage

(* Of the refreshes alone, from the first import on, the same is the whole  *)
(* behaviour: they implement CityRefresh.                                   *)
THEOREM RefreshImplements == Spec => ImplementsCityRefresh
  <1>1. Init => RefreshInv /\ Refresh!Init
    <2>1. ASSUME Init PROVE Refresh!Init
      <3>1. ServedFrom(rows) \in [Cities -> SUBSET UNION {ServedFrom(rows)[c] : c \in Cities}]
        BY DEF ServedFrom
      <3> QED BY <2>1, <3>1 DEF Refresh!Init, Init, ServedFrom
    <2> QED BY <2>1, RefreshStarts
  <1>2. RefreshInv /\ [Next]_vars => RefreshInv' /\ [Refresh!Next]_(Refresh!vars)
    BY RefreshNextKeeps, NextRefreshes
  <1> QED BY <1>1, <1>2, PTL DEF Spec, ImplementsCityRefresh, Refresh!RefreshSpec

(***************************************************************************)
(* The autocomplete during a refresh                                       *)
(***************************************************************************)
CivicIn(S, k, q) == {r \in S : r.key = k /\ CivicOf[r.addr] = q.civic}
TypedIn(S, k, q) == {r \in CivicIn(S, k, q) : UnitOf[r.addr] = q.unit}
UnitsIn(S, k, q) == {UnitOf[r.addr] : r \in CivicIn(S, k, q)} \ {0}

(* A suggestion, by what was there throughout and what ever was. *)
AsTyped(s, q, always, ever) ==
  s.looked =>
    /\ q.unit # 0 /\ TypedIn(always, s.key, q) # {} =>
         s.kind = "leaf" /\ s.row \in TypedIn(ever, s.key, q)
    /\ s.kind = "leaf" => s.row \in CivicIn(ever, s.key, q)
    /\ Cardinality(UnitsIn(always, s.key, q)) > 1 /\ s.kind = "leaf" =>
         q.unit # 0 /\ UnitOf[s.row.addr] = q.unit
    /\ Cardinality(UnitsIn(ever, s.key, q)) <= 1 => s.kind # "building"
    /\ CivicIn(always, s.key, q) # {} => s.kind # "ranged"

OneEach(offers) == \A i, j \in DOMAIN offers : offers[j].key = offers[i].key => j = i
AllAsTyped(offers, q, always, ever) ==
  /\ OneEach(offers)
  /\ \A i \in DOMAIN offers : AsTyped(offers[i], q, always, ever)
AnswerAsTyped(answer) == AllAsTyped(answer.list, answer.query, answer.always, answer.ever)

(* A search: the streets it has yet to look into are not among those it has,*)
(* and the units it counted are between those always and those ever there.  *)
Parts == {"query", "at", "rest", "lookups", "out", "base", "units", "always", "ever"}
Seen(x, S) == x.always \subseteq S /\ S \subseteq x.ever
ToCome(x) ==
  /\ x.rest \in Seq(Keys) /\ IsInjective(x.rest)
  /\ x.at = "index" => x.out = <<>>
  /\ x.at # "index" => x.rest # <<>>
  /\ \A i \in DOMAIN x.out, j \in DOMAIN x.rest : x.out[i].key # x.rest[j]
AtUnit(x) ==
  LET k == Head(x.rest) IN
  /\ x.query.unit # 0 /\ x.base \in CivicIn(x.ever, k, x.query)
  /\ x.units \in Nat
  /\ Cardinality(UnitsIn(x.always, k, x.query)) <= x.units
  /\ x.units <= Cardinality(UnitsIn(x.ever, k, x.query))
Searching(x, S) ==
  /\ DOMAIN x = Parts /\ x.query \in Typings /\ x.at \in {"index", "street", "unit"}
  /\ Seen(x, S) /\ IsFiniteSet(x.ever)
  /\ ToCome(x)
  /\ \E T : x.out \in Seq(T)
  /\ AllAsTyped(x.out, x.query, x.always, x.ever)
  /\ x.at = "unit" => AtUnit(x)

SuggestInv ==
  /\ RefreshInv
  /\ search # Missing => Searching(search, rows)
  /\ offered # Missing => AnswerAsTyped(offered)
  /\ DOMAIN cached = Typings
  /\ \A q \in Typings : cached[q] # Missing => AnswerAsTyped(cached[q])

(* More rows have larger units. *)
LEMMA UnitsGrow ==
  ASSUME NEW S, NEW T, S \subseteq T, IsFiniteSet(T), NEW k, NEW q
  PROVE  /\ Cardinality(UnitsIn(S, k, q)) \in Nat /\ Cardinality(UnitsIn(T, k, q)) \in Nat
         /\ Cardinality(UnitsIn(S, k, q)) <= Cardinality(UnitsIn(T, k, q))
  <1> DEFINE at == CivicIn(T, k, q)
             of == [r \in at |-> UnitOf[r.addr]]
             all == {of[r] : r \in at}
  <1>1. IsFiniteSet(at)
    BY FS_Subset DEF CivicIn
  <1>2. IsFiniteSet(all)
    <2> HIDE DEF at, of
    <2>1. PICK f : f = of
      OBVIOUS
    <2>2. IsFiniteSet({f[r] : r \in at})
      BY <1>1, ImageIsFinite
    <2> QED BY <2>1, <2>2
  <1>3. UnitsIn(T, k, q) \subseteq all /\ UnitsIn(S, k, q) \subseteq UnitsIn(T, k, q)
    BY DEF UnitsIn, CivicIn
  <1>4. IsFiniteSet(UnitsIn(T, k, q))
    BY <1>2, <1>3, FS_Subset
  <1> QED BY <1>3, <1>4, FS_Subset, FS_CardinalityType

(* What is as it was typed remains so when rows come and go. *)
LEMMA AsTypedStays ==
  ASSUME NEW s, NEW q, NEW always, NEW ever, AsTyped(s, q, always, ever),
         NEW smaller \in SUBSET always, NEW larger, ever \subseteq larger,
         IsFiniteSet(always), IsFiniteSet(larger)
  PROVE  AsTyped(s, q, smaller, larger)
  <1>1. /\ TypedIn(smaller, s.key, q) \subseteq TypedIn(always, s.key, q)
        /\ TypedIn(ever, s.key, q) \subseteq TypedIn(larger, s.key, q)
        /\ CivicIn(smaller, s.key, q) \subseteq CivicIn(always, s.key, q)
        /\ CivicIn(ever, s.key, q) \subseteq CivicIn(larger, s.key, q)
    BY DEF TypedIn, CivicIn
  <1>2. /\ Cardinality(UnitsIn(smaller, s.key, q)) \in Nat
        /\ Cardinality(UnitsIn(always, s.key, q)) \in Nat
        /\ Cardinality(UnitsIn(smaller, s.key, q)) <= Cardinality(UnitsIn(always, s.key, q))
    BY UnitsGrow
  <1>3. /\ Cardinality(UnitsIn(ever, s.key, q)) \in Nat
        /\ Cardinality(UnitsIn(larger, s.key, q)) \in Nat
        /\ Cardinality(UnitsIn(ever, s.key, q)) <= Cardinality(UnitsIn(larger, s.key, q))
    BY UnitsGrow
  <1> QED BY <1>1, <1>2, <1>3 DEF AsTyped

(* A suggestion put behind the others. *)
LEMMA PutBehind ==
  ASSUME NEW T, NEW out \in Seq(T), NEW s, NEW q, NEW always, NEW ever,
         AllAsTyped(out, q, always, ever), AsTyped(s, q, always, ever),
         \A i \in DOMAIN out : out[i].key # s.key
  PROVE  /\ Append(out, s) \in Seq(T \cup {s})
         /\ AllAsTyped(Append(out, s), q, always, ever)
         /\ \A i \in DOMAIN Append(out, s) : \/ i \in DOMAIN out /\ Append(out, s)[i] = out[i]
                                             \/ Append(out, s)[i] = s
  <1>1. out \in Seq(T \cup {s})
    BY ElementOfSeq, LenProperties, SeqDef
  <1>2. /\ Append(out, s) \in Seq(T \cup {s}) /\ Len(Append(out, s)) = Len(out) + 1
        /\ \A i \in 1 .. Len(out) : Append(out, s)[i] = out[i]
        /\ Append(out, s)[Len(out) + 1] = s
    BY <1>1, AppendProperties
  <1>3. /\ DOMAIN out = 1 .. Len(out) /\ Len(out) \in Nat
        /\ DOMAIN Append(out, s) = 1 .. Len(out) + 1
    BY <1>1, <1>2, LenProperties
  <1> DEFINE longer == Append(out, s)
  <1> HIDE DEF longer
  <1>4. /\ \A i \in DOMAIN longer : \/ i \in DOMAIN out /\ longer[i] = out[i]
                                    \/ i = Len(out) + 1 /\ longer[i] = s
        /\ Len(out) + 1 \notin DOMAIN out
    BY <1>2, <1>3 DEF longer
  <1>5. OneEach(longer)
    BY <1>4 DEF OneEach, AllAsTyped
  <1>6. \A i \in DOMAIN longer : AsTyped(longer[i], q, always, ever)
    BY <1>4 DEF AllAsTyped
  <1>7. AllAsTyped(longer, q, always, ever)
    BY <1>5, <1>6 DEF AllAsTyped
  <1> QED BY <1>2, <1>4, <1>7 DEF longer

(* What is answered is kept, in the cache perhaps as well. *)
LEMMA OffersKeep ==
  ASSUME SuggestInv, search # Missing, NEW offers, Offers(offers), UNCHANGED vars,
         AllAsTyped(offers, search.query, search.always, search.ever)
  PROVE  SuggestInv'
  <1> DEFINE answer == [query |-> asked, list |-> offers, always |-> search.always,
                        ever |-> search.ever]
  <1>1. AnswerAsTyped(answer)
    BY DEF AnswerAsTyped, asked
  <1>2. PICK x : x = answer
    OBVIOUS
  <1>3. /\ offered' = x /\ search' = Missing
        /\ cached' \in {cached, [cached EXCEPT ![asked] = x]}
    BY <1>2 DEF Offers
  <1>4. AnswerAsTyped(x)
    BY <1>1, <1>2
  <1>5. DOMAIN cached' = Typings /\ \A q \in Typings : cached'[q] \in {cached[q], x}
    <2>1. DOMAIN cached = Typings
      BY DEF SuggestInv
    <2>2. CASE cached' = cached
      BY <2>1, <2>2
    <2>3. CASE cached' = [cached EXCEPT ![asked] = x]
      BY <2>1, <2>3
    <2> QED BY <2>2, <2>3, <1>3
  <1>6. \A q \in Typings : cached'[q] # Missing => AnswerAsTyped(cached'[q])
    BY <1>4, <1>5 DEF SuggestInv
  <1>7. RefreshInv'
    BY RefreshNextKeeps DEF SuggestInv
  <1> QED BY <1>3, <1>4, <1>5, <1>6, <1>7 DEF SuggestInv

(* A search goes on. *)
LEMMA SearchGoesOn ==
  ASSUME SuggestInv, search # Missing => Searching(search', rows), UNCHANGED vars,
         UNCHANGED <<offered, cached>>, search = Missing => search' = Missing
  PROVE  SuggestInv'
  <1>1. RefreshInv'
    BY RefreshNextKeeps DEF SuggestInv
  <1>2. rows' = rows
    BY DEF vars, tables
  <1>3. search' # Missing => Searching(search', rows')
    BY <1>2
  <1> QED BY <1>1, <1>3 DEF SuggestInv

LEMMA BeginsKeeps ==
  ASSUME SuggestInv, NEW q \in Typings, Begins(q)
  PROVE  SuggestInv'
  <1>1. RefreshInv'
    BY RefreshNextKeeps DEF SuggestInv, Begins
  <1>2. UNCHANGED cached /\ rows' = rows
    BY DEF Begins, vars, tables
  <1>3. CASE cached[q] # Missing
    BY <1>1, <1>2, <1>3 DEF SuggestInv, Begins
  <1>4. CASE cached[q] = Missing
    <2> DEFINE x == [query |-> q, at |-> "index", rest |-> <<>>, lookups |-> 0, out |-> <<>>,
                     base |-> Missing, units |-> 0, always |-> rows, ever |-> rows]
    <2>1. search' = x /\ UNCHANGED offered
      BY <1>4 DEF Begins
    <2>2. /\ x.query = q /\ x.at = "index" /\ x.rest = <<>> /\ x.out = <<>>
          /\ x.always = rows /\ x.ever = rows /\ DOMAIN x = Parts
      BY DEF Parts
    <2>3. IsFiniteSet(rows)
      BY DEF SuggestInv, RefreshInv, Sound
    <2>4. PICK y : y = x
      OBVIOUS
    <2>5. ToCome(y)
      BY <2>2, <2>4 DEF ToCome, IsInjective
    <2>6. AllAsTyped(y.out, y.query, y.always, y.ever)
      BY <2>2, <2>4 DEF AllAsTyped, OneEach
    <2>7. Seen(y, rows)
      BY <2>2, <2>4 DEF Seen
    <2>8. <<>> \in Seq({})
      OBVIOUS
    <2>9. /\ DOMAIN y = Parts /\ y.query = q /\ y.at = "index" /\ y.out = <<>>
          /\ y.ever = rows
      BY <2>2, <2>4
    <2>10. \E T : y.out \in Seq(T)
      BY <2>8, <2>9
    <2>11. Searching(y, rows)
      BY <2>3, <2>5, <2>6, <2>7, <2>9, <2>10 DEF Searching
    <2> QED BY <2>1, <2>4, <2>11, <1>1, <1>2 DEF SuggestInv
  <1> QED BY <1>3, <1>4

LEMMA ExpiresKeeps ==
  ASSUME SuggestInv, NEW q \in Typings, Expires(q)
  PROVE  SuggestInv'
  <1>1. RefreshInv'
    BY RefreshNextKeeps DEF SuggestInv, Expires
  <1>2. rows' = rows
    BY DEF Expires, vars, tables
  <1> QED BY <1>1, <1>2 DEF SuggestInv, Expires

(* The first streets of those found, in any order. *)
LEMMA TopFacts ==
  ASSUME NEW found \in SUBSET Keys, IsFiniteSet(found), NEW top \in Top(found)
  PROVE  top \in Seq(Keys) /\ IsInjective(top)
  <1>1. PICK S \in SUBSET found : top \in SetToSeqs(S)
    BY DEF Top
  <1>2. Cardinality(S) \in Nat
    BY FS_Subset, FS_CardinalityType
  <1>3. /\ top \in [1 .. Cardinality(S) -> S]
        /\ \A i, j \in 1 .. Cardinality(S) : i # j => top[i] # top[j]
    BY <1>1 DEF SetToSeqs
  <1>4. top \in [1 .. Cardinality(S) -> Keys]
    BY <1>3
  <1>5. top \in Seq(Keys)
    BY <1>2, <1>4, SeqDef
  <1>6. IsInjective(top)
    BY <1>3 DEF IsInjective
  <1> QED BY <1>5, <1>6

LEMMA QueryContainersKeeps ==
  ASSUME SuggestInv, QueryContainers
  PROVE  SuggestInv'
  <1> DEFINE found == {k \in asked.keys : suggest[k] > 0}
  <1>1. PICK top \in Top(found) :
          IF top = <<>> \/ asked.civic = 0
          THEN Offers([i \in DOMAIN top |-> Street(top[i])])
          ELSE /\ search' = [search EXCEPT !.at = "street", !.rest = top]
               /\ UNCHANGED <<offered, cached>>
    BY DEF QueryContainers
  <1>2. search # Missing /\ search.at = "index" /\ UNCHANGED vars
    BY DEF QueryContainers
  <1>3. Searching(search, rows)
    BY <1>2 DEF SuggestInv
  <1>4. top \in Seq(Keys) /\ IsInjective(top)
    <2>1. asked \in Typings
      BY <1>3 DEF Searching, asked
    <2>2. asked.keys \subseteq Keys /\ IsFiniteSet(asked.keys)
      BY <2>1, SuggestConstants
    <2>3. found \in SUBSET Keys /\ IsFiniteSet(found)
      BY <2>2, FS_Subset
    <2> QED BY <2>3, TopFacts
  <1>5. CASE top = <<>> \/ asked.civic = 0
    <2> DEFINE offers == [i \in DOMAIN top |-> Street(top[i])]
    <2>1. Offers(offers)
      BY <1>1, <1>5
    <2>2. \A i \in DOMAIN offers : offers[i].key = top[i] /\ offers[i].looked = FALSE
      BY DEF Street
    <2>3. OneEach(offers)
      BY <2>2, <1>4 DEF OneEach, IsInjective
    <2>4. AllAsTyped(offers, search.query, search.always, search.ever)
      BY <2>2, <2>3 DEF AllAsTyped, AsTyped
    <2> HIDE DEF offers
    <2> QED BY <2>1, <2>4, <1>2, OffersKeep
  <1>6. CASE ~(top = <<>> \/ asked.civic = 0)
    <2>1. /\ search' = [search EXCEPT !.at = "street", !.rest = top]
          /\ UNCHANGED <<offered, cached>>
      BY <1>1, <1>6
    <2>2. DOMAIN search = Parts
      BY <1>3 DEF Searching
    <2>3. PICK y : y = search'
      OBVIOUS
    <2>4. /\ DOMAIN y = Parts /\ y.at = "street" /\ y.rest = top
          /\ y.query = search.query /\ y.out = search.out
          /\ y.always = search.always /\ y.ever = search.ever
      BY <2>1, <2>2, <2>3 DEF Parts
    <2>5. ToCome(y)
      BY <2>4, <1>2, <1>3, <1>4, <1>6 DEF ToCome, Searching
    <2>6. Searching(y, rows)
      BY <2>4, <2>5, <1>3 DEF Searching, Seen
    <2> QED BY <2>1, <2>3, <2>6, <1>2, SearchGoesOn
  <1> QED BY <1>5, <1>6

(* The first street is put behind what is offered, and the others remain. *)
LEMMA PutsKeeps ==
  ASSUME SuggestInv, search # Missing, search.at # "index", UNCHANGED vars,
         NEW s, NEW count, Puts(s, count), s.key = Head(search.rest),
         AsTyped(s, search.query, search.always, search.ever)
  PROVE  SuggestInv'
  <1>1. Searching(search, rows)
    BY DEF SuggestInv
  <1>2. PICK T : search.out \in Seq(T)
    BY <1>1 DEF Searching
  <1>3. PICK rest \in Seq(Keys) : rest = search.rest /\ rest # <<>> /\ IsInjective(rest)
    BY <1>1 DEF Searching, ToCome
  <1>4. PICK tail : tail = Tail(rest)
    OBVIOUS
  <1>5. /\ tail \in Seq(Keys) /\ IsInjective(tail) /\ Head(rest) \notin ToSet(tail)
        /\ Head(rest) = rest[1] /\ 1 \in DOMAIN rest
        /\ \A i \in DOMAIN tail : i + 1 \in DOMAIN rest /\ tail[i] = rest[i + 1]
    BY <1>3, <1>4, HeadTailFacts
  <1>6. \A i \in DOMAIN search.out : search.out[i].key # s.key
    BY <1>1, <1>3, <1>5 DEF Searching, ToCome
  <1>7. AllAsTyped(search.out, search.query, search.always, search.ever)
    BY <1>1 DEF Searching
  <1>8. PICK out : out = Append(search.out, s)
    OBVIOUS
  <1>9. /\ out \in Seq(T \cup {s})
        /\ AllAsTyped(out, search.query, search.always, search.ever)
        /\ \A i \in DOMAIN out : \/ i \in DOMAIN search.out /\ out[i] = search.out[i]
                                 \/ out[i] = s
    <2>1. PICK q, always, ever : q = search.query /\ always = search.always /\ ever = search.ever
      OBVIOUS
    <2>2. AllAsTyped(search.out, q, always, ever) /\ AsTyped(s, q, always, ever)
      BY <2>1, <1>7
    <2>3. PICK now \in Seq(T) : now = search.out
      BY <1>2
    <2>4. /\ AllAsTyped(now, q, always, ever)
          /\ \A i \in DOMAIN now : now[i].key # s.key
      BY <2>2, <2>3, <1>6
    <2>5. /\ Append(now, s) \in Seq(T \cup {s})
          /\ AllAsTyped(Append(now, s), q, always, ever)
          /\ \A i \in DOMAIN Append(now, s) : \/ i \in DOMAIN now /\ Append(now, s)[i] = now[i]
                                              \/ Append(now, s)[i] = s
      BY <2>2, <2>4, PutBehind
    <2> QED BY <2>1, <2>3, <2>5, <1>8
  <1>10. CASE tail = <<>>
    <2>1. Offers(out)
      BY <1>10, <1>3, <1>4, <1>8 DEF Puts
    <2> QED BY <2>1, <1>9, OffersKeep
  <1>11. CASE tail # <<>>
    <2>1. /\ search' = [search EXCEPT !.at = "street", !.rest = tail, !.lookups = count,
                                      !.out = out, !.base = Missing]
          /\ UNCHANGED <<offered, cached>>
      BY <1>11, <1>3, <1>4, <1>8 DEF Puts
    <2>2. DOMAIN search = Parts
      BY <1>1 DEF Searching
    <2>3. PICK y : y = search'
      OBVIOUS
    <2>4. /\ DOMAIN y = Parts /\ y.at = "street" /\ y.rest = tail
          /\ y.query = search.query /\ y.out = out
          /\ y.always = search.always /\ y.ever = search.ever
      BY <2>1, <2>2, <2>3 DEF Parts
    <2>5. \A i \in DOMAIN out, j \in DOMAIN tail : out[i].key # tail[j]
      <3> SUFFICES ASSUME NEW i \in DOMAIN out, NEW j \in DOMAIN tail PROVE out[i].key # tail[j]
        OBVIOUS
      <3>1. CASE i \in DOMAIN search.out /\ out[i] = search.out[i]
        BY <3>1, <1>1, <1>3, <1>5 DEF Searching, ToCome
      <3>2. CASE out[i] = s
        BY <3>2, <1>3, <1>5 DEF ToSet
      <3> QED BY <3>1, <3>2, <1>9
    <2>6. ToCome(y)
      BY <2>4, <2>5, <1>5, <1>11 DEF ToCome
    <2>7. \E U : y.out \in Seq(U)
      BY <2>4, <1>9
    <2>8. Searching(y, rows)
      BY <2>4, <2>6, <2>7, <1>1, <1>9 DEF Searching, Seen
    <2> QED BY <2>1, <2>3, <2>8, SearchGoesOn
  <1> QED BY <1>10, <1>11

(* The street to be looked into next, and the rows there are. *)
LEMMA NextStreet ==
  ASSUME SuggestInv, search # Missing, search.at # "index"
  PROVE  /\ Searching(search, rows) /\ IsFiniteSet(rows) /\ IsFiniteSet(search.always)
         /\ search.always \subseteq rows /\ rows \subseteq search.ever /\ IsFiniteSet(search.ever)
  <1>1. Searching(search, rows)
    BY DEF SuggestInv
  <1>2. search.always \subseteq rows /\ rows \subseteq search.ever /\ IsFiniteSet(search.ever)
    BY <1>1 DEF Searching, Seen
  <1> QED BY <1>1, <1>2, FS_Subset

LEMMA TakesStreetKeeps ==
  ASSUME SuggestInv, TakesStreet
  PROVE  SuggestInv'
  <1>1. PICK s : s = Street(Head(search.rest))
    OBVIOUS
  <1>2. s.key = Head(search.rest) /\ s.looked = FALSE
    BY <1>1 DEF Street
  <1>3. AsTyped(s, search.query, search.always, search.ever)
    BY <1>2 DEF AsTyped
  <1>4. Puts(s, search.lookups) /\ search # Missing /\ search.at # "index" /\ UNCHANGED vars
    BY <1>1 DEF TakesStreet
  <1> QED BY <1>2, <1>3, <1>4, PutsKeeps

(* The units and addresses at the civic now, with those always and ever there. *)
LEMMA CivicNow ==
  ASSUME NEW S, NEW always, NEW ever, always \subseteq S, S \subseteq ever, IsFiniteSet(ever),
         NEW k, NEW q
  PROVE  /\ CivicIn(always, k, q) \subseteq CivicIn(S, k, q)
         /\ CivicIn(S, k, q) \subseteq CivicIn(ever, k, q)
         /\ Cardinality(UnitsIn(S, k, q)) \in Nat
         /\ Cardinality(UnitsIn(always, k, q)) \in Nat
         /\ Cardinality(UnitsIn(ever, k, q)) \in Nat
         /\ Cardinality(UnitsIn(always, k, q)) <= Cardinality(UnitsIn(S, k, q))
         /\ Cardinality(UnitsIn(S, k, q)) <= Cardinality(UnitsIn(ever, k, q))
         /\ UnitsIn(S, k, q) = {UnitOf[r.addr] : r \in CivicIn(S, k, q)} \ {0}
  <1>1. IsFiniteSet(S)
    BY FS_Subset
  <1>2. /\ CivicIn(always, k, q) \subseteq CivicIn(S, k, q)
        /\ CivicIn(S, k, q) \subseteq CivicIn(ever, k, q)
    BY DEF CivicIn
  <1> QED BY <1>1, <1>2, UnitsGrow DEF UnitsIn

LEMMA LooksAtCivicKeeps ==
  ASSUME SuggestInv, LooksAtCivic
  PROVE  SuggestInv'
  <1>1. PICK k, q : k = Head(search.rest) /\ q = search.query
    OBVIOUS
  <1>2. PICK always, ever : always = search.always /\ ever = search.ever
    OBVIOUS
  <1> DEFINE there == CivicIn(rows, k, q)
             total == Cardinality(UnitsIn(rows, k, q))
  <1>3. AtCivicOf(k) = there /\ UnitTotal(there) = total
    BY <1>1 DEF AtCivicOf, CivicIn, asked, UnitTotal, UnitsIn
  <1>4. search # Missing /\ search.at # "index" /\ UNCHANGED vars
    BY DEF LooksAtCivic
  <1>5. /\ Searching(search, rows) /\ IsFiniteSet(rows) /\ IsFiniteSet(always)
        /\ always \subseteq rows /\ rows \subseteq ever /\ IsFiniteSet(ever)
    BY <1>2, <1>4, NextStreet
  <1>6. /\ CivicIn(always, k, q) \subseteq there /\ there \subseteq CivicIn(ever, k, q)
        /\ total \in Nat
        /\ Cardinality(UnitsIn(always, k, q)) \in Nat
        /\ Cardinality(UnitsIn(ever, k, q)) \in Nat
        /\ Cardinality(UnitsIn(always, k, q)) <= total
        /\ total <= Cardinality(UnitsIn(ever, k, q))
    BY <1>5, CivicNow
  <1>7. CASE there = {}
    <2>1. PICK s : s = Ranged(k)
      OBVIOUS
    <2>2. Puts(s, search.lookups + 1)
      BY <2>1, <1>1, <1>3, <1>7 DEF LooksAtCivic
    <2>3. s.key = k /\ s.kind = "ranged"
      BY <2>1 DEF Ranged
    <2>4. TypedIn(always, k, q) = {} /\ CivicIn(always, k, q) = {}
      BY <1>6, <1>7 DEF TypedIn
    <2>5. AsTyped(s, q, always, ever)
      BY <2>3, <2>4 DEF AsTyped
    <2> QED BY <2>2, <2>3, <2>5, <1>1, <1>2, <1>4, PutsKeeps
  <1>8. CASE there # {}
    <2> HIDE DEF there, total
    <2>1. PICK r \in FirstOf(there) :
            IF asked.unit # 0
            THEN /\ search' = [search EXCEPT !.at = "unit", !.lookups = @ + 1, !.base = r,
                                             !.units = total]
                 /\ UNCHANGED <<offered, cached>>
            ELSE Puts(IF total > 1 THEN Building(k, r) ELSE Leaf(k, r), search.lookups + 1)
      BY <1>1, <1>3, <1>8 DEF LooksAtCivic
    <2>2. r \in there /\ r \in CivicIn(ever, k, q)
      BY <1>6 DEF FirstOf
    <2>3. CASE q.unit # 0
      <3>1. /\ search' = [search EXCEPT !.at = "unit", !.lookups = @ + 1, !.base = r,
                                        !.units = total]
            /\ UNCHANGED <<offered, cached>>
        BY <2>1, <2>3, <1>1 DEF asked
      <3>2. DOMAIN search = Parts
        BY <1>5 DEF Searching
      <3>3. PICK y : y = search'
        OBVIOUS
      <3>4. /\ DOMAIN y = Parts /\ y.at = "unit" /\ y.rest = search.rest
            /\ y.query = q /\ y.out = search.out /\ y.base = r /\ y.units = total
            /\ y.always = always /\ y.ever = ever
        BY <3>1, <3>2, <3>3, <1>1, <1>2 DEF Parts
      <3>5. ToCome(y)
        BY <3>4, <1>4, <1>5 DEF ToCome, Searching
      <3>6. AtUnit(y)
        BY <3>4, <2>2, <2>3, <1>1, <1>6 DEF AtUnit
      <3>7. \E T : y.out \in Seq(T)
        BY <3>4, <1>5 DEF Searching
      <3>8. Searching(y, rows)
        BY <3>4, <3>5, <3>6, <3>7, <1>1, <1>2, <1>5 DEF Searching, Seen
      <3> QED BY <3>1, <3>3, <3>8, <1>4, SearchGoesOn
    <2>4. CASE q.unit = 0
      <3>1. PICK s : s = IF total > 1 THEN Building(k, r) ELSE Leaf(k, r)
        OBVIOUS
      <3>2. Puts(s, search.lookups + 1)
        BY <3>1, <2>1, <2>4, <1>1 DEF asked
      <3>3. s.key = k /\ s.row = r /\ s.kind = IF total > 1 THEN "building" ELSE "leaf"
        BY <3>1 DEF Building, Leaf
      <3>4. AsTyped(s, q, always, ever)
        BY <3>3, <2>2, <2>4, <1>6 DEF AsTyped
      <3> QED BY <3>2, <3>3, <3>4, <1>1, <1>2, <1>4, PutsKeeps
    <2> QED BY <2>3, <2>4
  <1> QED BY <1>7, <1>8

LEMMA LooksForUnitKeeps ==
  ASSUME SuggestInv, LooksForUnit
  PROVE  SuggestInv'
  <1>1. PICK k, q : k = Head(search.rest) /\ q = search.query
    OBVIOUS
  <1>2. PICK always, ever : always = search.always /\ ever = search.ever
    OBVIOUS
  <1> DEFINE exact == TypedIn(rows, k, q)
  <1>3. {r \in AtCivicOf(k) : UnitOf[r.addr] = asked.unit} = exact
    BY <1>1 DEF AtCivicOf, CivicIn, TypedIn, asked
  <1>4. search # Missing /\ search.at = "unit" /\ UNCHANGED vars
    BY DEF LooksForUnit
  <1>5. /\ Searching(search, rows) /\ IsFiniteSet(rows) /\ IsFiniteSet(always)
        /\ always \subseteq rows /\ rows \subseteq ever /\ IsFiniteSet(ever)
    BY <1>2, <1>4, NextStreet
  <1>6. /\ q.unit # 0 /\ search.base \in CivicIn(ever, k, q) /\ search.units \in Nat
        /\ Cardinality(UnitsIn(always, k, q)) <= search.units
        /\ search.units <= Cardinality(UnitsIn(ever, k, q))
    BY <1>1, <1>2, <1>4, <1>5 DEF Searching, AtUnit
  <1>7. /\ Cardinality(UnitsIn(always, k, q)) \in Nat
        /\ Cardinality(UnitsIn(ever, k, q)) \in Nat
    BY <1>5, UnitsGrow
  <1>8. TypedIn(always, k, q) \subseteq exact /\ exact \subseteq TypedIn(ever, k, q)
    BY <1>5 DEF TypedIn, CivicIn
  <1>9. CASE exact # {}
    <2>1. PICK r \in exact : Puts(Leaf(k, r), search.lookups)
      BY <1>1, <1>3, <1>9 DEF LooksForUnit
    <2>2. PICK s : s = Leaf(k, r)
      OBVIOUS
    <2>3. s.key = k /\ s.row = r /\ s.kind = "leaf"
      BY <2>2 DEF Leaf
    <2>4. r \in TypedIn(ever, k, q) /\ r \in CivicIn(ever, k, q) /\ UnitOf[r.addr] = q.unit
      BY <1>8 DEF TypedIn
    <2>5. AsTyped(s, q, always, ever)
      BY <2>3, <2>4, <1>6 DEF AsTyped
    <2> QED BY <2>1, <2>2, <2>3, <2>5, <1>1, <1>2, <1>4, PutsKeeps
  <1>10. CASE exact = {}
    <2>1. PICK s : s = IF search.units > 1 THEN Building(k, search.base) ELSE Leaf(k, search.base)
      OBVIOUS
    <2>2. Puts(s, search.lookups)
      BY <2>1, <1>1, <1>3, <1>10 DEF LooksForUnit
    <2>3. /\ s.key = k /\ s.row = search.base
          /\ s.kind = IF search.units > 1 THEN "building" ELSE "leaf"
      BY <2>1 DEF Building, Leaf
    <2>4. TypedIn(always, k, q) = {}
      BY <1>8, <1>10
    <2>5. AsTyped(s, q, always, ever)
      <3>1. CASE search.units > 1
        BY <3>1, <2>3, <2>4, <1>6, <1>7 DEF AsTyped
      <3>2. CASE ~(search.units > 1)
        BY <3>2, <2>3, <2>4, <1>6, <1>7 DEF AsTyped
      <3> QED BY <3>1, <3>2
    <2> QED BY <2>2, <2>3, <2>5, <1>1, <1>2, <1>4, PutsKeeps
  <1> QED BY <1>9, <1>10

LEMMA SearchBreaksKeeps ==
  ASSUME SuggestInv, SearchBreaks
  PROVE  SuggestInv'
  <1>1. RefreshInv'
    BY RefreshNextKeeps DEF SuggestInv, SearchBreaks
  <1> QED BY <1>1 DEF SuggestInv, SearchBreaks

LEMMA RefreshGoesOnKeeps ==
  ASSUME SuggestInv, RefreshGoesOn
  PROVE  SuggestInv'
  <1>1. RefreshInv' /\ IsFiniteSet(rows')
    <2>1. RefreshInv'
      BY RefreshNextKeeps DEF SuggestInv, RefreshGoesOn
    <2> QED BY <2>1 DEF RefreshInv, Sound
  <1>2. UNCHANGED <<offered, cached>>
    BY DEF RefreshGoesOn
  <1>3. CASE search = Missing
    <2>1. search' = Missing
      BY <1>3 DEF RefreshGoesOn
    <2> QED BY <2>1, <1>1, <1>2 DEF SuggestInv
  <1>4. CASE search # Missing
    <2>1. Searching(search, rows)
      BY <1>4 DEF SuggestInv
    <2>2. PICK smaller, larger : smaller = search.always \cap rows' /\ larger = search.ever \cup rows'
      OBVIOUS
    <2>3. search' = [search EXCEPT !.always = smaller, !.ever = larger]
      BY <2>2, <1>4 DEF RefreshGoesOn
    <2>4. DOMAIN search = Parts
      BY <2>1 DEF Searching
    <2>5. PICK x, y : x = search /\ y = search'
      OBVIOUS
    <2>6. /\ DOMAIN y = Parts /\ y.at = x.at /\ y.rest = x.rest
          /\ y.query = x.query /\ y.out = x.out /\ y.base = x.base /\ y.units = x.units
          /\ y.always = smaller /\ y.ever = larger
      BY <2>3, <2>4, <2>5 DEF Parts
    <2>7. /\ x.always \subseteq x.ever /\ IsFiniteSet(x.ever) /\ IsFiniteSet(x.always)
          /\ IsFiniteSet(larger)
      BY <2>1, <2>2, <2>5, <1>1, FS_Subset, FS_Union DEF Searching, Seen
    <2>8. smaller \in SUBSET x.always /\ x.ever \subseteq larger /\ Seen(y, rows')
      BY <2>2, <2>5, <2>6 DEF Seen
    <2>9. ToCome(y)
      BY <2>1, <2>5, <2>6 DEF Searching, ToCome
    <2>10. AllAsTyped(y.out, y.query, y.always, y.ever)
      <3>1. AllAsTyped(x.out, x.query, x.always, x.ever)
        BY <2>1, <2>5 DEF Searching
      <3>2. ASSUME NEW i \in DOMAIN x.out PROVE AsTyped(x.out[i], x.query, smaller, larger)
        <4>1. PICK s, q, always, ever :
                s = x.out[i] /\ q = x.query /\ always = x.always /\ ever = x.ever
          OBVIOUS
        <4>2. AsTyped(s, q, always, ever) /\ ever \subseteq larger /\ IsFiniteSet(always)
          BY <4>1, <3>1, <2>7, <2>8 DEF AllAsTyped
        <4>3. smaller \in SUBSET always
          BY <4>1, <2>8
        <4>4. AsTyped(s, q, smaller, larger)
          BY <4>2, <4>3, <2>7, AsTypedStays
        <4> QED BY <4>1, <4>4
      <3> QED BY <3>1, <3>2, <2>6 DEF AllAsTyped
    <2>11. y.at = "unit" => AtUnit(y)
      <3> SUFFICES ASSUME y.at = "unit" PROVE AtUnit(y)
        OBVIOUS
      <3>1. PICK k, q : k = Head(x.rest) /\ q = x.query
        OBVIOUS
      <3>2. /\ q.unit # 0 /\ x.base \in CivicIn(x.ever, k, q) /\ x.units \in Nat
            /\ Cardinality(UnitsIn(x.always, k, q)) <= x.units
            /\ x.units <= Cardinality(UnitsIn(x.ever, k, q))
        BY <3>1, <2>1, <2>5, <2>6 DEF Searching, AtUnit
      <3>3. x.base \in CivicIn(larger, k, q)
        BY <3>2, <2>8 DEF CivicIn
      <3>4. /\ Cardinality(UnitsIn(x.always, k, q)) \in Nat
            /\ Cardinality(UnitsIn(smaller, k, q)) \in Nat
            /\ Cardinality(UnitsIn(smaller, k, q)) <= Cardinality(UnitsIn(x.always, k, q))
        BY <2>7, <2>8, UnitsGrow
      <3>5. /\ Cardinality(UnitsIn(x.ever, k, q)) \in Nat
            /\ Cardinality(UnitsIn(larger, k, q)) \in Nat
            /\ Cardinality(UnitsIn(x.ever, k, q)) <= Cardinality(UnitsIn(larger, k, q))
        BY <2>7, <2>8, UnitsGrow
      <3>6. /\ Cardinality(UnitsIn(smaller, k, q)) <= x.units
            /\ x.units <= Cardinality(UnitsIn(larger, k, q))
        BY <3>2, <3>4, <3>5
      <3> QED BY <3>1, <3>2, <3>3, <3>6, <2>6 DEF AtUnit
    <2>12. /\ y.query \in Typings /\ y.at \in {"index", "street", "unit"}
           /\ \E T : y.out \in Seq(T)
      BY <2>1, <2>5, <2>6 DEF Searching
    <2>13. Searching(y, rows')
      BY <2>6, <2>7, <2>8, <2>9, <2>10, <2>11, <2>12 DEF Searching
    <2> QED BY <2>5, <2>13, <1>1, <1>2 DEF SuggestInv
  <1> QED BY <1>3, <1>4

LEMMA SuggestNextKeeps ==
  ASSUME SuggestInv, [SuggestNext]_suggestVars
  PROVE  SuggestInv'
  <1>1. CASE UNCHANGED suggestVars
    <2>1. UNCHANGED <<vars, search, offered, cached>>
      BY <1>1 DEF suggestVars, suggesting
    <2>2. RefreshInv' /\ rows' = rows
      BY <2>1, RefreshNextKeeps DEF SuggestInv, vars, tables
    <2> QED BY <2>1, <2>2 DEF SuggestInv
  <1> QED BY <1>1, BeginsKeeps, ExpiresKeeps, QueryContainersKeeps, TakesStreetKeeps,
             LooksAtCivicKeeps, LooksForUnitKeeps, SearchBreaksKeeps, RefreshGoesOnKeeps
          DEF SuggestNext

(* What an answer lists is as was typed, through refreshes between its      *)
(* queries and from the cache (OfferedAsTyped).                             *)
THEOREM SearchesAreAsTyped == SuggestSpec => []OfferedAsTyped
  <1>1. Init /\ SuggestInit => SuggestInv
    BY RefreshStarts DEF SuggestInit, SuggestInv
  <1>2. SuggestInv /\ [SuggestNext]_suggestVars => SuggestInv'
    BY SuggestNextKeeps
  <1>3. SuggestInv => OfferedAsTyped
    <2> SUFFICES ASSUME SuggestInv, offered # Missing PROVE OfferedAsTyped
      BY DEF OfferedAsTyped
    <2>1. AnswerAsTyped(offered)
      BY DEF SuggestInv
    <2> QED BY <2>1 DEF OfferedAsTyped, AnswerAsTyped, AllAsTyped, OneEach, AsTyped, CivicIn,
                        TypedIn, UnitsIn
  <1> QED BY <1>1, <1>2, <1>3, PTL DEF SuggestSpec

(***************************************************************************)
(* A lookup during a refresh                                               *)
(***************************************************************************)

(* No row is of an earlier vintage than is stated of its city.              *)
VintageInv ==
  /\ DOMAIN keyVintage = Keys
  /\ \A k \in Keys : keyVintage[k] \in Nat /\ keyVintage[k] <= release
  /\ run.phase # "idle" => \A k \in Scope[run.city] : keyVintage[k] <= run.vintage
  /\ \A r \in rows : r.vintage \in Nat /\ keyVintage[r.key] <= r.vintage

LEMMA RowsHaveKeys ==
  ASSUME Sound(rows), NEW r \in rows
  PROVE  r.key \in Keys
  <1>1. CASE \E o \in Oda : r.addr = o.addr /\ r.key = o.key
    BY <1>1, OdaIsTable
  <1>2. CASE \E c \in Cities : \E e \in Listed(c) : r.addr = e.addr /\ r.key = e.key
    BY <1>2, ReleasesMatchScope, ScopesDisjoint DEF Listed
  <1> QED BY <1>1, <1>2 DEF Sound, Origin

LEMMA VintageStarts ==
  ASSUME Init
  PROVE  VintageInv
  <1>1. release = 1 /\ keyVintage = [k \in Keys |-> 0] /\ rows = Oda /\ run.phase = "idle"
    BY DEF Init
  <1> QED BY <1>1, OdaIsTable DEF VintageInv

(* A run stays with its city and its vintage. *)
LEMMA WorkStays ==
  ASSUME run \in RunRecords, Work
  PROVE  /\ run.phase # "idle" /\ run'.city = run.city /\ run'.vintage = run.vintage
         /\ release' = release /\ run'.first \in {run.first, 1}
  <1>1. /\ \A p \in Phases : LET y == [run EXCEPT !.phase = p, !.attempts = 0]
                            IN y.city = run.city /\ y.vintage = run.vintage /\ y.first = run.first
        /\ AfterFailure.city = run.city /\ AfterFailure.vintage = run.vintage
        /\ AfterFailure.first \in {run.first, 1}
        /\ Idle.city = run.city /\ Idle.vintage = run.vintage /\ Idle.first = 1
    BY DEF RunRecords, AfterFailure, Idle
  <1>2. CASE DeleteChunk
    BY <1>1, <1>2 DEF RunRecords, DeleteChunk, Fails, Goes
  <1>3. CASE DeleteCentroids \/ DeleteRanges
    BY <1>1, <1>3 DEF RunRecords, DeleteCentroids, DeleteRanges, Request, Fails, Succeeds, Goes
  <1>4. CASE InsertBatch \/ InsertRefused \/ InsertedAll
    BY <1>1, <1>4 DEF RunRecords, InsertBatch, InsertRefused, InsertedAll, Fails, Succeeds, Goes
  <1>5. CASE WriteAggregates \/ RecomputePostals \/ RecordImport
    BY <1>1, <1>5
       DEF RunRecords, WriteAggregates, RecomputePostals, RecordImport, Request, Fails, Succeeds, Goes
  <1>6. CASE RebuildSuggest
    BY <1>1, <1>6 DEF RunRecords, RebuildSuggest, Fails, Succeeds, Goes
  <1>7. CASE RecordKeys
    BY <1>1, <1>7 DEF RecordKeys, Fails, Goes
  <1> QED BY <1>2, <1>3, <1>4, <1>5, <1>6, <1>7 DEF Work

(* Only the last step of a run changes what is stated. *)
LEMMA StatedByRecordKeys ==
  ASSUME Work, ~RecordKeys
  PROVE  keyVintage' = keyVintage
  BY DEF Work, DeleteChunk, DeleteCentroids, DeleteRanges, InsertBatch, InsertRefused,
     InsertedAll, WriteAggregates, RecomputePostals, RebuildSuggest, RecordImport, Request, tables

(* What is stated of a city only grows, and what is inserted is not older. *)
LEMMA VintageKeeps ==
  ASSUME RefreshInv, VintageInv, [Next]_vars
  PROVE  VintageInv' /\ \A k \in Keys : keyVintage[k] <= keyVintage'[k]
  <1>0. /\ run \in RunRecords /\ Sound(rows) /\ release \in Nat /\ run.vintage \in Nat
        /\ run.city \in Cities /\ Scope[run.city] \subseteq Keys
        /\ run.phase # "idle" => run.vintage <= release
    BY StandsNow, ScopesDisjoint, Bounds
       DEF Stands, RefreshInv, RefreshTypes, RunRecords, Vintages
  <1>1. \A r \in rows : r.key \in Keys
    BY <1>0, RowsHaveKeys
  <1>2. CASE UNCHANGED tables /\ release' = release /\ run.phase = "idle"
             /\ (run' = run \/ (run'.vintage = release /\ run'.city \in Cities))
    BY <1>0, <1>2, ScopesDisjoint DEF VintageInv, tables
  <1>3. CASE UNCHANGED tables /\ release' = release /\ (run' = run \/ run'.phase = "idle")
    BY <1>0, <1>3 DEF VintageInv, tables
  <1>4. CASE NewRelease
    <2>1. UNCHANGED <<tables, run>> /\ release' = release + 1
      BY <1>4 DEF NewRelease
    <2> QED BY <1>0, <2>1 DEF VintageInv, tables
  <1>5. CASE Work /\ ~RecordKeys /\ rows' \subseteq rows
    <2>1. keyVintage' = keyVintage /\ release' = release /\ run.phase # "idle"
          /\ run'.city = run.city /\ run'.vintage = run.vintage
      BY <1>0, <1>5, StatedByRecordKeys, WorkStays
    <2> QED BY <1>0, <1>5, <2>1 DEF VintageInv
  <1>6. CASE InsertBatch
    <2>1. Work /\ ~RecordKeys
      BY <1>6 DEF Work, InsertBatch, RecordKeys
    <2>2. keyVintage' = keyVintage /\ release' = release /\ run.phase # "idle"
          /\ run'.city = run.city /\ run'.vintage = run.vintage
      BY <1>0, <2>1, StatedByRecordKeys, WorkStays
    <2>3. /\ run.phase = "insert" /\ run.sent < Len(W) /\ ~IdTaken
          /\ W = Fresh(run) /\ Len(W) \in Nat /\ run.sent \in Nat
      <3>1. W = Fresh(run)
        BY DEF W, Fresh
      <3> QED BY <1>0, <1>6, <3>1, StandsNow, FreshFacts
              DEF InsertBatch, Insertable, RunRecords, Stands, RowsStand
    <2>4. BatchEnd \in run.sent + 1 .. Len(W)
      BY <2>3, Bounds DEF BatchEnd, Lesser
    <2>5. run.sent \in run.sent .. BatchEnd /\ BatchEnd \in run.sent .. BatchEnd
      BY <2>3, <2>4
    <2>6. PICK m \in run.sent .. BatchEnd : rows' = rows \cup RowsTo(m)
      BY <1>6, <2>5 DEF InsertBatch
    <2>7. ASSUME NEW s \in RowsTo(m) PROVE s.key \in Scope[run.city] /\ s.vintage = run.vintage
      <3>1. /\ s.key \in Scope[run.city]
            /\ \E i \in run.sent + 1 .. m : s = FreshRow(run, i)
        BY <2>3, BatchFacts
      <3> QED BY <3>1 DEF FreshRow
    <2>8. \A k \in Scope[run.city] : keyVintage[k] <= run.vintage
      BY <2>2 DEF VintageInv
    <2> QED BY <1>0, <2>2, <2>6, <2>7, <2>8 DEF VintageInv
  <1>7. CASE RecordKeys
    <2>1. Work
      BY <1>7 DEF Work
    <2>2. release' = release /\ run.phase # "idle" /\ run'.city = run.city
          /\ run'.vintage = run.vintage
      BY <1>0, <2>1, WorkStays
    <2> DEFINE stated == [k \in Keys |-> IF k \in Scope[run.city] THEN run.vintage ELSE keyVintage[k]]
    <2>3. run.phase = "keys" /\ rows' = rows /\ (keyVintage' = stated \/ keyVintage' = keyVintage)
      BY <1>7 DEF RecordKeys, tables
    <2>4. CASE keyVintage' = keyVintage
      BY <1>0, <2>2, <2>3, <2>4 DEF VintageInv
    <2>5. CASE keyVintage' = stated
      <3>1. /\ \A k \in Keys : keyVintage'[k] \in Nat /\ keyVintage[k] <= keyVintage'[k]
            /\ \A k \in Keys : keyVintage'[k] <= release
            /\ \A k \in Scope[run.city] : keyVintage'[k] = run.vintage
            /\ \A k \in Keys \ Scope[run.city] : keyVintage'[k] = keyVintage[k]
        BY <1>0, <2>2, <2>5 DEF VintageInv
      <3>2. ASSUME NEW r \in rows, r.key \in Scope[run.city] PROVE r.vintage = run.vintage
        <4>1. /\ Own(run, rows) = Filed(run, Len(Fresh(run))) /\ Old(run, rows) = {}
              /\ r.id \in Int /\ run.first \in Int
          BY <1>0, <2>3, StandsNow DEF Stands, RowsStand, Filling, Sound, RunRecords
        <4>2. r \in Own(run, rows)
          BY <3>2, <4>1 DEF Own, Old, Among
        <4> QED BY <4>1, <4>2 DEF Filed, FreshRow
      <3>3. ASSUME NEW r \in rows PROVE r.vintage \in Nat /\ keyVintage'[r.key] <= r.vintage
        <4>1. r.key \in Keys /\ r.vintage \in Nat /\ keyVintage[r.key] <= r.vintage
          BY <1>1 DEF VintageInv
        <4>2. CASE r.key \in Scope[run.city]
          BY <1>0, <3>1, <3>2, <4>1, <4>2
        <4>3. CASE r.key \notin Scope[run.city]
          BY <3>1, <4>1, <4>3
        <4> QED BY <4>1, <4>2, <4>3
      <3>4. \A k \in Scope[run.city] : keyVintage'[k] = run.vintage /\ run.vintage <= run.vintage
        BY <1>0, <3>1
      <3>5. DOMAIN keyVintage' = Keys
        BY <2>5
      <3>6. run'.phase # "idle" => \A k \in Scope[run'.city] : keyVintage'[k] <= run'.vintage
        BY <2>2, <3>4
      <3>7. \A k \in Keys : keyVintage'[k] \in Nat /\ keyVintage'[k] <= release'
        BY <2>2, <3>1
      <3>8. \A r \in rows' : r.vintage \in Nat /\ keyVintage'[r.key] <= r.vintage
        BY <2>3, <3>3
      <3>9. VintageInv'
        BY <3>5, <3>6, <3>7, <3>8 DEF VintageInv
      <3> QED BY <3>1, <3>9
    <2> QED BY <2>3, <2>4, <2>5
  <1>8. CASE DailyRun \/ \E c \in Cities, force \in BOOLEAN : ManualRun(c, force)
    <2>1. PICK c \in Cities, force \in BOOLEAN : RefreshCity(c, force)
      <3>1. \A i \in Unfinished : Queue[i] \in Cities
        BY Bounds, LenProperties, ElementOfSeq DEF Unfinished
      <3> QED BY <1>8, <3>1 DEF DailyRun, ManualRun
    <2>2. UNCHANGED tables /\ release' = release /\ run.phase = "idle"
      BY <2>1 DEF RefreshCity
    <2>3. run' = run \/ (run'.vintage = release /\ run'.city \in Cities)
      BY <2>1 DEF RefreshCity
    <2> QED BY <1>2, <2>2, <2>3
  <1>9. CASE Dies
    <2>1. Idle.phase = "idle"
      BY <1>0 DEF Idle, RunRecords
    <2> QED BY <1>3, <1>9, <2>1 DEF Dies
  <1>10. CASE DiesUnpacking \/ UNCHANGED vars
    BY <1>3, <1>10 DEF DiesUnpacking, vars
  <1>11. CASE Work
    BY <1>5, <1>6, <1>7, <1>11, TablesNext DEF Next
  <1> QED BY <1>4, <1>8, <1>9, <1>10, <1>11 DEF Next

AskParts == {"query", "row", "method", "there", "crowded", "at"}

(* The address asked for, in the city that was named. *)
RightRow(method, r, query) ==
  /\ method = "exact"
  /\ r.key = Head(query.keys) /\ CivicNo[r.addr] = query.civic
  /\ query.unit # 0 => UnitNo[r.addr] = query.unit

Asking(x) ==
  /\ DOMAIN x = AskParts /\ x.query \in Queries
  /\ x.there \subseteq Named(x.query)
  /\ x.row # Nobody => x.row.key \in Keys
  /\ x.there # {} /\ ~x.crowded =>
       x.at = "exact" \/ (x.at = "source" /\ RightRow(x.method, x.row, x.query))

Remembered == /\ DOMAIN known = Keys
              /\ \A k \in Keys : known[k] # Nobody => known[k] \in Nat /\ known[k] <= keyVintage[k]

TrueAnswer(x) ==
  /\ x.there # {} /\ ~x.crowded => RightRow(x.method, x.row, x.query)
  /\ x.row # Nobody => /\ x.row.key \in Keys /\ x.vintage \in Nat
                       /\ x.vintage <= keyVintage[x.row.key]

MatchInv ==
  /\ RefreshInv /\ VintageInv /\ Remembered
  /\ ask # Nobody => Asking(ask)
  /\ told # Nobody => TrueAnswer(told)

(* A step of the lookup alone. *)
LEMMA LookupStep ==
  ASSUME MatchInv, UNCHANGED vars, Remembered',
         ask' # Nobody => Asking(ask'), told' # Nobody => TrueAnswer(told')
  PROVE  MatchInv'
  <1>1. RefreshInv' /\ VintageInv'
    BY RefreshNextKeeps, VintageKeeps DEF MatchInv
  <1>2. UNCHANGED <<rows, keyVintage>>
    BY DEF vars, tables
  <1>3. ask' # Nobody => Asking(ask)'
    BY <1>2 DEF Asking, Named
  <1>4. told' # Nobody => TrueAnswer(told)'
    BY <1>2 DEF TrueAnswer
  <1> QED BY <1>1, <1>3, <1>4 DEF MatchInv

LEMMA AsksKeepsMatch ==
  ASSUME MatchInv, NEW query \in Queries, Asks(query)
  PROVE  MatchInv'
  <1> DEFINE x == [query |-> query, row |-> Nobody, method |-> "none",
                   there |-> Named(query), crowded |-> FALSE, at |-> FirstTier(query)]
  <1>1. ask' = x /\ UNCHANGED <<vars, told, known>>
    BY DEF Asks
  <1>2. PICK y : y = x
    OBVIOUS
  <1>3. /\ DOMAIN y = AskParts /\ y.query = query /\ y.row = Nobody /\ y.there = Named(query)
        /\ y.at = FirstTier(query)
    BY <1>2 DEF AskParts
  <1>4. y.there # {} => y.at = "exact"
    <2>1. Named(query) # {} => query.kind = "forward" /\ query.keys # <<>>
      BY DEF Named
    <2>2. query.kind = "forward" /\ query.keys # <<>> => FirstTier(query) = "exact"
      BY DEF FirstTier
    <2> QED BY <2>1, <2>2, <1>3
  <1>5. Asking(y)
    BY <1>3, <1>4 DEF Asking
  <1>6. Remembered' /\ (told' # Nobody => TrueAnswer(told'))
    BY <1>1 DEF MatchInv, Remembered, vars, tables
  <1> QED BY <1>1, <1>2, <1>5, <1>6, LookupStep

(* The next tier is tried, or a row found, where there is nothing to miss. *)
LEMMA TriesKeeps ==
  ASSUME MatchInv, ask # Nobody, UNCHANGED <<vars, known>>,
         ask.there = {} \/ ask.crowded, NEW tier, Tries(tier)
  PROVE  MatchInv'
  <1>1. Asking(ask)
    BY DEF MatchInv
  <1>2. PICK y : y = ask'
    OBVIOUS
  <1>3. /\ DOMAIN y = AskParts /\ y.query = ask.query /\ y.row = ask.row /\ y.there = ask.there
        /\ y.crowded = ask.crowded
    BY <1>1, <1>2 DEF Tries, Asking, AskParts
  <1>4. Asking(y)
    BY <1>1, <1>3 DEF Asking
  <1>5. Remembered' /\ (told' # Nobody => TrueAnswer(told'))
    BY DEF MatchInv, Remembered, vars, tables, Tries
  <1> QED BY <1>2, <1>4, <1>5, LookupStep

LEMMA FindsKeeps ==
  ASSUME MatchInv, ask # Nobody, UNCHANGED <<vars, known>>,
         ask.there = {} \/ ask.crowded, NEW method, NEW r, r # Nobody => r.key \in Keys,
         Finds(method, r)
  PROVE  MatchInv'
  <1>1. Asking(ask)
    BY DEF MatchInv
  <1>2. PICK y : y = ask'
    OBVIOUS
  <1>3. /\ DOMAIN y = AskParts /\ y.query = ask.query /\ y.row = r /\ y.there = ask.there
        /\ y.crowded = ask.crowded
    BY <1>1, <1>2 DEF Finds, Asking, AskParts
  <1>4. Asking(y)
    BY <1>1, <1>3 DEF Asking
  <1>5. Remembered' /\ (told' # Nobody => TrueAnswer(told'))
    BY DEF MatchInv, Remembered, vars, tables, Finds
  <1> QED BY <1>2, <1>4, <1>5, LookupStep

LEMMA TellsKeeps ==
  ASSUME MatchInv, UNCHANGED <<vars, known>>, NEW x, Tells(x), TrueAnswer(x)
  PROVE  MatchInv'
  <1>1. ask' = Nobody /\ told' = x
    BY DEF Tells
  <1>2. Remembered'
    BY DEF MatchInv, Remembered, vars, tables
  <1> QED BY <1>1, <1>2, LookupStep

(* An answer without a row, where there is nothing to miss. *)
LEMMA NoRowIsTrue ==
  ASSUME ask.there = {} \/ ask.crowded, NEW why, NEW x, x = Answer(why, Nobody, 0)
  PROVE  TrueAnswer(x)
  <1>1. x.there = ask.there /\ x.crowded = ask.crowded /\ x.row = Nobody
    BY DEF Answer
  <1> QED BY <1>1 DEF TrueAnswer

(* The first of the rows fetched is in the city named, if one of them is. *)
LEMMA FirstIsNamed ==
  ASSUME ask.query \in Queries, NEW fetched, NEW best \in First(fetched, ExactBefore),
         NEW s \in fetched, \A r \in fetched : OfCity(r), s.key = Head(ask.query.keys)
  PROVE  best \in fetched /\ best.key = Head(ask.query.keys)
  <1>1. best \in fetched /\ \A r \in fetched : ~ExactBefore(r, best)
    BY Zenon DEF First
  <1>2. PICK keys \in Seq(Keys) : keys = ask.query.keys /\ IsInjective(keys)
    BY MatchConstants DEF Query
  <1>3. PICK i \in DOMAIN keys : best.key = keys[i]
    BY <1>1, <1>2 DEF OfCity, sought
  <1>4. keys # <<>>
    BY <1>3, LenProperties
  <1>5. 1 \in DOMAIN keys /\ Head(keys) = keys[1]
    BY <1>4, HeadTailFacts
  <1>6. ASSUME NEW j \in DOMAIN keys PROVE CityRank(keys[j]) = j
    BY <1>2, <1>6 DEF CityRank, IsInjective, sought
  <1>7. ~(1 < i)
    <2>1. s.key = keys[1] /\ CityRank(s.key) = 1 /\ CityRank(best.key) = i
      BY <1>2, <1>3, <1>5, <1>6
    <2>2. ~(CityRank(s.key) < CityRank(best.key))
      BY <1>1, Zenon DEF ExactBefore
    <2> QED BY <2>1, <2>2
  <1>8. i \in Nat /\ i >= 1
    BY <1>3, LenProperties
  <1>9. i = 1
    BY <1>7, <1>8
  <1> QED BY <1>1, <1>2, <1>3, <1>5, <1>9

LEMMA ExactKeeps ==
  ASSUME MatchInv, ask # Nobody, UNCHANGED <<vars, known>>, Exact
  PROVE  MatchInv'
  <1> DEFINE matched == {r \in rows : OfCity(r) /\ AtCivic(r) /\ OfUnit(r)}
             size == Lesser(ExactLimit, Cardinality(matched))
  <1>1. PICK head, query : head = Head(ask.query.keys) /\ query = ask.query
    OBVIOUS
  <1>2. /\ Asking(ask) /\ query \in Queries /\ IsFiniteSet(rows)
        /\ ask.there \subseteq Named(query)
    BY <1>1 DEF MatchInv, RefreshInv, Sound, Asking
  <1>3. IsFiniteSet(matched) /\ Cardinality(matched) \in Nat
    BY <1>2, FS_Subset, FS_CardinalityType
  <1>4. ask.there # {} => \E r \in matched : r.key = head
    <2> SUFFICES ASSUME NEW a \in ask.there PROVE \E r \in matched : r.key = head
      OBVIOUS
    <2>1. PICK r \in rows : /\ query.keys # <<>> /\ r.key = Head(query.keys)
                            /\ CivicNo[r.addr] = query.civic
                            /\ query.unit # 0 => UnitNo[r.addr] = query.unit
      BY <1>2 DEF Named
    <2>2. query.keys \in Seq(Keys)
      BY <1>2, MatchConstants DEF Query
    <2>3. 1 \in DOMAIN query.keys /\ Head(query.keys) = query.keys[1]
      BY <2>1, <2>2, HeadTailFacts
    <2>4. OfCity(r) /\ AtCivic(r) /\ OfUnit(r)
      BY <2>1, <2>3, <1>1 DEF OfCity, AtCivic, OfUnit, sought
    <2> QED BY <2>1, <2>4, <1>1
  <1>5. CASE matched = {}
    <2>1. Tries("street")
      BY <1>5 DEF Exact
    <2>2. ask.there = {}
      BY <1>4, <1>5
    <2> QED BY <2>1, <2>2, TriesKeeps
  <1>6. CASE matched # {}
    <2>1. PICK fetched \in {S \in SUBSET matched : Cardinality(S) = size} :
            \E best \in First(fetched, ExactBefore) :
               IF best.key # Head(sought.keys) /\ Cardinality({r.key : r \in fetched}) > 1
               THEN Tells([Answer("ambiguous", Nobody, 0) EXCEPT !.crowded = (size < Cardinality(matched))])
               ELSE /\ ask' = [ask EXCEPT !.at = "source", !.row = best, !.method = "exact",
                                          !.crowded = (size < Cardinality(matched))]
                    /\ UNCHANGED told
      BY <1>6, Zenon DEF Exact
    <2>2. PICK best \in First(fetched, ExactBefore) :
               IF best.key # head /\ Cardinality({r.key : r \in fetched}) > 1
               THEN Tells([Answer("ambiguous", Nobody, 0) EXCEPT !.crowded = (size < Cardinality(matched))])
               ELSE /\ ask' = [ask EXCEPT !.at = "source", !.row = best, !.method = "exact",
                                          !.crowded = (size < Cardinality(matched))]
                    /\ UNCHANGED told
      BY <2>1, <1>1, Zenon DEF sought
    <2>3. PICK crowded : crowded = (size < Cardinality(matched))
      OBVIOUS
    <2>4. ~crowded => fetched = matched
      <3>1. Cardinality(fetched) = size /\ fetched \subseteq matched
        BY <2>1
      <3>2. size <= Cardinality(matched)
        BY <1>3, MatchConstants DEF Lesser
      <3>3. size \in Nat
        BY <1>3, MatchConstants DEF Lesser
      <3> HIDE DEF matched, size
      <3>4. ~crowded => Cardinality(fetched) = Cardinality(matched)
        <4>1. size < Cardinality(matched) \/ size = Cardinality(matched)
          BY <3>2, <3>3, <1>3
        <4> QED BY <4>1, <2>3, <3>1, Zenon
      <3> QED BY <3>1, <3>4, <1>3, FS_Subset
    <2>5. \A r \in fetched : OfCity(r) /\ AtCivic(r) /\ OfUnit(r) /\ r \in rows
      BY <2>1
    <2>6. best \in fetched
      BY Zenon DEF First
    <2>7. ask.there # {} /\ ~crowded => best.key = head
      <3> SUFFICES ASSUME ask.there # {}, ~crowded PROVE best.key = head
        OBVIOUS
      <3>1. PICK s \in fetched : s.key = head
        BY <1>4, <2>4
      <3> QED BY <3>1, <2>5, <1>1, <1>2, FirstIsNamed
    <2>8. CASE best.key # head /\ Cardinality({r.key : r \in fetched}) > 1
      <3>1. PICK x : x = [Answer("ambiguous", Nobody, 0) EXCEPT !.crowded = crowded]
        OBVIOUS
      <3>2. x.row = Nobody /\ x.there = ask.there /\ x.crowded = crowded
        BY <3>1 DEF Answer
      <3>3. TrueAnswer(x)
        BY <3>2, <2>7, <2>8 DEF TrueAnswer
      <3>4. Tells(x)
        BY <3>1, <2>2, <2>3, <2>8
      <3> QED BY <3>3, <3>4, TellsKeeps
    <2>9. CASE ~(best.key # head /\ Cardinality({r.key : r \in fetched}) > 1)
      <3>1. /\ ask' = [ask EXCEPT !.at = "source", !.row = best, !.method = "exact",
                                  !.crowded = crowded]
            /\ UNCHANGED told
        BY <2>2, <2>3, <2>9
      <3>2. PICK y : y = ask'
        OBVIOUS
      <3>3. /\ DOMAIN y = AskParts /\ y.query = query /\ y.row = best /\ y.there = ask.there
            /\ y.crowded = crowded /\ y.at = "source" /\ y.method = "exact"
        BY <3>1, <3>2, <1>1, <1>2 DEF Asking, AskParts
      <3>4. best.key \in Keys
        BY <2>5, <2>6, RowsHaveKeys DEF MatchInv, RefreshInv
      <3>5. CivicNo[best.addr] = query.civic /\ (query.unit # 0 => UnitNo[best.addr] = query.unit)
        BY <2>5, <2>6, <1>1 DEF AtCivic, OfUnit, sought
      <3>6. y.there # {} /\ ~y.crowded => RightRow(y.method, y.row, y.query)
        BY <3>3, <3>5, <2>7, <1>1 DEF RightRow
      <3>7. Asking(y)
        BY <3>3, <3>4, <3>6, <1>2 DEF Asking
      <3>8. Remembered' /\ (told' # Nobody => TrueAnswer(told'))
        BY <3>1 DEF MatchInv, Remembered, vars, tables
      <3> QED BY <3>2, <3>7, <3>8, LookupStep
    <2> QED BY <2>8, <2>9
  <1> QED BY <1>5, <1>6

(* The tiers after it are reached where there is nothing to miss. *)
LEMMA LaterTiersKeep ==
  ASSUME MatchInv, Tier, ~Exact
  PROVE  MatchInv'
  <1>1. ask # Nobody /\ UNCHANGED <<vars, known>> /\ Asking(ask)
    BY DEF MatchInv, Tier
  <1>2. ask.at \notin {"exact", "source"}
    BY DEF Tier, OnStreet, NearestCivic, StreetRange, PostalStreet, PostalCentroid, PostalPrefix,
           CityCentroid, Neighbour
  <1>3. ask.there = {} \/ ask.crowded
    BY <1>1, <1>2 DEF Asking
  <1>4. ASSUME NEW tier, Tries(tier) PROVE MatchInv'
    BY <1>1, <1>3, <1>4, TriesKeeps
  <1>5. ASSUME NEW method, NEW r \in rows, Finds(method, r) PROVE MatchInv'
    <2>1. r.key \in Keys
      BY RowsHaveKeys DEF MatchInv, RefreshInv
    <2> QED BY <1>1, <1>3, <1>5, <2>1, FindsKeeps
  <1>6. ASSUME NEW method, Finds(method, Nobody) PROVE MatchInv'
    BY <1>1, <1>3, <1>6, FindsKeeps
  <1>7. ASSUME NEW why, Tells(Answer(why, Nobody, 0)) PROVE MatchInv'
    <2>1. PICK x : x = Answer(why, Nobody, 0)
      OBVIOUS
    <2>2. TrueAnswer(x)
      BY <1>3, <2>1, NoRowIsTrue
    <2> QED BY <1>1, <1>7, <2>1, <2>2, TellsKeeps
  <1>8. CASE OnStreet
    BY <1>4, <1>5, <1>8 DEF OnStreet, First
  <1>9. CASE NearestCivic
    BY <1>4, <1>5, <1>9 DEF NearestCivic, First
  <1>10. CASE StreetRange
    BY <1>4, <1>6, <1>10 DEF StreetRange
  <1>11. CASE PostalStreet
    BY <1>4, <1>5, <1>11 DEF PostalStreet, First, PostalStreetRows
  <1>12. CASE PostalCentroid \/ PostalPrefix
    BY <1>4, <1>7, <1>12 DEF PostalCentroid, PostalPrefix, AfterPostal, NotTold
  <1>13. CASE CityCentroid
    BY <1>4, <1>7, <1>13 DEF CityCentroid, NotTold
  <1>14. CASE Neighbour
    BY <1>5, <1>7, <1>14 DEF Neighbour, NotTold, RowsAbout
  <1> QED BY <1>8, <1>9, <1>10, <1>11, <1>12, <1>13, <1>14 DEF Tier

LEMMA StatesSourceKeeps ==
  ASSUME MatchInv, StatesSource
  PROVE  MatchInv'
  <1> DEFINE k == IF ask.row = Nobody THEN Head(sought.keys) ELSE ask.row.key
  <1>1. PICK v \in {Stated(k)} \cup (IF known[k] = Nobody THEN {0} ELSE {}) :
          /\ known' = [known EXCEPT ![k] = v]
          /\ Tells(Answer(ask.method, ask.row, v))
    BY DEF StatesSource
  <1>2. ask # Nobody /\ ask.at = "source" /\ UNCHANGED vars /\ Asking(ask)
    BY DEF StatesSource, MatchInv
  <1>3. k \in Keys => v \in Nat /\ v <= keyVintage[k]
    BY <1>1 DEF MatchInv, Remembered, VintageInv, Stated
  <1>4. Remembered'
    <2>1. keyVintage' = keyVintage /\ DOMAIN known = Keys
      BY <1>2 DEF MatchInv, Remembered, vars, tables
    <2> HIDE DEF k
    <2>2. \A j \in Keys : known'[j] = IF j = k THEN v ELSE known[j]
      BY <1>1, <2>1
    <2> QED BY <1>1, <1>3, <2>1, <2>2 DEF MatchInv, Remembered
  <1>5. PICK x : x = Answer(ask.method, ask.row, v)
    OBVIOUS
  <1>6. /\ x.there = ask.there /\ x.crowded = ask.crowded /\ x.row = ask.row
        /\ x.method = ask.method /\ x.query = ask.query /\ x.vintage = v
    BY <1>5 DEF Answer, sought
  <1>7. TrueAnswer(x)
    <2>1. x.there # {} /\ ~x.crowded => RightRow(x.method, x.row, x.query)
      BY <1>2, <1>6 DEF Asking
    <2>2. x.row # Nobody => x.row.key \in Keys /\ x.row.key = k
      BY <1>2, <1>6 DEF Asking
    <2> QED BY <2>1, <2>2, <1>3, <1>6 DEF TrueAnswer
  <1> QED BY <1>1, <1>2, <1>4, <1>5, <1>7, LookupStep DEF Tells

LEMMA ForgetsKeeps ==
  ASSUME MatchInv, NEW k \in Keys, ForgetsVintage(k)
  PROVE  MatchInv'
  <1>1. UNCHANGED <<vars, ask, told>> /\ known' = [known EXCEPT ![k] = Nobody]
    BY DEF ForgetsVintage
  <1>2. Remembered'
    BY <1>1 DEF MatchInv, Remembered, vars, tables
  <1> QED BY <1>1, <1>2, LookupStep DEF MatchInv

LEMMA MeanwhileKeeps ==
  ASSUME MatchInv, Meanwhile
  PROVE  MatchInv'
  <1>1. RefreshInv' /\ VintageInv' /\ \A k \in Keys : keyVintage[k] <= keyVintage'[k]
    BY RefreshNextKeeps, VintageKeeps DEF MatchInv, Meanwhile
  <1>2. UNCHANGED <<told, known>>
    BY DEF Meanwhile
  <1>3. \A k \in Keys : keyVintage[k] \in Nat /\ keyVintage'[k] \in Nat
    BY <1>1 DEF MatchInv, VintageInv
  <1>4. Remembered'
    BY <1>1, <1>2, <1>3 DEF MatchInv, Remembered
  <1>5. told' # Nobody => TrueAnswer(told)'
    BY <1>1, <1>2, <1>3 DEF MatchInv, TrueAnswer
  <1>6. ask' # Nobody => Asking(ask)'
    <2>1. CASE ask = Nobody
      BY <2>1 DEF Meanwhile
    <2>2. CASE ask # Nobody
      <3>1. Asking(ask)
        BY <2>2 DEF MatchInv
      <3>2. PICK there : there = ask.there \cap {r.addr : r \in {s \in rows' :
                              ask.query.keys # <<>> /\ s.key = Head(ask.query.keys)}}
        OBVIOUS
      <3>3. ask' = [ask EXCEPT !.there = there]
        BY <2>2, <3>2 DEF Meanwhile
      <3>4. /\ DOMAIN ask' = AskParts /\ ask'.query = ask.query /\ ask'.row = ask.row
            /\ ask'.there = there /\ ask'.crowded = ask.crowded /\ ask'.at = ask.at
            /\ ask'.method = ask.method
        BY <3>1, <3>3 DEF Asking, AskParts
      <3>5. ASSUME NEW a \in there PROVE a \in Named(ask.query)'
        <4>1. PICK s \in rows' : /\ ask.query.keys # <<>> /\ s.key = Head(ask.query.keys)
                                 /\ a = s.addr
          BY <3>2
        <4>2. PICK r \in rows : /\ ask.query.kind = "forward" /\ CivicNo[r.addr] = ask.query.civic
                                /\ ask.query.unit # 0 => UnitNo[r.addr] = ask.query.unit
                                /\ a = r.addr
          BY <3>1, <3>2 DEF Asking, Named
        <4> QED BY <4>1, <4>2, <3>4 DEF Named
      <3>6. there \subseteq ask.there
        BY <3>2
      <3> QED BY <3>1, <3>4, <3>5, <3>6 DEF Asking
    <2> QED BY <2>1, <2>2
  <1> QED BY <1>1, <1>4, <1>5, <1>6 DEF MatchInv

LEMMA MatchNextKeeps ==
  ASSUME MatchInv, [MatchNext]_matchVars
  PROVE  MatchInv'
  <1>1. CASE UNCHANGED matchVars
    <2>1. UNCHANGED <<vars, ask, told, known>>
      BY <1>1 DEF matchVars, matching
    <2>2. Remembered'
      BY <2>1 DEF MatchInv, Remembered, vars, tables
    <2> QED BY <2>1, <2>2, LookupStep DEF MatchInv
  <1>2. CASE Tier
    BY <1>2, ExactKeeps, LaterTiersKeep DEF Tier
  <1> QED BY <1>1, <1>2, AsksKeepsMatch, StatesSourceKeeps, ForgetsKeeps, MeanwhileKeeps
          DEF MatchNext

(* A lookup of an address that is in the city named is answered with it,    *)
(* and no answer is said to be younger than it is, through the refresh of   *)
(* the tables between its tiers and whatever an isolate remembers.          *)
THEOREM AnswersAreTold == MatchSpec => []ToldTruly
  <1>1. Init /\ MatchInit => MatchInv
    BY RefreshStarts, VintageStarts DEF MatchInit, MatchInv, Remembered
  <1>2. MatchInv /\ [MatchNext]_matchVars => MatchInv'
    BY MatchNextKeeps
  <1>3. MatchInv => ToldTruly
    <2> SUFFICES ASSUME MatchInv PROVE ToldTruly
      OBVIOUS
    <2>1. NamedCityAnswers
      BY DEF MatchInv, TrueAnswer, RightRow, NamedCityAnswers
    <2>2. NeverOverstated
      <3> SUFFICES ASSUME told # Nobody, told.row # Nobody, told.row \in rows
                   PROVE  told.vintage <= told.row.vintage
        BY DEF NeverOverstated
      <3>1. /\ told.row.key \in Keys /\ told.vintage \in Nat
            /\ told.vintage <= keyVintage[told.row.key]
        BY DEF MatchInv, TrueAnswer
      <3>2. /\ keyVintage[told.row.key] \in Nat /\ told.row.vintage \in Nat
            /\ keyVintage[told.row.key] <= told.row.vintage
        BY <3>1 DEF MatchInv, VintageInv
      <3> QED BY <3>1, <3>2
    <2> QED BY <2>1, <2>2 DEF ToldTruly
  <1> QED BY <1>1, <1>2, <1>3, PTL DEF MatchSpec

(***************************************************************************)
(* Pages during a refresh                                                  *)
(***************************************************************************)

(* Ids count from 1, so that nothing is at or before 0. *)
IdsInv == run.first > 0 /\ \A r \in rows : r.id > 0

Spots == IF mode = "area" THEN Nat ELSE Nat \X Nat
Start == IF mode = "area" THEN 0 ELSE <<0, 0>>

(* A list goes upwards, and to no further than p. *)
Rising(s) == \A i, j \in DOMAIN s : i < j => Precedes(s[i], s[j])
UpToSpot(s, p) == \A i \in DOMAIN s : s[i] = p \/ Precedes(s[i], p)

(* All that has been there throughout is in the list or comes after p. *)
NoneMissed(s, stable, p) == \A q \in stable : Precedes(p, q) \/ \E i \in DOMAIN s : s[i] = q

ListsUpTo(s, stable, p) ==
  /\ s \in Seq(Spots) /\ p \in Spots
  /\ Rising(s) /\ UpToSpot(s, p) /\ NoneMissed(s, stable, p)

Chained(chain) ==
  /\ DOMAIN chain = {"after", "remaining", "got", "stable", "paid"}
  /\ ListsUpTo(chain.got, chain.stable, chain.after)
  /\ chain.stable \subseteq Present
  /\ mode = "area" => /\ chain.remaining \in Nat \ {0} /\ chain.paid \in Nat
                      /\ Len(chain.got) + chain.remaining = chain.paid

Reading(x) ==
  /\ DOMAIN x = {"chain", "size", "records", "scanned", "last"}
  /\ Chained(x.chain)
  /\ x.size = PageSize(x.chain.remaining)
  /\ x.records \in Seq(Spots) /\ Len(x.records) < x.size
  /\ x.scanned \in Nat /\ x.scanned < ScanBudget
  /\ ListsUpTo(x.chain.got \o x.records, x.chain.stable, x.last)

AllListed(s, stable) == \A q \in stable : \E i \in DOMAIN s : s[i] = q

Ended(x) ==
  /\ x.got \in Seq(Spots) /\ Rising(x.got)
  /\ mode = "area" => Len(x.got) <= x.paid
  /\ ~x.truncated => AllListed(x.got, x.stable)

PagingInv ==
  /\ RefreshInv /\ IdsInv
  /\ mode \in {"area", "civics"} =>
       /\ \A chain \in cursors : Chained(chain)
       /\ page # None => mode = "area" /\ Reading(page)
       /\ ended # None => Ended(ended)

LEMMA PrecedesOrders ==
  /\ \A x, y \in Spots : Precedes(x, y) \/ Precedes(y, x) \/ x = y
  /\ \A x, y, z \in Spots : Precedes(x, y) /\ Precedes(y, z) => Precedes(x, z)
  /\ \A x \in Spots : ~Precedes(x, x)
  <1>1. CASE mode = "area"
    BY <1>1 DEF Spots, Precedes
  <1>2. CASE mode # "area"
    <2>1. \A x \in Spots : x[1] \in Nat /\ x[2] \in Nat /\ x = <<x[1], x[2]>>
      BY <1>2 DEF Spots
    <2>2. \A x, y : Precedes(x, y) <=> (x[1] < y[1] \/ (x[1] = y[1] /\ x[2] < y[2]))
      BY <1>2 DEF Precedes, Before
    <2>3. ASSUME NEW x \in Spots, NEW y \in Spots
          PROVE  Precedes(x, y) \/ Precedes(y, x) \/ x = y
      <3>1. CASE x[1] = y[1] /\ x[2] = y[2]
        BY <2>1, <3>1
      <3>2. CASE ~(x[1] = y[1] /\ x[2] = y[2])
        BY <2>1, <2>2, <3>2
      <3> QED BY <3>1, <3>2
    <2>4. \A x, y, z \in Spots : Precedes(x, y) /\ Precedes(y, z) => Precedes(x, z)
      BY <2>1, <2>2
    <2>5. \A x \in Spots : ~Precedes(x, x)
      BY <2>1, <2>2
    <2> QED BY <2>3, <2>4, <2>5
  <1> QED BY <1>1, <1>2

(* ORDER BY lists what there is, once and upwards. *)
LEMMA InOrderFacts ==
  ASSUME NEW S, IsFiniteSet(S), S \subseteq Spots
  PROVE  /\ InOrder(S) \in Seq(Spots) /\ Cardinality(S) \in Nat
         /\ Len(InOrder(S)) = Cardinality(S) /\ Rising(InOrder(S))
         /\ \A i \in DOMAIN InOrder(S) : InOrder(S)[i] \in S
         /\ \A x \in S : \E i \in DOMAIN InOrder(S) : InOrder(S)[i] = x
  <1> DEFINE lower(x) == {y \in S : Precedes(y, x)}
             last == Cardinality(S) - 1
             T == 0 .. last
             rank == [x \in S |-> Cardinality(lower(x))]
             s == InOrder(S)
  <1>0. Cardinality(S) \in Nat
    BY FS_CardinalityType
  <1>1. ASSUME NEW x \in S PROVE IsFiniteSet(lower(x)) /\ Cardinality(lower(x)) \in T
    <2>1. lower(x) \in SUBSET S /\ x \notin lower(x)
      BY PrecedesOrders
    <2>2. /\ Cardinality(lower(x)) <= Cardinality(S) /\ IsFiniteSet(lower(x))
          /\ Cardinality(lower(x)) # Cardinality(S)
      BY <2>1, FS_Subset
    <2>3. Cardinality(lower(x)) \in Nat
      BY <2>2, FS_CardinalityType
    <2> QED BY <1>0, <2>2, <2>3
  <1>2. ASSUME NEW x \in S, NEW y \in S, Precedes(x, y)
        PROVE  Cardinality(lower(x)) < Cardinality(lower(y))
    <2>1. lower(x) \in SUBSET lower(y) /\ x \in lower(y) /\ x \notin lower(x)
      BY <1>2, PrecedesOrders
    <2>2. /\ Cardinality(lower(x)) <= Cardinality(lower(y))
          /\ Cardinality(lower(x)) # Cardinality(lower(y))
      BY <1>1, <2>1, FS_Subset
    <2>3. Cardinality(lower(x)) \in Nat /\ Cardinality(lower(y)) \in Nat
      BY <1>1, FS_CardinalityType
    <2> QED BY <2>2, <2>3
  <1> HIDE DEF lower
  <1>3. \A x, y \in S : Cardinality(lower(x)) = Cardinality(lower(y)) => x = y
    BY <1>0, <1>1, <1>2, PrecedesOrders
  <1>4. \A n \in T : \E x \in S : Cardinality(lower(x)) = n
    <2>1. rank \in Injection(S, T)
      <3>1. rank \in [S -> T]
        BY <1>1
      <3>2. \A x, y \in S : rank[x] = rank[y] => x = y
        BY <1>3
      <3> QED BY <3>1, <3>2 DEF Injection, IsInjective
    <2>2. IsFiniteSet(T) /\ Cardinality(T) = Cardinality(S)
      <3> HIDE DEF last
      <3>1. 0 \in Int /\ last \in Int
        BY <1>0 DEF last
      <3>2. IsFiniteSet(T) /\ Cardinality(T) = IF 0 > last THEN 0 ELSE last - 0 + 1
        BY <3>1, FS_Interval
      <3> QED BY <1>0, <3>2 DEF last
    <2>3. rank \in Surjection(S, T)
      BY <2>1, <2>2, FS_Injection
    <2> QED BY <2>3 DEF Surjection
  <1>5. s = [i \in 1 .. Cardinality(S) |-> CHOOSE x \in S : Cardinality(lower(x)) = i - 1]
    BY DEF InOrder, lower
  <1> HIDE DEF s
  <1>6. DOMAIN s = 1 .. Cardinality(S)
    BY <1>5
  <1>7. ASSUME NEW i \in DOMAIN s PROVE s[i] \in S /\ Cardinality(lower(s[i])) = i - 1
    <2>1. i - 1 \in T /\ i \in 1 .. Cardinality(S)
      BY <1>0, <1>6
    <2>2. \E x \in S : Cardinality(lower(x)) = i - 1
      BY <1>4, <2>1
    <2>3. s[i] = CHOOSE x \in S : Cardinality(lower(x)) = i - 1
      BY <1>5, <2>1
    <2> QED BY <2>2, <2>3
  <1>8. s \in Seq(Spots) /\ Len(s) = Cardinality(S)
    <2>1. \A i \in 1 .. Cardinality(S) : s[i] \in Spots
      BY <1>6, <1>7
    <2>2. s = [i \in 1 .. Cardinality(S) |-> s[i]]
      BY <1>5
    <2> QED BY <1>0, <2>1, <2>2
  <1>9. Rising(s)
    <2> SUFFICES ASSUME NEW i \in DOMAIN s, NEW j \in DOMAIN s, i < j, ~Precedes(s[i], s[j])
                 PROVE  FALSE
      BY DEF Rising
    <2>1. Cardinality(lower(s[i])) = i - 1 /\ Cardinality(lower(s[j])) = j - 1 /\ i \in Nat /\ j \in Nat
      BY <1>0, <1>6, <1>7
    <2>2. s[i] = s[j] \/ Precedes(s[j], s[i])
      BY <1>7, PrecedesOrders
    <2> QED BY <1>2, <1>7, <2>1, <2>2
  <1>10. ASSUME NEW x \in S PROVE \E i \in DOMAIN s : s[i] = x
    <2>1. PICK i : i = Cardinality(lower(x)) + 1
      OBVIOUS
    <2>2. i \in DOMAIN s /\ i - 1 = Cardinality(lower(x))
      BY <1>0, <1>1, <1>6, <2>1
    <2>3. Cardinality(lower(s[i])) = Cardinality(lower(x)) /\ s[i] \in S
      BY <1>7, <2>2
    <2> QED BY <1>3, <2>2, <2>3
  <1> QED BY <1>0, <1>7, <1>8, <1>9, <1>10 DEF s

(* What comes after a list goes on with it. *)
LEMMA JoinLists ==
  ASSUME NEW s, NEW t \in Seq(Spots), NEW stable, stable \subseteq Spots,
         NEW p, NEW q \in Spots, ListsUpTo(s, stable, p),
         Rising(t), UpToSpot(t, q), q = p \/ Precedes(p, q),
         \A i \in DOMAIN t : Precedes(p, t[i]),
         \A x \in stable : Precedes(p, x) => Precedes(q, x) \/ \E i \in DOMAIN t : t[i] = x
  PROVE  ListsUpTo(s \o t, stable, q)
  <1> DEFINE st == s \o t
  <1>0. s \in Seq(Spots) /\ p \in Spots
    BY DEF ListsUpTo
  <1>1. /\ st \in Seq(Spots) /\ Len(st) = Len(s) + Len(t)
        /\ \A i \in 1 .. Len(st) : st[i] = IF i <= Len(s) THEN s[i] ELSE t[i - Len(s)]
    BY <1>0, ConcatProperties
  <1>2. /\ DOMAIN st = 1 .. Len(st) /\ DOMAIN s = 1 .. Len(s) /\ DOMAIN t = 1 .. Len(t)
        /\ Len(s) \in Nat /\ Len(t) \in Nat
    BY <1>0, <1>1
  <1> HIDE DEF st
  <1>3. ASSUME NEW i \in DOMAIN st
        PROVE  \/ i \in DOMAIN s /\ st[i] = s[i]
               \/ i - Len(s) \in DOMAIN t /\ st[i] = t[i - Len(s)]
    BY <1>1, <1>2
  <1>4. ASSUME NEW i \in DOMAIN s PROVE i \in DOMAIN st /\ st[i] = s[i] /\ s[i] \in Spots
    <2>1. i \in DOMAIN st /\ st[i] = s[i]
      BY <1>1, <1>2
    <2> QED BY <1>0, <1>2, <2>1, ElementOfSeq
  <1>5. ASSUME NEW i \in DOMAIN t
        PROVE  i + Len(s) \in DOMAIN st /\ st[i + Len(s)] = t[i] /\ t[i] \in Spots
    <2>1. i + Len(s) \in DOMAIN st /\ ~(i + Len(s) <= Len(s)) /\ i + Len(s) - Len(s) = i
      BY <1>1, <1>2
    <2>2. st[i + Len(s)] = t[i]
      BY <1>1, <1>2, <2>1
    <2> QED BY <1>2, <2>1, <2>2, ElementOfSeq
  <1>6. \A i \in DOMAIN s : s[i] = p \/ Precedes(s[i], p)
    BY DEF ListsUpTo, UpToSpot
  <1>7. Rising(st)
    <2> SUFFICES ASSUME NEW i \in DOMAIN st, NEW j \in DOMAIN st, i < j
                 PROVE  Precedes(st[i], st[j])
      BY DEF Rising
    <2>1. CASE i \in DOMAIN s /\ j \in DOMAIN s
      BY <1>4, <2>1 DEF ListsUpTo, Rising
    <2>2. CASE i \in DOMAIN s /\ j \notin DOMAIN s
      <3>1. j - Len(s) \in DOMAIN t /\ st[j] = t[j - Len(s)]
        BY <1>3, <2>2
      <3>2. /\ Precedes(p, st[j]) /\ st[j] \in Spots
            /\ (st[i] = p \/ Precedes(st[i], p)) /\ st[i] \in Spots
        BY <1>4, <1>5, <1>6, <2>2, <3>1
      <3> QED BY <1>0, <3>2, PrecedesOrders
    <2>3. CASE i \notin DOMAIN s
      <3>1. /\ i - Len(s) \in DOMAIN t /\ st[i] = t[i - Len(s)]
            /\ j \notin DOMAIN s
        BY <1>2, <1>3, <2>3
      <3>2. j - Len(s) \in DOMAIN t /\ st[j] = t[j - Len(s)] /\ i - Len(s) < j - Len(s)
        BY <1>2, <1>3, <3>1
      <3> QED BY <3>1, <3>2 DEF Rising
    <2> QED BY <2>1, <2>2, <2>3
  <1>8. UpToSpot(st, q)
    <2> SUFFICES ASSUME NEW i \in DOMAIN st PROVE st[i] = q \/ Precedes(st[i], q)
      BY DEF UpToSpot
    <2>1. CASE i \in DOMAIN s
      BY <1>0, <1>4, <1>6, <2>1, PrecedesOrders
    <2>2. CASE i \notin DOMAIN s
      BY <1>3, <2>2 DEF UpToSpot
    <2> QED BY <2>1, <2>2
  <1>9. NoneMissed(st, stable, q)
    <2> SUFFICES ASSUME NEW x \in stable
                 PROVE  Precedes(q, x) \/ \E i \in DOMAIN st : st[i] = x
      BY DEF NoneMissed
    <2>1. CASE Precedes(p, x)
      BY <1>5, <2>1
    <2>2. CASE ~Precedes(p, x)
      BY <1>4, <2>2 DEF ListsUpTo, NoneMissed
    <2> QED BY <2>1, <2>2
  <1> QED BY <1>1, <1>7, <1>8, <1>9 DEF ListsUpTo, st

(* With nothing left that comes after it, it is complete. *)
LEMMA JoinsAll ==
  ASSUME NEW s, NEW t \in Seq(Spots), NEW stable, NEW p, ListsUpTo(s, stable, p),
         \A x \in stable : Precedes(p, x) => \E i \in DOMAIN t : t[i] = x
  PROVE  AllListed(s \o t, stable)
  <1> SUFFICES ASSUME NEW x \in stable PROVE \E i \in DOMAIN (s \o t) : (s \o t)[i] = x
    BY DEF AllListed
  <1>0. s \in Seq(Spots)
    BY DEF ListsUpTo
  <1>1. PICK l, k, st : l = Len(s) /\ k = Len(t) /\ st = s \o t
    OBVIOUS
  <1>2. l \in Nat /\ k \in Nat /\ DOMAIN s = 1 .. l /\ DOMAIN t = 1 .. k
    BY <1>0, <1>1
  <1>3. /\ st \in Seq(Spots) /\ Len(st) = l + k
        /\ \A i \in 1 .. Len(st) : st[i] = IF i <= l THEN s[i] ELSE t[i - l]
    BY <1>0, <1>1, ConcatProperties
  <1>4. DOMAIN st = 1 .. l + k
    BY <1>3
  <1>5. \A i \in 1 .. l + k : st[i] = IF i <= l THEN s[i] ELSE t[i - l]
    BY <1>3
  <1>6. CASE Precedes(p, x)
    <2>1. PICK i \in DOMAIN t : t[i] = x
      BY <1>6
    <2>2. PICK j : j = i + l
      OBVIOUS
    <2>3. j \in 1 .. l + k /\ ~(j <= l) /\ j - l = i
      BY <1>2, <2>2
    <2>4. st[j] = t[i]
      BY <1>5, <2>3
    <2> QED BY <1>1, <1>4, <2>1, <2>3, <2>4
  <1>7. CASE ~Precedes(p, x)
    <2>1. PICK i \in DOMAIN s : s[i] = x
      BY <1>7 DEF ListsUpTo, NoneMissed
    <2>2. i \in 1 .. l + k /\ i <= l
      BY <1>2
    <2>3. st[i] = s[i]
      BY <1>5, <2>2
    <2> QED BY <1>1, <1>4, <2>1, <2>2, <2>3
  <1> QED BY <1>6, <1>7

(* The positions there are. *)
LEMMA PresentFacts ==
  ASSUME Sound(rows), IdsInv, mode \in {"area", "civics"}
  PROVE  IsFiniteSet(Present) /\ \A x \in Present : x \in Spots /\ Precedes(Start, x)
  <1> DEFINE onList == {q \in Candidates : Listable(q)}
             f == [r \in onList |-> Position(r)]
  <1>0. IsFiniteSet(Present)
    <2>1. onList \in SUBSET rows
      <3>1. CASE mode = "area"
        BY <3>1 DEF Candidates
      <3>2. CASE mode = "civics"
        BY <3>2 DEF Candidates
      <3> QED BY <3>1, <3>2
    <2>2. IsFiniteSet(onList)
      BY <2>1, FS_Subset DEF Sound
    <2>3. Present = {f[r] : r \in onList}
      BY DEF Present
    <2> HIDE DEF onList, f
    <2>4. f \in Surjection(onList, Present)
      BY <2>3 DEF Surjection, f
    <2> QED BY <2>2, <2>4, FS_Surjection
  <1>1. CASE mode = "area"
    <2>1. Candidates = {r \in rows : r.addr \in InBox} /\ \A r : Position(r) = r.id
      BY <1>1 DEF Candidates, Position
    <2>2. \A x \in Present : x \in Nat /\ x > 0
      BY <2>1 DEF Present, IdsInv, Sound
    <2> QED BY <1>1, <2>2, <1>0 DEF Spots, Precedes, Start
  <1>2. CASE mode = "civics"
    <2>1. /\ \A r \in Candidates : r.addr \in DOMAIN Civic
          /\ \A r : Position(r) = Civic[r.addr]
      BY <1>2 DEF Candidates, Position
    <2>2. \A x \in Present : x \in Nat \X (Nat \ {0})
      BY <2>1, CivicsAreRanked DEF Present
    <2>3. \A x \in Nat \X (Nat \ {0}) : x \in Nat \X Nat /\ Before(<<0, 0>>, x)
      BY DEF Before
    <2> QED BY <1>2, <2>2, <2>3, <1>0 DEF Spots, Precedes, Start
  <1> QED BY <1>1, <1>2

LEMMA IdsKeep ==
  ASSUME RefreshInv, IdsInv, [Next]_vars
  PROVE  IdsInv'
  <1>0. /\ run \in RunRecords /\ Sound(rows) /\ run.first \in Int
    BY DEF RefreshInv, RefreshTypes, RunRecords
  <1>1. CASE UNCHANGED <<rows, run>>
    BY <1>1 DEF IdsInv
  <1>2. CASE Work /\ rows' \subseteq rows
    BY <1>0, <1>2, WorkStays DEF IdsInv
  <1>3. CASE InsertBatch
    <2>1. /\ run.phase = "insert" /\ run.sent < Len(W) /\ ~IdTaken /\ Work
          /\ run.sent \in Nat /\ W = Fresh(run) /\ Len(W) \in Nat
      <3>1. W = Fresh(run)
        BY DEF W, Fresh
      <3> QED BY <1>0, <1>3, <3>1, FreshFacts DEF InsertBatch, Insertable, RunRecords, Work
    <2>2. BatchEnd \in run.sent + 1 .. Len(W)
      BY <2>1, Bounds DEF BatchEnd, Lesser
    <2>3. BatchEnd \in run.sent .. BatchEnd
      BY <2>1, <2>2
    <2>4. PICK m \in run.sent .. BatchEnd : rows' = rows \cup RowsTo(m)
      BY <1>3, <2>3 DEF InsertBatch
    <2>5. \A s \in RowsTo(m) : s.id >= run.first /\ s.id \in Int
      BY <2>1, BatchFacts
    <2> QED BY <1>0, <2>1, <2>4, <2>5, WorkStays DEF IdsInv
  <1>4. CASE DailyRun \/ \E c \in Cities, force \in BOOLEAN : ManualRun(c, force)
    <2>1. PICK c \in Cities, force \in BOOLEAN : RefreshCity(c, force)
      <3>1. \A i \in Unfinished : Queue[i] \in Cities
        BY Bounds, LenProperties, ElementOfSeq DEF Unfinished
      <3> QED BY <1>4, <3>1 DEF DailyRun, ManualRun
    <2>2. rows' = rows /\ (run' = run \/ run'.first = NextId)
      BY <2>1 DEF RefreshCity, tables
    <2>3. NextId > 0
      <3>1. CASE rows = {}
        BY <3>1 DEF NextId
      <3>2. CASE rows # {}
        BY <1>0, <3>2, NextIdFacts DEF IdsInv, Sound
      <3> QED BY <3>1, <3>2
    <2> QED BY <2>2, <2>3 DEF IdsInv
  <1>5. CASE Dies
    <2>1. Idle.first = 1
      BY <1>0 DEF Idle, RunRecords
    <2> QED BY <1>5, <2>1 DEF Dies, IdsInv, tables
  <1>6. CASE DiesUnpacking \/ NewRelease \/ UNCHANGED vars
    BY <1>1, <1>6 DEF DiesUnpacking, NewRelease, vars, tables
  <1>7. CASE Work
    BY <1>2, <1>3, <1>7, TablesNext DEF Next
  <1> QED BY <1>4, <1>5, <1>6, <1>7 DEF Next

LEMMA IdsStart ==
  ASSUME Init
  PROVE  IdsInv
  <1>1. run.first = 1 /\ rows = Oda
    BY DEF Init
  <1> QED BY <1>1, OdaIsTable DEF IdsInv

-----------------------------------------------------------------------------
(* Reading a page of an area *)

(* A batch is the first of what is ahead, and all of it if it is short. *)
LEMMA AreaBatchFacts ==
  ASSUME Sound(rows), IdsInv, mode = "area", NEW after \in Nat, NEW want \in Nat
  PROVE  /\ Batch(after, want) \in Seq(Nat) /\ Len(Batch(after, want)) \in 0 .. want + 1
         /\ Rising(Batch(after, want))
         /\ \A i \in DOMAIN Batch(after, want) : Batch(after, want)[i] > after
         /\ \A x \in Present : x > after =>
              \/ \E i \in DOMAIN Batch(after, want) : Batch(after, want)[i] = x
              \/ /\ Len(Batch(after, want)) = want + 1
                 /\ Batch(after, want)[want + 1] < x
  <1> DEFINE late == {q \in Candidates : q.id > after}
             ids == {r.id : r \in late}
             f == [r \in late |-> r.id]
  <1>1. Candidates = {r \in rows : r.addr \in InBox} /\ Spots = Nat
        /\ (\A r : Position(r) = r.id) /\ (\A x, y : Precedes(x, y) = (x < y))
    BY DEF Candidates, Spots, Position, Precedes
  <1>2. IsFiniteSet(ids) /\ ids \subseteq Spots
    <2>1. late \in SUBSET rows
      BY <1>1
    <2>2. IsFiniteSet(late) /\ \A r \in late : r.id \in Nat
      BY <2>1, FS_Subset DEF Sound, IdsInv
    <2> HIDE DEF late
    <2>3. f \in Surjection(late, ids)
      BY DEF Surjection
    <2> QED BY <1>1, <2>2, <2>3, FS_Surjection
  <1>3. \A x \in ids : x > after
    OBVIOUS
  <1>4. \A x \in Present : x > after => x \in ids
    BY <1>1 DEF Present
  <1>5. PICK ahead, all, size, b :
          /\ ahead = InOrder(ids) /\ all = Len(ahead)
          /\ size = (IF want + 1 < all THEN want + 1 ELSE all)
          /\ b = SubSeq(ahead, 1, size) /\ b = Batch(after, want)
    BY DEF Batch, Lesser
  <1> HIDE DEF ids
  <1>6. /\ ahead \in Seq(Spots) /\ Rising(ahead)
        /\ \A i \in DOMAIN ahead : ahead[i] \in ids
        /\ \A x \in ids : \E i \in DOMAIN ahead : ahead[i] = x
    BY <1>2, <1>5, InOrderFacts
  <1>7. all \in Nat /\ DOMAIN ahead = 1 .. all
    BY <1>5, <1>6
  <1>8. size \in 0 .. want + 1 /\ size <= all /\ (size = want + 1 \/ size = all)
    BY <1>5, <1>7
  <1>9. /\ b \in Seq(Spots) /\ Len(b) = size /\ DOMAIN b = 1 .. size
        /\ \A i \in 1 .. size : b[i] = ahead[i]
    <2>1. 1 \in 1 .. all + 1 /\ size \in 0 .. all
      BY <1>7, <1>8
    <2>2. /\ b \in Seq(Spots) /\ Len(b) = IF 1 <= size THEN size - 1 + 1 ELSE 0
          /\ \A i \in 1 .. Len(b) : b[i] = ahead[1 + i - 1]
      BY <1>5, <1>6, <2>1, SubSeqFacts
    <2>3. Len(b) = size
      BY <1>8, <2>2
    <2> QED BY <2>2, <2>3
  <1>10. Rising(b) /\ \A i \in DOMAIN b : b[i] > after
    BY <1>3, <1>6, <1>7, <1>8, <1>9 DEF Rising
  <1>11. ASSUME NEW x \in Present, x > after
         PROVE  (\E i \in DOMAIN b : b[i] = x) \/ (Len(b) = want + 1 /\ b[want + 1] < x)
    <2>1. PICK i \in DOMAIN ahead : ahead[i] = x
      BY <1>4, <1>6, <1>11
    <2>2. CASE i <= size
      BY <1>7, <1>9, <2>1, <2>2
    <2>3. CASE ~(i <= size)
      <3>1. size = want + 1 /\ size < i /\ size \in DOMAIN ahead
        BY <1>7, <1>8, <2>1, <2>3
      <3>2. ahead[size] < ahead[i]
        BY <1>1, <1>6, <2>1, <3>1 DEF Rising
      <3>3. b[want + 1] = ahead[size]
        BY <1>8, <1>9, <3>1
      <3> QED BY <1>9, <2>1, <3>1, <3>2, <3>3
    <2> QED BY <2>2, <2>3
  <1> QED BY <1>1, <1>5, <1>8, <1>9, <1>10, <1>11

LEMMA LeastExists ==
  ASSUME NEW S, IsFiniteSet(S), S \subseteq Int, S # {}
  PROVE  \E n \in S : \A m \in S : n <= m
  <1> DEFINE f == [x \in S |-> x]
  <1>1. /\ \A x \in S : f[x] \in Int
        /\ \A x, y \in S : f[x] = f[y] => x = y
    OBVIOUS
  <1> HIDE DEF f
  <1>2. /\ \A x \in S : Cardinality(RankedBefore(S, f, x)) \in 0 .. Cardinality(S) - 1
        /\ \A n \in 0 .. Cardinality(S) - 1 : \E x \in S : Cardinality(RankedBefore(S, f, x)) = n
    <2>1. Ranked(S, f)
      BY <1>1, RankFacts
    <2> QED BY <2>1 DEF Ranked
  <1>3. Cardinality(S) \in Nat \ {0}
    BY FS_CardinalityType, FS_EmptySet
  <1>4. PICK n \in S : Cardinality(RankedBefore(S, f, n)) = 0
    BY <1>2, <1>3
  <1>5. ASSUME NEW m \in S, f[m] < f[n] PROVE FALSE
    <2>1. Cardinality(RankedBefore(S, f, m)) < Cardinality(RankedBefore(S, f, n))
      BY <1>1, <1>5, RankGrows
    <2>2. Cardinality(RankedBefore(S, f, m)) \in 0 .. Cardinality(S) - 1
      BY <1>2
    <2> QED BY <1>3, <1>4, <2>1, <2>2
  <1>6. \A m \in S : n <= m
    BY <1>5 DEF f
  <1> QED BY <1>6

(* The rows of a batch inside the boundary: a row adds one at most.         *)
LEMMA InsideFacts ==
  ASSUME mode = "area", NEW b \in Seq(Nat), NEW n \in 0 .. Len(b)
  PROVE  /\ InsideOf(b, n) \in Seq(Nat) /\ Rising(InsideOf(b, n))
         /\ \A i \in DOMAIN InsideOf(b, n) : \E j \in 1 .. n : InsideOf(b, n)[i] = b[j]
         /\ \A j \in 1 .. n : b[j] \in Present =>
              \E i \in DOMAIN InsideOf(b, n) : InsideOf(b, n)[i] = b[j]
         /\ n = 0 => Len(InsideOf(b, n)) = 0
         /\ n > 0 => Len(InsideOf(b, n)) <= Len(InsideOf(b, n - 1)) + 1
  <1> DEFINE to(m) == {b[i] : i \in 1 .. m}
             on(m) == to(m) \cap Present
  <1>0. Len(b) \in Nat /\ n \in Nat /\ Spots = Nat
    BY DEF Spots
  <1>1. ASSUME NEW m \in 0 .. Len(b)
        PROVE  IsFiniteSet(on(m)) /\ on(m) \subseteq Spots
    <2> DEFINE f == [i \in 1 .. m |-> b[i]]
    <2>1. m \in Nat /\ \A i \in 1 .. m : b[i] \in Nat
      BY <1>0, ElementOfSeq
    <2>2. f \in Surjection(1 .. m, to(m))
      BY DEF Surjection
    <2>3. IsFiniteSet(1 .. m)
      BY <2>1, FS_Interval
    <2>4. IsFiniteSet(to(m))
      BY <2>2, <2>3, FS_Surjection
    <2>5. on(m) \in SUBSET to(m)
      OBVIOUS
    <2> QED BY <1>0, <2>1, <2>4, <2>5, FS_Subset
  <1>2. \A m : InsideOf(b, m) = InOrder(on(m))
    BY DEF InsideOf
  <1>3. ASSUME NEW m \in 0 .. Len(b)
        PROVE  /\ InsideOf(b, m) \in Seq(Nat) /\ Rising(InsideOf(b, m))
               /\ Len(InsideOf(b, m)) = Cardinality(on(m)) /\ Cardinality(on(m)) \in Nat
               /\ \A i \in DOMAIN InsideOf(b, m) : InsideOf(b, m)[i] \in on(m)
               /\ \A x \in on(m) : \E i \in DOMAIN InsideOf(b, m) : InsideOf(b, m)[i] = x
    <2>1. PICK S : S = on(m)
      OBVIOUS
    <2>2. IsFiniteSet(S) /\ S \subseteq Spots /\ InsideOf(b, m) = InOrder(S)
      BY <1>1, <1>2, <2>1
    <2> HIDE DEF on
    <2> QED BY <1>0, <2>1, <2>2, InOrderFacts
  <1>4. n = 0 => Len(InsideOf(b, n)) = 0
    <2>1. n = 0 => on(n) = {}
      OBVIOUS
    <2> QED BY <1>3, <2>1, FS_EmptySet
  <1>5. ASSUME n > 0
        PROVE  Len(InsideOf(b, n)) <= Len(InsideOf(b, n - 1)) + 1
    <2>1. n - 1 \in 0 .. Len(b)
      BY <1>0, <1>5
    <2>2. on(n) \subseteq on(n - 1) \cup {b[n]}
      BY <1>0, <1>5
    <2> HIDE DEF on
    <2>3. PICK S, T : S = on(n - 1) /\ T = on(n - 1) \cup {b[n]}
      OBVIOUS
    <2>4. IsFiniteSet(S) /\ Cardinality(S) \in Nat
      BY <1>1, <2>1, <2>3, FS_CardinalityType
    <2>5. IsFiniteSet(T) /\ (Cardinality(T) = Cardinality(S) \/ Cardinality(T) = Cardinality(S) + 1)
      BY <2>3, <2>4, FS_AddElement
    <2>6. Cardinality(on(n)) <= Cardinality(T)
      BY <2>2, <2>3, <2>5, FS_Subset
    <2>7. Len(InsideOf(b, n)) = Cardinality(on(n)) /\ Cardinality(on(n)) \in Nat
      BY <1>3
    <2>8. Len(InsideOf(b, n - 1)) = Cardinality(S)
      BY <1>3, <2>1, <2>3
    <2> QED BY <2>4, <2>5, <2>6, <2>7, <2>8
  <1>6. /\ \A i \in DOMAIN InsideOf(b, n) : \E j \in 1 .. n : InsideOf(b, n)[i] = b[j]
        /\ \A j \in 1 .. n : b[j] \in Present =>
             \E i \in DOMAIN InsideOf(b, n) : InsideOf(b, n)[i] = b[j]
    BY <1>3
  <1> QED BY <1>3, <1>4, <1>5, <1>6

(* The reading of a batch ends where the first of the reasons to end is.    *)
LEMMA StopsAt ==
  ASSUME NEW l \in Nat, NEW budget \in Nat \ {0}, NEW fills \in SUBSET (1 .. l),
         NEW n \in (fills \cup {l}) \cup {budget}, \A k \in (fills \cup {l}) \cup {budget} : n <= k
  PROVE  n \in 0 .. l /\ (n = 0 <=> l = 0) /\ \A m \in fills : n <= m
  OBVIOUS

FirstStop(stops) == CHOOSE m \in stops : \A k \in stops : m <= k

LEMMA StopsFirst ==
  ASSUME NEW l \in Nat, NEW budget \in Nat \ {0}, NEW fills \in SUBSET (1 .. l),
         NEW stops, stops = {l, budget} \cup fills, NEW n, n = FirstStop(stops)
  PROVE  n \in 0 .. l /\ (n = 0 <=> l = 0) /\ \A m \in fills : n <= m
  <1>1. stops = (fills \cup {l}) \cup {budget}
    OBVIOUS
  <1>2. IsFiniteSet(stops)
    <2>1. IsFiniteSet(fills)
      <3>1. IsFiniteSet(1 .. l)
        BY FS_Interval
      <3> QED BY <3>1, FS_Subset
    <2>2. IsFiniteSet(fills \cup {l})
      BY <2>1, FS_AddElement
    <2>3. IsFiniteSet((fills \cup {l}) \cup {budget})
      BY <2>2, FS_AddElement
    <2> QED BY <1>1, <2>3
  <1>3. stops \subseteq Int /\ stops # {}
    OBVIOUS
  <1>4. \E m \in stops : \A k \in stops : m <= k
    BY <1>2, <1>3, LeastExists
  <1>5. n \in stops /\ \A k \in stops : n <= k
    BY <1>4 DEF FirstStop
  <1>6. n \in (fills \cup {l}) \cup {budget} /\ \A k \in (fills \cup {l}) \cup {budget} : n <= k
    BY <1>1, <1>5
  <1> QED BY <1>6, StopsAt

(* What is consumed of a batch never gives more records than are wanted.    *)
LEMMA Consumed ==
  ASSUME mode = "area", NEW b \in Seq(Nat), NEW want \in Nat \ {0}, NEW n \in 0 .. Len(b),
         \A m \in 1 .. Len(b) : Len(InsideOf(b, m)) >= want => n <= m
  PROVE  Len(InsideOf(b, n)) <= want
  <1>0. PICK l : l = Len(b) /\ l \in Nat
    OBVIOUS
  <1>1. n \in 0 .. l /\ n \in Nat
    BY <1>0
  <1>2. ASSUME NEW m \in 0 .. l
        PROVE  /\ Len(InsideOf(b, m)) \in Nat
               /\ m = 0 => Len(InsideOf(b, m)) = 0
               /\ m > 0 => Len(InsideOf(b, m)) <= Len(InsideOf(b, m - 1)) + 1
    <2>1. m \in 0 .. Len(b)
      BY <1>0
    <2>2. /\ InsideOf(b, m) \in Seq(Nat)
          /\ m = 0 => Len(InsideOf(b, m)) = 0
          /\ m > 0 => Len(InsideOf(b, m)) <= Len(InsideOf(b, m - 1)) + 1
      BY <2>1, InsideFacts
    <2>3. Len(InsideOf(b, m)) \in Nat
      BY <2>2, LenProperties
    <2> QED BY <2>2, <2>3
  <1>3. ASSUME NEW m \in 1 .. l, m < n
        PROVE  Len(InsideOf(b, m)) < want
    <2>1. m \in 0 .. l /\ m \in 1 .. Len(b) /\ ~(n <= m)
      BY <1>0, <1>1, <1>3
    <2>2. ~(Len(InsideOf(b, m)) >= want)
      BY <2>1
    <2> QED BY <1>2, <2>1, <2>2
  <1>4. Len(InsideOf(b, n)) <= want
    <2>1. CASE n = 0
      BY <1>1, <1>2, <2>1
    <2>2. CASE n # 0
      <3>1. PICK m : m = n - 1
        OBVIOUS
      <3>2. m \in 0 .. l /\ m < n /\ n > 0 /\ (m = 0 \/ m \in 1 .. l)
        BY <1>0, <1>1, <2>2, <3>1
      <3>3. Len(InsideOf(b, m)) \in Nat /\ Len(InsideOf(b, m)) < want
        <4>1. CASE m = 0
          BY <1>2, <3>2, <4>1
        <4>2. CASE m \in 1 .. l
          BY <1>2, <1>3, <3>2, <4>2
        <4> QED BY <3>2, <4>1, <4>2
      <3>4. Len(InsideOf(b, n)) \in Nat /\ Len(InsideOf(b, n)) <= Len(InsideOf(b, m)) + 1
        BY <1>1, <1>2, <3>1, <3>2
      <3> QED BY <3>3, <3>4
    <2> QED BY <2>1, <2>2
  <1> QED BY <1>4

-----------------------------------------------------------------------------
(* The steps of the readers *)

(* A step of a reader alone. *)
LEMMA ReaderStep ==
  ASSUME PagingInv, UNCHANGED <<vars, mode>>, mode \in {"area", "civics"},
         \A chain \in cursors' : Chained(chain),
         page' # None => mode = "area" /\ Reading(page'),
         ended' # None => Ended(ended')
  PROVE  PagingInv'
  <1>1. RefreshInv' /\ IdsInv'
    BY RefreshNextKeeps, IdsKeep DEF PagingInv
  <1>2. rows' = rows /\ mode' = mode
    BY DEF vars, tables
  <1>3. Present' = Present /\ Spots' = Spots
    BY <1>2 DEF Present, Candidates, Listable, Position, Spots
  <1>4. /\ \A s : Rising(s)' = Rising(s)
        /\ \A s, p : UpToSpot(s, p)' = UpToSpot(s, p)
        /\ \A s, stable, p : NoneMissed(s, stable, p)' = NoneMissed(s, stable, p)
    BY <1>2 DEF Rising, UpToSpot, NoneMissed, Precedes
  <1>5. \A s, stable, p : ListsUpTo(s, stable, p)' = ListsUpTo(s, stable, p)
    BY <1>3, <1>4 DEF ListsUpTo
  <1>6. \A c : Chained(c)' = Chained(c)
    BY <1>2, <1>3, <1>5 DEF Chained
  <1>7. \A x : Reading(x)' = Reading(x)
    BY <1>3, <1>5, <1>6 DEF Reading
  <1>8. \A x : Ended(x)' = Ended(x)
    BY <1>2, <1>3, <1>4 DEF Ended, AllListed
  <1>9. page' # None => mode' = "area" /\ Reading(page)'
    <2> PICK x : x = page'
      OBVIOUS
    <2> QED BY <1>2, <1>7
  <1>10. ended' # None => Ended(ended)'
    <2> PICK x : x = ended'
      OBVIOUS
    <2> QED BY <1>8
  <1>11. \A c \in cursors' : Chained(c)'
    BY <1>6
  <1> QED BY <1>1, <1>9, <1>10, <1>11 DEF PagingInv

(* What a chain begins with. *)
LEMMA ChainBegins ==
  ASSUME PagingInv, mode \in {"area", "civics"}, NEW paid \in Nat, mode = "area" => paid # 0,
         NEW after, after = Start
  PROVE  Chained(Chain(after, paid, <<>>, Present, paid))
  <1> DEFINE c == Chain(after, paid, <<>>, Present, paid)
  <1>1. /\ DOMAIN c = {"after", "remaining", "got", "stable", "paid"}
        /\ c.after = Start /\ c.remaining = paid /\ c.got = <<>> /\ c.stable = Present
        /\ c.paid = paid
    BY DEF Chain
  <1>2. Start \in Spots /\ <<>> \in Seq(Spots) /\ Len(<<>>) = 0 /\ DOMAIN <<>> = {}
    BY DEF Start, Spots
  <1>3. \A x \in Present : Precedes(Start, x)
    BY PresentFacts DEF PagingInv, RefreshInv
  <1>4. ListsUpTo(<<>>, Present, Start)
    BY <1>2, <1>3 DEF ListsUpTo, Rising, UpToSpot, NoneMissed
  <1> HIDE DEF c
  <1>5. mode = "area" => /\ c.remaining \in Nat \ {0} /\ c.paid \in Nat
                         /\ Len(c.got) + c.remaining = c.paid
    BY <1>1, <1>2
  <1>6. ListsUpTo(c.got, c.stable, c.after)
    BY <1>1, <1>4
  <1> QED BY <1>1, <1>5, <1>6 DEF Chained, c

LEMMA OpensKeeps ==
  ASSUME PagingInv, mode = "area", NEW c, Chained(c), OpensPage(c)
  PROVE  PagingInv'
  <1>1. PICK x : x = page'
    OBVIOUS
  <1>2. /\ DOMAIN x = {"chain", "size", "records", "scanned", "last"}
        /\ x.chain = c /\ x.size = PageSize(c.remaining) /\ x.records = <<>> /\ x.scanned = 0
        /\ x.last = c.after
    BY <1>1 DEF OpensPage
  <1>3. UNCHANGED <<vars, mode, cursors, ended>>
    BY DEF OpensPage
  <1>4. c.got \in Seq(Spots) /\ c.remaining \in Nat \ {0} /\ ListsUpTo(c.got, c.stable, c.after)
    BY DEF Chained, ListsUpTo
  <1>5. c.got \o x.records = c.got
    BY <1>2, <1>4, ConcatEmptySeq
  <1>6. x.records \in Seq(Spots) /\ Len(x.records) = 0
    BY <1>2
  <1>7. x.size \in Nat /\ 0 < x.size
    BY <1>2, <1>4, PagingConstants DEF PageSize, Lesser
  <1>8. x.scanned \in Nat /\ x.scanned < ScanBudget
    BY <1>2, PagingConstants
  <1>9. Reading(x)
    BY <1>2, <1>4, <1>5, <1>6, <1>7, <1>8 DEF Reading
  <1>10. (\A chain \in cursors : Chained(chain)) /\ (ended # None => Ended(ended))
    BY DEF PagingInv
  <1> QED BY <1>1, <1>3, <1>9, <1>10, ReaderStep

LEMMA FirstPageKeeps ==
  ASSUME PagingInv, FirstPage
  PROVE  PagingInv'
  <1>1. PICK allowance \in Allowances : OpensPage(Chain(0, allowance, <<>>, Present, allowance))
    BY DEF FirstPage
  <1>2. mode = "area" /\ allowance \in Nat /\ allowance # 0 /\ Start = 0
    BY PagingConstants DEF FirstPage, Start
  <1>3. PICK after, c : after = 0 /\ c = Chain(after, allowance, <<>>, Present, allowance)
    OBVIOUS
  <1>4. Chained(c)
    BY <1>2, <1>3, ChainBegins
  <1>5. OpensPage(c)
    BY <1>1, <1>3
  <1> QED BY <1>2, <1>4, <1>5, OpensKeeps

LEMMA LaterPageKeeps ==
  ASSUME PagingInv, LaterPage
  PROVE  PagingInv'
  <1>1. PICK c \in cursors : mode = "area" /\ OpensPage(c)
    BY DEF LaterPage
  <1>2. Chained(c)
    BY <1>1 DEF PagingInv
  <1> QED BY <1>1, <1>2, OpensKeeps

LEMMA OfferExpiresKeeps ==
  ASSUME PagingInv, OfferExpires
  PROVE  PagingInv'
  <1>1. mode = "area" /\ cursors' = {} /\ UNCHANGED <<vars, mode, page, ended>>
    BY DEF OfferExpires
  <1>2. (page # None => Reading(page)) /\ (ended # None => Ended(ended))
    BY <1>1 DEF PagingInv
  <1> QED BY <1>1, <1>2, ReaderStep

(* A page of civics: the first n of those after the cursor. *)
LEMMA CivicPageFacts ==
  ASSUME PagingInv, mode = "civics", NEW after \in Spots
  PROVE  /\ CivicPage(after) \in Seq(Spots) /\ Rising(CivicPage(after))
         /\ \A i \in DOMAIN CivicPage(after) : Precedes(after, CivicPage(after)[i])
         /\ \A x \in Present : Precedes(after, x) =>
              \E i \in DOMAIN CivicPage(after) : CivicPage(after)[i] = x
  <1>1. PICK S : S = {c \in Present : Before(after, c)}
    OBVIOUS
  <1>2. IsFiniteSet(Present) /\ \A x \in Present : x \in Spots
    BY PresentFacts DEF PagingInv, RefreshInv
  <1>3. IsFiniteSet(S) /\ S \subseteq Spots /\ S \in SUBSET Present
    BY <1>1, <1>2, FS_Subset
  <1>4. CivicPage(after) = InOrder(S)
    BY <1>1 DEF CivicPage
  <1>5. \A x : Precedes(after, x) = Before(after, x)
    BY DEF Precedes
  <1>6. /\ InOrder(S) \in Seq(Spots) /\ Rising(InOrder(S))
        /\ \A i \in DOMAIN InOrder(S) : InOrder(S)[i] \in S
        /\ \A x \in S : \E i \in DOMAIN InOrder(S) : InOrder(S)[i] = x
    BY <1>3, InOrderFacts
  <1> QED BY <1>1, <1>4, <1>5, <1>6

LEMMA ListReadKeeps ==
  ASSUME PagingInv, mode = "civics", NEW c, Chained(c), ReadsList(c)
  PROVE  PagingInv'
  <1>1. PICK all, m, n, t, got :
          /\ all = CivicPage(c.after) /\ m = Len(all)
          /\ n = (IF ListLimit < m THEN ListLimit ELSE m)
          /\ t = [i \in 1 .. n |-> all[i]] /\ got = c.got \o t
          /\ IF m > ListLimit THEN Mints(Chain(all[n], 0, got, c.stable, 0)) ELSE Ends(c, got, FALSE)
          /\ UNCHANGED <<vars, mode, page>>
    BY DEF ReadsList, Lesser
  <1>2. /\ c.after \in Spots /\ c.got \in Seq(Spots) /\ c.stable \subseteq Present
        /\ ListsUpTo(c.got, c.stable, c.after)
    BY DEF Chained, ListsUpTo
  <1>3. /\ all \in Seq(Spots) /\ Rising(all)
        /\ \A i \in DOMAIN all : Precedes(c.after, all[i])
        /\ \A x \in Present : Precedes(c.after, x) => \E i \in DOMAIN all : all[i] = x
    BY <1>1, <1>2, CivicPageFacts
  <1>4. m \in Nat /\ DOMAIN all = 1 .. m
    BY <1>1, <1>3
  <1>5. n \in 0 .. m /\ (m > ListLimit => n \in 1 .. m) /\ (~(m > ListLimit) => n = m)
    BY <1>1, <1>4, PagingConstants
  <1>6. /\ t \in Seq(Spots) /\ DOMAIN t = 1 .. n
        /\ \A i \in 1 .. n : t[i] = all[i] /\ i \in DOMAIN all
    <2>1. \A i \in 1 .. n : i \in DOMAIN all /\ all[i] \in Spots
      BY <1>3, <1>4, <1>5, ElementOfSeq
    <2> QED BY <1>1, <1>5, <2>1
  <1>7. Rising(t) /\ \A i \in DOMAIN t : Precedes(c.after, t[i])
    BY <1>3, <1>6 DEF Rising
  <1>8. \A x \in Present : x \in Spots
    BY PresentFacts DEF PagingInv, RefreshInv
  <1>9. ASSUME NEW x \in c.stable, Precedes(c.after, x)
        PROVE  \/ \E i \in DOMAIN t : t[i] = x
               \/ m > ListLimit /\ Precedes(all[n], x)
    <2>1. PICK i \in DOMAIN all : all[i] = x
      BY <1>2, <1>3, <1>9
    <2>2. CASE i <= n
      BY <1>4, <1>6, <2>1, <2>2
    <2>3. CASE ~(i <= n)
      <3>1. m > ListLimit /\ n \in DOMAIN all /\ n < i
        BY <1>4, <1>5, <2>1, <2>3
      <3> QED BY <1>3, <2>1, <3>1 DEF Rising
    <2> QED BY <2>2, <2>3
  <1>10. (\A chain \in cursors : Chained(chain)) /\ (page # None => FALSE)
         /\ (ended # None => Ended(ended))
    BY DEF PagingInv
  <1>11. CASE m > ListLimit
    <2>1. PICK q : q = all[n]
      OBVIOUS
    <2>2. n \in DOMAIN t /\ n \in DOMAIN all
      BY <1>4, <1>5, <1>6, <1>11
    <2>3. q \in Spots /\ Precedes(c.after, q)
      BY <1>3, <1>4, <2>1, <2>2, ElementOfSeq
    <2>4. UpToSpot(t, q)
      <3> SUFFICES ASSUME NEW i \in DOMAIN t PROVE t[i] = q \/ Precedes(t[i], q)
        BY DEF UpToSpot
      <3>1. t[n] = q /\ (i < n \/ i = n)
        BY <1>5, <1>6, <2>1, <2>2
      <3> QED BY <1>7, <2>2, <3>1 DEF Rising
    <2>5. \A x \in c.stable : Precedes(c.after, x) => Precedes(q, x) \/ \E i \in DOMAIN t : t[i] = x
      BY <1>9, <2>1
    <2>6. c.stable \subseteq Spots
      BY <1>2, <1>8
    <2>7. ListsUpTo(c.got \o t, c.stable, q)
      BY <1>2, <1>6, <1>7, <2>3, <2>4, <2>5, <2>6, JoinLists
    <2>8. PICK d : d = Chain(q, 0, got, c.stable, 0)
      OBVIOUS
    <2>9. Chained(d)
      <3>1. /\ DOMAIN d = {"after", "remaining", "got", "stable", "paid"}
            /\ d.after = q /\ d.got = got /\ d.stable = c.stable
        BY <2>8 DEF Chain
      <3>2. ListsUpTo(d.got, d.stable, d.after)
        BY <1>1, <2>7, <3>1
      <3> QED BY <1>2, <3>1, <3>2 DEF Chained
    <2>10. cursors' = cursors \cup {d} /\ ended' = ended /\ UNCHANGED <<vars, mode, page>>
      BY <1>1, <1>11, <2>1, <2>8 DEF Mints
    <2> QED BY <1>10, <2>9, <2>10, ReaderStep
  <1>12. CASE ~(m > ListLimit)
    <2>1. PICK e : e = [got |-> got, stable |-> c.stable, paid |-> c.paid, truncated |-> FALSE]
      OBVIOUS
    <2>2. cursors' = cursors /\ ended' = e /\ UNCHANGED <<vars, mode, page>>
      BY <1>1, <1>12, <2>1 DEF Ends
    <2>3. PICK q \in Spots : (q = c.after \/ Precedes(c.after, q)) /\ UpToSpot(t, q)
      <3>1. CASE n = 0
        BY <1>2, <1>6, <3>1 DEF UpToSpot
      <3>2. CASE n # 0
        <4>1. n \in DOMAIN t /\ t[n] \in Spots /\ Precedes(c.after, t[n])
          BY <1>5, <1>6, <1>7, <3>2, ElementOfSeq
        <4>2. UpToSpot(t, t[n])
          <5> SUFFICES ASSUME NEW i \in DOMAIN t PROVE t[i] = t[n] \/ Precedes(t[i], t[n])
            BY DEF UpToSpot
          <5>1. i < n \/ i = n
            BY <1>5, <1>6
          <5> QED BY <1>7, <4>1, <5>1 DEF Rising
        <4> QED BY <4>1, <4>2
      <3> QED BY <3>1, <3>2
    <2>4. \A x \in c.stable : Precedes(c.after, x) => \E i \in DOMAIN t : t[i] = x
      BY <1>9, <1>12
    <2>5. c.stable \subseteq Spots
      BY <1>2, <1>8
    <2>6. \A x \in c.stable : Precedes(c.after, x) => Precedes(q, x) \/ \E i \in DOMAIN t : t[i] = x
      BY <2>4
    <2>7. ListsUpTo(c.got \o t, c.stable, q)
      BY <1>2, <1>6, <1>7, <2>3, <2>5, <2>6, JoinLists
    <2>8. AllListed(c.got \o t, c.stable)
      <3>1. t \in Seq(Spots)
        BY <1>6
      <3>2. ListsUpTo(c.got, c.stable, c.after)
        BY <1>2
      <3> QED BY <2>4, <3>1, <3>2, JoinsAll
    <2>9. Ended(e)
      BY <1>1, <2>1, <2>7, <2>8 DEF Ended, ListsUpTo, AllListed
    <2> QED BY <1>10, <2>2, <2>9, ReaderStep
  <1> QED BY <1>11, <1>12

LEMMA ListsKeep ==
  ASSUME PagingInv, mode \in {"area", "civics"}, FirstList \/ NextList
  PROVE  PagingInv'
  <1>1. mode = "civics"
    BY DEF FirstList, NextList
  <1>2. CASE FirstList
    <2>1. PICK c : c = Chain(<<0, 0>>, 0, <<>>, Present, 0)
      OBVIOUS
    <2>2. Start = <<0, 0>>
      BY <1>1 DEF Start
    <2>3. Chained(c)
      BY <1>1, <2>1, <2>2, ChainBegins
    <2>4. ReadsList(c)
      BY <1>2, <2>1 DEF FirstList
    <2> QED BY <1>1, <2>3, <2>4, ListReadKeeps
  <1>3. CASE NextList
    <2>1. PICK c \in cursors : ReadsList(c)
      BY <1>3 DEF NextList
    <2>2. Chained(c)
      BY <1>1 DEF PagingInv
    <2> QED BY <1>1, <2>1, <2>2, ListReadKeeps
  <1> QED BY <1>2, <1>3

(* The page goes on, or is complete: its cursor names the last row read and *)
(* what is left, or the chain ends.                                         *)
LEMMA FetchKeeps ==
  ASSUME PagingInv, mode \in {"area", "civics"}, FetchBatch
  PROVE  PagingInv'
  <1>1. page # None /\ UNCHANGED <<vars, mode>>
    BY DEF FetchBatch
  <1>2. mode = "area" /\ Reading(page) /\ Sound(rows) /\ IdsInv
    BY <1>1 DEF PagingInv, RefreshInv
  <1> DEFINE x == page
             c == page.chain
             want == x.size - Len(x.records)
             b == Batch(x.last, want)
             fills == {m \in DOMAIN b : Len(InsideOf(b, m)) >= want}
             stops == {Len(b), ScanBudget - x.scanned} \cup fills
             n == CHOOSE m \in stops : \A k \in stops : m <= k
             t == InsideOf(b, n)
             records == x.records \o t
             scanned == x.scanned + n
             last == IF n = 0 THEN x.last ELSE b[n]
             exhausted == Exhausted(b, want, n = Len(b) /\ n \notin fills)
             rest == c.remaining - Len(records)
             got == c.got \o records
  <1>3. IF Len(records) < x.size /\ scanned < ScanBudget /\ ~exhausted
        THEN /\ page' = [page EXCEPT !.records = records, !.scanned = scanned, !.last = last]
             /\ UNCHANGED <<cursors, ended>>
        ELSE /\ page' = None
             /\ IF ~exhausted /\ rest > 0
                THEN Mints(Chain(last, rest, got, c.stable, c.paid))
                ELSE Ends(c, got, ~exhausted)
    BY DEF FetchBatch
  <1> HIDE DEF want, b, fills, stops, n, t, records, scanned, last, exhausted, rest, got
  <1>4. /\ Chained(c) /\ c.remaining \in Nat \ {0} /\ c.paid \in Nat
        /\ Len(c.got) + c.remaining = c.paid /\ c.stable \subseteq Present /\ c.got \in Seq(Nat)
    BY <1>2 DEF Reading, Chained, ListsUpTo, Spots
  <1>5. /\ x.size = PageSize(c.remaining) /\ x.records \in Seq(Nat) /\ Len(x.records) < x.size
        /\ x.scanned \in Nat /\ x.scanned < ScanBudget /\ x.last \in Nat
        /\ ListsUpTo(c.got \o x.records, c.stable, x.last)
    BY <1>2 DEF Reading, ListsUpTo, Spots
  <1>6. /\ x.size \in Nat \ {0} /\ x.size <= c.remaining
        /\ want \in Nat \ {0} /\ ScanBudget - x.scanned \in Nat \ {0}
    <2>1. PICK k : k = Len(x.records)
      OBVIOUS
    <2>2. k \in Nat /\ k < x.size /\ want = x.size - k
      BY <1>5, <2>1, LenProperties DEF want
    <2>3. x.size \in Nat \ {0} /\ x.size <= c.remaining
      BY <1>4, <1>5, PagingConstants DEF PageSize, Lesser
    <2>4. ScanBudget - x.scanned \in Nat \ {0}
      BY <1>5, PagingConstants
    <2> QED BY <2>2, <2>3, <2>4
  <1>7. /\ b \in Seq(Nat) /\ Rising(b)
        /\ \A i \in DOMAIN b : b[i] > x.last
        /\ \A y \in Present : y > x.last =>
              \/ \E i \in DOMAIN b : b[i] = y
              \/ Len(b) = want + 1 /\ b[want + 1] < y
    BY <1>2, <1>5, <1>6, AreaBatchFacts DEF b
  <1>8. PICK l : l = Len(b)
    OBVIOUS
  <1>9. l \in Nat /\ DOMAIN b = 1 .. l
    BY <1>7, <1>8
  <1>10. l \in Nat /\ fills \in SUBSET (1 .. l) /\ stops = {l, ScanBudget - x.scanned} \cup fills
    <2>1. fills \in SUBSET (DOMAIN b)
      BY DEF fills
    <2>2. stops = {l, ScanBudget - x.scanned} \cup fills
      BY <1>8 DEF stops
    <2> QED BY <1>9, <2>1, <2>2
  <1>11. n \in 0 .. l /\ (n = 0 <=> l = 0) /\ \A m \in fills : n <= m
    <2>1. PICK budget : budget = ScanBudget - x.scanned
      OBVIOUS
    <2>2. budget \in Nat \ {0} /\ stops = {l, budget} \cup fills
      BY <1>6, <1>10, <2>1
    <2>3. l \in Nat
      BY <1>10
    <2>4. fills \in SUBSET (1 .. l)
      BY <1>10
    <2>5. n = FirstStop(stops)
      BY DEF n, FirstStop
    <2> QED BY <2>2, <2>3, <2>4, <2>5, StopsFirst
  <1>12. Len(t) <= want /\ t \in Seq(Nat) /\ Len(t) \in Nat
    <2>1. \A m \in 1 .. Len(b) : Len(InsideOf(b, m)) >= want => m \in fills
      BY <1>8, <1>9 DEF fills
    <2>2. \A m \in 1 .. Len(b) : Len(InsideOf(b, m)) >= want => n <= m
      BY <1>11, <2>1
    <2>3. n \in 0 .. Len(b)
      BY <1>8, <1>11
    <2>4. Len(t) <= want
      BY <1>2, <1>6, <1>7, <2>2, <2>3, Consumed DEF t
    <2>5. t \in Seq(Nat)
      BY <1>2, <1>7, <2>3, InsideFacts DEF t
    <2> QED BY <2>4, <2>5, LenProperties
  <1>13. Spots = Nat /\ (\A y, z : Precedes(y, z) = (y < z)) /\ \A y \in c.stable : y \in Nat
    <2>1. \A y \in Present : y \in Spots
      BY <1>2, PresentFacts
    <2> QED BY <1>2, <1>4, <2>1 DEF Spots, Precedes
  <1>14. /\ last \in Nat /\ (last = x.last \/ x.last < last)
         /\ \A i \in 1 .. n : x.last < b[i] /\ (b[i] = last \/ b[i] < last)
    <2>1. CASE n = 0
      <3>1. last = x.last
        BY <2>1 DEF last
      <3> QED BY <1>5, <2>1, <3>1
    <2>2. CASE n # 0
      <3>1. last = b[n] /\ n \in DOMAIN b /\ n \in Nat
        <4>1. last = b[n]
          BY <2>2 DEF last
        <4> QED BY <1>10, <1>11, <1>9, <2>2, <4>1
      <3>2. last \in Nat /\ x.last < last
        BY <1>5, <1>7, <3>1, ElementOfSeq
      <3>3. ASSUME NEW i \in 1 .. n PROVE x.last < b[i] /\ (b[i] = last \/ b[i] < last)
        <4>1. i \in DOMAIN b /\ (i = n \/ i < n)
          BY <1>10, <1>11, <1>9
        <4>2. i < n => b[i] < b[n]
          BY <1>7, <1>13, <3>1, <4>1 DEF Rising
        <4>3. x.last < b[i]
          BY <1>5, <1>7, <4>1, ElementOfSeq
        <4> QED BY <3>1, <4>1, <4>2, <4>3
      <3> QED BY <3>2, <3>3
    <2> QED BY <2>1, <2>2
  <1>15. /\ Rising(t) /\ \A i \in DOMAIN t : \E j \in 1 .. n : t[i] = b[j]
         /\ \A j \in 1 .. n : b[j] \in Present => \E i \in DOMAIN t : t[i] = b[j]
    <2>1. n \in 0 .. Len(b)
      BY <1>8, <1>11
    <2> QED BY <1>2, <1>7, <2>1, InsideFacts DEF t
  <1>16. UpToSpot(t, last) /\ \A i \in DOMAIN t : Precedes(x.last, t[i])
    BY <1>13, <1>14, <1>15 DEF UpToSpot
  <1>17. ASSUME NEW y \in c.stable, x.last < y
         PROVE  \/ \E i \in DOMAIN t : t[i] = y
                \/ last < y /\ ~exhausted
    <2>1. y \in Present /\ y \in Nat /\ y > x.last
      BY <1>4, <1>5, <1>13, <1>17
    <2>2. CASE \E i \in DOMAIN b : b[i] = y
      <3>1. PICK i \in 1 .. l : b[i] = y
        BY <1>9, <2>2
      <3>2. CASE i <= n
        <4>1. i \in 1 .. n
          BY <1>10, <1>11, <3>2
        <4> QED BY <1>15, <2>1, <3>1, <4>1
      <3>3. CASE ~(i <= n)
        <4>1. n # 0 /\ n # l /\ l # 0 /\ n < i /\ n \in 1 .. l
          BY <1>10, <1>11, <3>3
        <4>2. last = b[n] /\ b[n] < b[i]
          BY <1>7, <1>13, <1>9, <4>1 DEF Rising, last
        <4>3. b # <<>> /\ n # Len(b)
          BY <1>7, <1>8, <4>1
        <4>4. ~exhausted
          BY <4>3 DEF Exhausted, exhausted
        <4> QED BY <3>1, <4>2, <4>4
      <3> QED BY <3>2, <3>3
    <2>3. CASE Len(b) = want + 1 /\ b[want + 1] < y
      <3>1. l = want + 1 /\ l \in DOMAIN b /\ l # 0 /\ b[l] < y
        BY <1>6, <1>8, <1>9, <2>3
      <3>2. ~exhausted
        <4>1. b # <<>> /\ ~(Len(b) < want + 1)
          BY <1>6, <1>7, <1>8, <3>1
        <4> QED BY <4>1 DEF Exhausted, exhausted
      <3>3. n # 0 /\ last = b[n] /\ n \in DOMAIN b /\ (n = l \/ n < l)
        <4>1. n # 0 /\ n \in DOMAIN b /\ (n = l \/ n < l)
          BY <1>10, <1>11, <1>9, <3>1
        <4> QED BY <4>1 DEF last
      <3>4. b[n] \in Nat /\ b[l] \in Nat /\ (n < l => b[n] < b[l])
        <4>1. b[n] \in Nat /\ b[l] \in Nat
          BY <1>7, <3>1, <3>3, ElementOfSeq
        <4>2. n < l => b[n] < b[l]
          BY <1>7, <1>13, <3>1, <3>3 DEF Rising
        <4> QED BY <4>1, <4>2
      <3> QED BY <2>1, <3>1, <3>2, <3>3, <3>4
    <2> QED BY <1>7, <2>1, <2>2, <2>3
  <1>18. /\ records \in Seq(Spots) /\ got = (c.got \o x.records) \o t
         /\ Len(records) = Len(x.records) + Len(t) /\ Len(got) = Len(c.got) + Len(records)
    <2>1. records \in Seq(Nat) /\ Len(records) = Len(x.records) + Len(t)
      BY <1>5, <1>12, ConcatProperties DEF records
    <2>2. Len(got) = Len(c.got) + Len(records)
      BY <1>4, <2>1, ConcatProperties DEF got
    <2>3. got = (c.got \o x.records) \o t
      <3>1. PICK u, v : u = c.got /\ v = x.records
        OBVIOUS
      <3>2. u \in Seq(Spots) /\ v \in Seq(Spots) /\ t \in Seq(Spots)
        BY <1>4, <1>5, <1>12, <1>13, <3>1
      <3>3. \A S : \A k, m, p \in Seq(S) : (k \o m) \o p = k \o (m \o p)
        BY ConcatAssociative, Zenon
      <3>4. (u \o v) \o t = u \o (v \o t)
        BY <3>2, <3>3
      <3> QED BY <3>1, <3>4 DEF got, records
    <2> QED BY <1>13, <2>1, <2>2, <2>3
  <1>19. ListsUpTo(got, c.stable, last)
    <2>1. \A y \in c.stable : Precedes(x.last, y) => Precedes(last, y) \/ \E i \in DOMAIN t : t[i] = y
      BY <1>13, <1>17
    <2>2. t \in Seq(Spots) /\ last \in Spots /\ c.stable \subseteq Spots
      BY <1>12, <1>13, <1>14
    <2>3. last = x.last \/ Precedes(x.last, last)
      BY <1>13, <1>14
    <2>4. ListsUpTo((c.got \o x.records) \o t, c.stable, last)
      BY <1>5, <1>15, <1>16, <2>1, <2>2, <2>3, JoinLists
    <2> QED BY <1>18, <2>4
  <1>20. exhausted => AllListed(got, c.stable)
    <2> SUFFICES ASSUME exhausted PROVE AllListed(got, c.stable)
      OBVIOUS
    <2>1. \A y \in c.stable : Precedes(x.last, y) => \E i \in DOMAIN t : t[i] = y
      BY <1>13, <1>17
    <2>2. t \in Seq(Spots)
      BY <1>12, <1>13
    <2>3. AllListed((c.got \o x.records) \o t, c.stable)
      BY <1>5, <2>1, <2>2, JoinsAll
    <2> QED BY <1>18, <2>3
  <1>21. Len(records) \in Nat /\ Len(c.got) \in Nat /\ Len(records) <= x.size
    <2>1. PICK k, m : k = Len(x.records) /\ m = Len(t)
      OBVIOUS
    <2>2. k \in Nat /\ m \in Nat /\ want = x.size - k /\ m <= want
      BY <1>5, <1>12, <2>1, LenProperties DEF want
    <2>3. Len(records) = k + m
      BY <1>18, <2>1
    <2>4. Len(c.got) \in Nat
      BY <1>4, LenProperties
    <2> QED BY <1>6, <2>2, <2>3, <2>4
  <1>22. rest \in Nat /\ Len(got) + rest = c.paid /\ Len(got) <= c.paid
    <2>1. PICK k, m, r, size, g :
            k = Len(records) /\ m = Len(c.got) /\ r = c.remaining /\ size = x.size /\ g = Len(got)
      OBVIOUS
    <2>2. k \in Nat /\ m \in Nat /\ k <= size /\ g = m + k /\ rest = r - k
      BY <1>18, <1>21, <2>1 DEF rest
    <2>3. m + r = c.paid /\ r \in Nat /\ size <= r /\ size \in Nat
      BY <1>4, <1>6, <2>1
    <2>4. rest \in Nat /\ g + rest = m + r /\ g <= m + r
      BY <2>2, <2>3
    <2> QED BY <2>1, <2>3, <2>4
  <1>23. (\A chain \in cursors : Chained(chain)) /\ (ended # None => Ended(ended))
    BY DEF PagingInv
  <1>24. CASE Len(records) < x.size /\ scanned < ScanBudget /\ ~exhausted
    <2>1. PICK y : y = page'
      OBVIOUS
    <2>2. DOMAIN x = {"chain", "size", "records", "scanned", "last"}
      BY <1>2 DEF Reading
    <2>3. y = [x EXCEPT !.records = records, !.scanned = scanned, !.last = last]
      BY <1>3, <1>24, <2>1
    <2>4. /\ DOMAIN y = {"chain", "size", "records", "scanned", "last"}
          /\ y.chain = c /\ y.size = x.size /\ y.records = records /\ y.scanned = scanned
          /\ y.last = last
      BY <2>2, <2>3
    <2>5. y.size = PageSize(y.chain.remaining) /\ Chained(y.chain)
      BY <1>4, <1>5, <2>4
    <2>6. y.records \in Seq(Spots) /\ Len(y.records) < y.size
      BY <1>18, <1>24, <2>4
    <2>7. scanned \in Nat
      <3>1. n \in Nat
        BY <1>10, <1>11
      <3> QED BY <1>5, <3>1 DEF scanned
    <2>8. y.scanned \in Nat /\ y.scanned < ScanBudget
      BY <1>24, <2>4, <2>7
    <2>9. ListsUpTo(y.chain.got \o y.records, y.chain.stable, y.last)
      BY <1>19, <2>4 DEF got
    <2>10. Reading(y)
      BY <2>4, <2>5, <2>6, <2>8, <2>9 DEF Reading
    <2>11. UNCHANGED <<cursors, ended>>
      BY <1>3, <1>24
    <2> QED BY <1>1, <1>2, <1>23, <2>1, <2>10, <2>11, ReaderStep
  <1>25. CASE ~(Len(records) < x.size /\ scanned < ScanBudget /\ ~exhausted)
    <2>1. page' = None
      BY <1>3, <1>25
    <2>2. CASE ~exhausted /\ rest > 0
      <3>1. PICK d : d = Chain(last, rest, got, c.stable, c.paid)
        OBVIOUS
      <3>2. cursors' = cursors \cup {d} /\ ended' = ended
        BY <1>3, <1>25, <2>2, <3>1 DEF Mints
      <3>3. /\ DOMAIN d = {"after", "remaining", "got", "stable", "paid"}
            /\ d.after = last /\ d.remaining = rest /\ d.got = got /\ d.stable = c.stable
            /\ d.paid = c.paid
        BY <3>1 DEF Chain
      <3>4. ListsUpTo(d.got, d.stable, d.after) /\ d.stable \subseteq Present
        BY <1>4, <1>19, <3>3
      <3>5. /\ d.remaining \in Nat \ {0} /\ d.paid \in Nat
            /\ Len(d.got) + d.remaining = d.paid
        BY <1>4, <1>22, <2>2, <3>3
      <3>6. Chained(d)
        BY <3>3, <3>4, <3>5 DEF Chained
      <3> QED BY <1>1, <1>2, <1>23, <2>1, <3>2, <3>6, ReaderStep
    <2>3. CASE ~(~exhausted /\ rest > 0)
      <3>1. PICK e, all : all = ~exhausted
                          /\ e = [got |-> got, stable |-> c.stable, paid |-> c.paid, truncated |-> all]
        OBVIOUS
      <3>2. cursors' = cursors /\ ended' = e
        BY <1>3, <1>25, <2>3, <3>1 DEF Ends
      <3>3. e.got = got /\ e.stable = c.stable /\ e.paid = c.paid /\ e.truncated = all
        BY <3>1
      <3>4. ~e.truncated => AllListed(e.got, e.stable)
        BY <1>20, <3>1, <3>3
      <3>5. e.got \in Seq(Spots) /\ Rising(e.got)
        BY <1>19, <3>3 DEF ListsUpTo
      <3>6. Len(e.got) <= e.paid
        BY <1>22, <3>3
      <3>7. Ended(e)
        BY <3>4, <3>5, <3>6 DEF Ended
      <3> QED BY <1>1, <1>2, <1>23, <2>1, <3>2, <3>7, ReaderStep
    <2> QED BY <2>2, <2>3
  <1> QED BY <1>24, <1>25
(* What an import removes was not there throughout: a chain stays a chain.  *)
LEMMA ListsShrink ==
  ASSUME mode' = mode, NEW s, NEW stable, NEW p, ListsUpTo(s, stable, p),
         NEW fewer \in SUBSET stable
  PROVE  ListsUpTo(s, fewer, p)'
  <1>1. Spots' = Spots /\ \A x, y : Precedes(x, y)' = Precedes(x, y)
    BY DEF Spots, Precedes
  <1>2. Rising(s)' /\ UpToSpot(s, p)'
    BY <1>1 DEF ListsUpTo, Rising, UpToSpot
  <1>3. NoneMissed(s, fewer, p)'
    BY <1>1 DEF ListsUpTo, NoneMissed
  <1> QED BY <1>1, <1>2, <1>3 DEF ListsUpTo

LEMMA ChainShrinks ==
  ASSUME mode' = mode, NEW c, Chained(c), NEW d, d = [c EXCEPT !.stable = @ \cap Present']
  PROVE  Chained(d)'
  <1>1. DOMAIN c = {"after", "remaining", "got", "stable", "paid"}
    BY DEF Chained
  <1>2. /\ DOMAIN d = {"after", "remaining", "got", "stable", "paid"}
        /\ d.after = c.after /\ d.remaining = c.remaining /\ d.got = c.got /\ d.paid = c.paid
        /\ d.stable = c.stable \cap Present'
    BY <1>1
  <1>3. ListsUpTo(c.got, c.stable, c.after) /\ d.stable \in SUBSET c.stable
    BY <1>2 DEF Chained
  <1>4. ListsUpTo(d.got, d.stable, d.after)'
    <2>1. PICK s, p, stable : s = c.got /\ p = c.after /\ stable = c.stable
      OBVIOUS
    <2>2. PICK fewer : fewer = d.stable
      OBVIOUS
    <2>3. ListsUpTo(s, stable, p) /\ fewer \in SUBSET stable
      BY <1>3, <2>1, <2>2
    <2>4. ListsUpTo(s, fewer, p)'
      BY <2>3, ListsShrink
    <2> QED BY <1>2, <2>1, <2>2, <2>4
  <1>5. d.stable \subseteq Present'
    BY <1>2
  <1>6. mode' = "area" => /\ d.remaining \in Nat \ {0} /\ d.paid \in Nat
                          /\ Len(d.got) + d.remaining = d.paid
    BY <1>2 DEF Chained
  <1> QED BY <1>2, <1>4, <1>5, <1>6 DEF Chained

LEMMA ImportsKeeps ==
  ASSUME PagingInv, mode \in {"area", "civics"}, Imports
  PROVE  PagingInv'
  <1> DEFINE now(chain) == [chain EXCEPT !.stable = @ \cap Present']
  <1>1. /\ Next /\ mode' = mode /\ ended' = ended
        /\ cursors' = {now(chain) : chain \in cursors}
        /\ page' = IF page = None THEN None ELSE [page EXCEPT !.chain = now(@)]
    BY DEF Imports
  <1>2. RefreshInv' /\ IdsInv'
    BY <1>1, RefreshNextKeeps, IdsKeep DEF PagingInv
  <1>3. \A d \in cursors' : Chained(d)'
    <2> SUFFICES ASSUME NEW d \in cursors' PROVE Chained(d)'
      OBVIOUS
    <2>1. PICK c \in cursors : d = [c EXCEPT !.stable = @ \cap Present']
      BY <1>1
    <2>2. Chained(c)
      BY DEF PagingInv
    <2> QED BY <1>1, <2>1, <2>2, ChainShrinks
  <1>4. ASSUME page' # None PROVE mode' = "area" /\ Reading(page)'
    <2>1. PICK x, y : x = page /\ y = page'
      OBVIOUS
    <2>2. page # None /\ mode = "area" /\ Reading(x)
      BY <1>1, <1>4, <2>1 DEF PagingInv
    <2>3. y = [x EXCEPT !.chain = now(@)]
      BY <1>1, <2>1, <2>2
    <2>4. DOMAIN x = {"chain", "size", "records", "scanned", "last"} /\ Chained(x.chain)
      BY <2>2 DEF Reading
    <2>5. PICK c, d : c = x.chain /\ d = now(c)
      OBVIOUS
    <2>6. /\ DOMAIN y = {"chain", "size", "records", "scanned", "last"}
          /\ y.chain = d /\ y.size = x.size /\ y.records = x.records /\ y.scanned = x.scanned
          /\ y.last = x.last
      BY <2>3, <2>4, <2>5
    <2>7. DOMAIN c = {"after", "remaining", "got", "stable", "paid"}
      BY <2>4, <2>5 DEF Chained
    <2>8. /\ d.remaining = c.remaining /\ d.got = c.got
          /\ d.stable \in SUBSET c.stable
      BY <2>5, <2>7
    <2>9. Chained(d)'
      BY <1>1, <2>4, <2>5, ChainShrinks
    <2>10. /\ y.size = PageSize(d.remaining) /\ y.records \in Seq(Spots) /\ Len(y.records) < y.size
           /\ y.scanned \in Nat /\ y.scanned < ScanBudget
           /\ ListsUpTo(c.got \o y.records, c.stable, y.last)
      BY <2>2, <2>5, <2>6, <2>8 DEF Reading
    <2>11. ListsUpTo(d.got \o y.records, d.stable, y.last)'
      <3>1. PICK s, fewer, stable, p :
              s = c.got \o y.records /\ fewer = d.stable /\ stable = c.stable /\ p = y.last
        OBVIOUS
      <3>2. ListsUpTo(s, stable, p) /\ fewer \in SUBSET stable
        BY <2>8, <2>10, <3>1
      <3>3. ListsUpTo(s, fewer, p)'
        BY <1>1, <3>2, ListsShrink
      <3> QED BY <2>8, <3>1, <3>3
    <2>12. Spots' = Spots
      BY <1>1 DEF Spots
    <2>13. Reading(y)'
      BY <2>6, <2>9, <2>10, <2>11, <2>12 DEF Reading
    <2> QED BY <1>1, <2>1, <2>2, <2>13
  <1>5. ASSUME ended' # None PROVE Ended(ended)'
    <2>1. Ended(ended)
      BY <1>1, <1>5 DEF PagingInv
    <2>2. Spots' = Spots /\ \A x, y : Precedes(x, y)' = Precedes(x, y)
      BY <1>1 DEF Spots, Precedes
    <2> QED BY <1>1, <2>1, <2>2 DEF Ended, Rising, AllListed
  <1> QED BY <1>2, <1>3, <1>4, <1>5 DEF PagingInv

LEMMA PagingNextKeeps ==
  ASSUME PagingInv, [PagingNext]_pagingVars
  PROVE  PagingInv'
  <1>1. [Next]_vars /\ mode' = mode
    BY DEF PagingNext, pagingVars, pageState, FirstPage, LaterPage, OpensPage, FetchBatch,
           OfferExpires, FirstList, NextList, ReadsList, Imports
  <1>2. CASE mode \notin {"area", "civics"}
    <2>1. RefreshInv' /\ IdsInv'
      BY <1>1, RefreshNextKeeps, IdsKeep DEF PagingInv
    <2> QED BY <1>1, <1>2, <2>1 DEF PagingInv
  <1>3. CASE mode \in {"area", "civics"}
    <2>1. CASE UNCHANGED pagingVars
      <3>1. UNCHANGED <<vars, mode>> /\ UNCHANGED <<cursors, page, ended>>
        BY <2>1 DEF pagingVars, pageState
      <3>2. /\ \A chain \in cursors : Chained(chain)
            /\ page # None => mode = "area" /\ Reading(page)
            /\ ended # None => Ended(ended)
        BY <1>3 DEF PagingInv
      <3> QED BY <1>3, <3>1, <3>2, ReaderStep
    <2>2. CASE PagingNext
      BY <1>3, <2>2, FirstPageKeeps, LaterPageKeeps, FetchKeeps, OfferExpiresKeeps, ListsKeep,
         ImportsKeeps DEF PagingNext
    <2> QED BY <2>1, <2>2
  <1> QED BY <1>2, <1>3

(* A list that goes upwards has a place once. *)
LEMMA RisingHasOnce ==
  ASSUME NEW s \in Seq(Spots), Rising(s), NEW i \in DOMAIN s
  PROVE  Cardinality({j \in DOMAIN s : s[j] = s[i]}) = 1
  <1>1. PICK l : l = Len(s)
    OBVIOUS
  <1>2. l \in Nat /\ DOMAIN s = 1 .. l
    BY <1>1
  <1>3. ASSUME NEW j \in DOMAIN s, s[j] = s[i] PROVE j = i
    <2>1. s[i] \in Spots
      BY <1>1, <1>2, ElementOfSeq
    <2>2. ~Precedes(s[i], s[i])
      BY <2>1, PrecedesOrders
    <2>3. ~(i < j) /\ ~(j < i)
      BY <1>3, <2>2 DEF Rising
    <2> QED BY <1>2, <2>3
  <1>4. {j \in DOMAIN s : s[j] = s[i]} = {i}
    BY <1>3
  <1> QED BY <1>4, FS_Singleton

LEMMA OnceEach ==
  ASSUME NEW chain, chain.got \in Seq(Spots), Rising(chain.got)
  PROVE  \A i \in DOMAIN chain.got : TimesGot(chain, chain.got[i]) = 1
  <1>1. PICK s : s = chain.got
    OBVIOUS
  <1>2. s \in Seq(Spots) /\ Rising(s)
    BY <1>1
  <1>3. \A i \in DOMAIN s : Cardinality({j \in DOMAIN s : s[j] = s[i]}) = 1
    BY <1>2, RisingHasOnce
  <1> QED BY <1>1, <1>3 DEF TimesGot

LEMMA PagesAddUpFrom ==
  ASSUME PagingInv
  PROVE  PagesAddUp
  <1>1. ASSUME mode = "area" PROVE WithinAllowance
    <2>1. ASSUME NEW chain \in cursors
          PROVE  Len(chain.got) + chain.remaining = chain.paid /\ chain.remaining > 0
      <3>1. Chained(chain)
        BY <1>1 DEF PagingInv
      <3> QED BY <1>1, <3>1 DEF Chained
    <2>2. ASSUME page # None
          PROVE  /\ Len(page.chain.got) + Len(page.records) <= page.chain.paid
                 /\ page.scanned < ScanBudget
      <3>1. Reading(page)
        BY <1>1, <2>2 DEF PagingInv
      <3>2. PICK g, k, r, size : /\ g = Len(page.chain.got) /\ k = Len(page.records)
                                 /\ r = page.chain.remaining /\ size = page.size
        OBVIOUS
      <3>3. /\ g \in Nat /\ r \in Nat /\ g + r = page.chain.paid
        BY <1>1, <3>1, <3>2, LenProperties DEF Reading, Chained, ListsUpTo
      <3>4. k \in Nat /\ k < size /\ size = PageSize(r)
        BY <3>1, <3>2, LenProperties DEF Reading
      <3>5. size \in Nat /\ size <= r
        BY <3>3, <3>4, PagingConstants DEF PageSize, Lesser
      <3>6. g + k <= g + r
        BY <3>3, <3>4, <3>5
      <3>7. page.scanned < ScanBudget
        BY <3>1 DEF Reading
      <3> QED BY <3>2, <3>3, <3>6, <3>7
    <2>3. ended # None => Len(ended.got) <= ended.paid
      BY <1>1 DEF PagingInv, Ended
    <2> QED BY <2>1, <2>2, <2>3 DEF WithinAllowance
  <1>2. ASSUME mode \in {"area", "civics"} PROVE StableListedOnce
    <2>1. ASSUME NEW chain \in Chains
          PROVE  chain.got \in Seq(Spots) /\ Rising(chain.got)
      <3>1. CASE chain \in cursors
        BY <1>2, <3>1 DEF PagingInv, Chained, ListsUpTo
      <3>2. CASE page # None /\ chain = page.chain
        BY <1>2, <3>2 DEF PagingInv, Reading, Chained, ListsUpTo
      <3>3. CASE ended # None /\ chain = ended
        BY <1>2, <3>3 DEF PagingInv, Ended
      <3> QED BY <3>1, <3>2, <3>3 DEF Chains
    <2>2. \A chain \in Chains : \A i \in DOMAIN chain.got : TimesGot(chain, chain.got[i]) = 1
      BY <2>1, OnceEach
    <2>3. ASSUME ended # None, ~ended.truncated, NEW place \in ended.stable
          PROVE  TimesGot(ended, place) = 1
      <3>1. PICK i \in DOMAIN ended.got : ended.got[i] = place
        BY <1>2, <2>3 DEF PagingInv, Ended, AllListed
      <3>2. ended \in Chains
        BY <2>3 DEF Chains
      <3> QED BY <2>2, <3>1, <3>2
    <2> QED BY <2>2, <2>3 DEF StableListedOnce
  <1> QED BY <1>1, <1>2 DEF PagesAddUp, WithinAllowance, StableListedOnce

(* Along a chain of pages nothing is delivered beyond the allowance paid    *)
(* for, nothing twice, and at its end nothing is missing that was there     *)
(* from its first page to its last, whatever is imported between and within *)
(* the pages (PagesAddUp).                                                  *)
THEOREM ChainsAddUp == PagingSpec => []PagesAddUp
  <1>1. PagingInit => PagingInv
    BY RefreshStarts, IdsStart DEF PagingInit, PagingInv
  <1>2. PagingInv /\ [PagingNext]_pagingVars => PagingInv'
    BY PagingNextKeeps
  <1>3. PagingInv => PagesAddUp
    BY PagesAddUpFrom
  <1> QED BY <1>1, <1>2, <1>3, PTL DEF PagingSpec
=============================================================================
