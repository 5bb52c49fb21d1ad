-------------------------- MODULE ApiServerProofs --------------------------
(***************************************************************************)
(* What the API process guarantees for every number of threads, requests,  *)
(* edits of the pack directory, faults and crashes, and with either store. *)
(***************************************************************************)
EXTENDS ApiServer, AnalyticalStoresProofs

\* Of a sequence of one, Chosen takes that one or none.
LEMMA ChosenOfOne ==
    ASSUME NEW x
    PROVE  Chosen(<<x>>, {}) = <<>> /\ Chosen(<<x>>, {1}) = <<x>>
<1>1. Cardinality({}) = 0
  BY FS_EmptySet
<1>2. Cardinality({1}) = 1
  BY FS_Singleton
<1>3. Chosen(<<x>>, {}) = <<>>
  BY <1>1 DEF Chosen
<1>4. {j \in {1} : j < 1} = {}
  OBVIOUS
<1>5. (CHOOSE i \in {1} : Cardinality({j \in {1} : j < i}) + 1 = 1) = 1
  <2>1. \A i \in {1} : Cardinality({j \in {1} : j < i}) + 1 = 1
    BY <1>1, <1>4
  <2> QED  BY <2>1
<1>6. Chosen(<<x>>, {1}) = [k \in 1 .. 1 |-> <<x>>[CHOOSE i \in {1} : Cardinality({j \in {1} : j < i}) + 1 = k]]
  BY <1>2 DEF Chosen
<1>7. Chosen(<<x>>, {1}) = [k \in 1 .. 1 |-> x]
  <2> DEFINE n(k) == CHOOSE i \in {1} : Cardinality({j \in {1} : j < i}) + 1 = k
  <2>1. n(1) = 1 /\ \A k \in 1 .. 1 : k = 1
    BY <1>5
  <2> HIDE DEF n
  <2>2. \A k \in 1 .. 1 : <<x>>[n(k)] = x
    BY <2>1
  <2>3. [k \in 1 .. 1 |-> <<x>>[n(k)]] = [k \in 1 .. 1 |-> x]
    BY <2>2
  <2> QED  BY <1>6, <2>3 DEF n
<1>8. [k \in 1 .. 1 |-> x] = <<x>>
  OBVIOUS
<1> QED  BY <1>3, <1>7, <1>8

\* Sorting rearranges: the same packs, the higher priorities first.
LEMMA SortedIs ==
    ASSUME NEW X \in SUBSET Packs, NEW s \in Seq(X)
    PROVE  /\ Sorted(s) \in Seq(X) /\ Len(Sorted(s)) = Len(s)
           /\ \A i \in 1 .. Len(s) : \E k \in 1 .. Len(s) : Sorted(s)[k] = s[i]
           /\ \A k \in 1 .. Len(s) : \E i \in 1 .. Len(s) : Sorted(s)[k] = s[i]
           /\ \A k, m \in 1 .. Len(s) : k < m => Priority[Sorted(s)[k]] >= Priority[Sorted(s)[m]]
<1> DEFINE D == 1 .. Len(s)
           before(i, j) == \/ Priority[s[i]] > Priority[s[j]]
                           \/ Priority[s[i]] = Priority[s[j]] /\ i < j
           R == {r \in D \X D : before(r[1], r[2])}
           rank(i) == Cardinality({j \in D : before(j, i)}) + 1
           nth(k) == CHOOSE i \in D : rank(i) = k
           c == [k \in D |-> s[nth(k)]]
<1>1. IsFiniteSet(D) /\ Cardinality(D) = Len(s) /\ Len(s) \in Nat /\ DOMAIN s = D
  <2>1. Len(s) \in Nat
    OBVIOUS
  <2>2. 1 \in Int /\ Len(s) \in Int /\ (IF 1 > Len(s) THEN 0 ELSE Len(s) - 1 + 1) = Len(s)
    BY <2>1
  <2> QED  BY <2>1, <2>2, FS_Interval
<1>2. ASSUME NEW i \in D  PROVE s[i] \in X /\ Priority[s[i]] \in Int /\ i \in Int
  <2>1. s[i] \in X /\ s[i] \in Packs
    OBVIOUS
  <2>2. \A p \in Packs : Priority[p] \in Int
    BY DEF Priority, Packs
  <2> QED  BY <1>1, <2>1, <2>2
<1>3. \A x, y \in D : <<x, y>> \in R <=> before(x, y)
  OBVIOUS
<1>4. /\ \A x, y \in D : x = y \/ <<x, y>> \in R \/ <<y, x>> \in R
      /\ \A x \in D : <<x, x>> \notin R
      /\ \A x, y, z \in D : <<x, y>> \in R /\ <<y, z>> \in R => <<x, z>> \in R
  <2> HIDE DEF R, D
  <2>1. \A x, y \in D : x = y \/ before(x, y) \/ before(y, x)
    BY <1>2
  <2>2. \A x \in D : ~before(x, x)
    BY <1>2
  <2>3. \A x, y, z \in D : before(x, y) /\ before(y, z) => before(x, z)
    BY <1>2
  <2> HIDE DEF before
  <2> QED  BY <1>3, <2>1, <2>2, <2>3
<1>5. /\ \A x \in D : Rank(D, R, x) \in 1 .. Cardinality(D)
      /\ \A x, y \in D : <<x, y>> \in R => Rank(D, R, x) < Rank(D, R, y)
      /\ \A k \in 1 .. Cardinality(D) : \E x \in D : Rank(D, R, x) = k
  <2> HIDE DEF R, D, before, rank, nth, c
  <2>1. IsFiniteSet(D)
    BY <1>1
  <2>2. \A x, y \in D : x = y \/ <<x, y>> \in R \/ <<y, x>> \in R
    BY <1>4
  <2>3. \A x \in D : <<x, x>> \notin R
    BY <1>4
  <2>4. \A x, y, z \in D : <<x, y>> \in R /\ <<y, z>> \in R => <<x, z>> \in R
    BY <1>4
  <2> QED  BY ONLY <2>1, <2>2, <2>3, <2>4, Ranked, Zenon
<1>6. ASSUME NEW x \in D  PROVE Rank(D, R, x) = rank(x)
  <2>1. Before(D, R, x) = {j \in D : before(j, x)}
    <3>1. \A j \in D : <<j, x>> \in R <=> before(j, x)
      BY <1>3
    <3> HIDE DEF R, before, D
    <3> QED  BY <3>1 DEF Before
  <2> HIDE DEF R, before
  <2> QED  BY <2>1 DEF Rank
<1> HIDE DEF rank
<1>7. /\ \A x \in D : rank(x) \in D
      /\ \A x, y \in D : before(x, y) => rank(x) < rank(y)
      /\ \A k \in D : \E x \in D : rank(x) = k
  <2> HIDE DEF R, before
  <2> QED  BY <1>1, <1>3, <1>5, <1>6
<1> USE DEF rank
<1>8. Sorted(s) = c
  BY <1>1 DEF Sorted
<1> HIDE DEF rank
<1>9. ASSUME NEW k \in D  PROVE nth(k) \in D /\ rank(nth(k)) = k
  BY <1>7
<1>10. ASSUME NEW i \in D  PROVE \E k \in D : nth(k) = i
  <2> DEFINE k == rank(i)
             n == nth(k)
  <2>1. k \in D
    BY <1>7
  <2>2. n \in D /\ rank(n) = k
    BY <1>9, <2>1
  <2>3. before(n, i) \/ before(i, n) \/ n = i
    <3> HIDE DEF n, D
    <3> QED  BY <1>2, <2>2
  <2>4. rank(n) \in Int /\ rank(i) \in Int /\ rank(n) = rank(i)
    BY <1>1, <1>7, <2>2
  <2>5. n = i
    <3> HIDE DEF n, before, k
    <3>1. before(n, i) => rank(n) < rank(i)
      BY <1>7, <2>2
    <3>2. before(i, n) => rank(i) < rank(n)
      BY <1>7, <2>2
    <3> QED  BY <2>3, <2>4, <3>1, <3>2
  <2> QED  BY <2>1, <2>5 DEF n
<1>11. ASSUME NEW k \in D, NEW m \in D, k < m
       PROVE  Priority[s[nth(k)]] >= Priority[s[nth(m)]]
  <2> DEFINE x == nth(k)
             y == nth(m)
  <2>1. x \in D /\ y \in D /\ rank(x) = k /\ rank(y) = m /\ k \in Int /\ m \in Int
    BY <1>1, <1>9
  <2> HIDE DEF x, y
  <2>2. ~before(y, x)
    <3>1. before(y, x) => rank(y) < rank(x)
      BY <1>7, <2>1
    <3> HIDE DEF before
    <3> QED  BY <1>11, <2>1, <3>1
  <2>3. Priority[s[x]] \in Int /\ Priority[s[y]] \in Int
    BY <1>2, <2>1
  <2>4. ~(Priority[s[y]] > Priority[s[x]])
    BY <2>2
  <2>5. Priority[s[x]] >= Priority[s[y]]
    BY <2>3, <2>4
  <2> QED  BY <2>5 DEF x, y
<1> HIDE DEF nth
<1>12. \A k \in D : c[k] = s[nth(k)]
  OBVIOUS
<1>13. c \in Seq(X) /\ Len(c) = Len(s)
  <2>1. c \in [1 .. Len(s) -> X]
    BY <1>2, <1>9
  <2>2. ASSUME NEW n \in Nat, NEW g \in [1 .. n -> X]  PROVE g \in Seq(X) /\ Len(g) = n
    OBVIOUS
  <2> HIDE DEF c
  <2> QED  BY <1>1, <2>1, <2>2
<1> HIDE DEF c
<1> QED  BY <1>8, <1>9, <1>10, <1>11, <1>12, <1>13

(***************************************************************************)
(* Constants and stores.                                                   *)
(***************************************************************************)
LEMMA Constants ==
    /\ MaxRequests \in Nat /\ MaxFaults \in Nat /\ MaxEdits \in Nat
    /\ Requests \subseteq Nat \ {0}
    /\ \A i \in 1 .. Len(Directory) : Directory[i] \in Entries
    /\ Directory \in Seq(Entries) /\ Len(Directory) \in Nat
    /\ Entries \subseteq Packs
<1>1. Directory \in Seq(Packs) /\ Entries = {Directory[i] : i \in DOMAIN Directory}
  BY ServerAssumption DEF Entries
<1>2. DOMAIN Directory = 1 .. Len(Directory) /\ Len(Directory) \in Nat
  BY <1>1
<1>3. Directory \in Seq(Entries)
  <2>1. Directory = [i \in 1 .. Len(Directory) |-> Directory[i]]
    BY <1>1
  <2>2. \A i \in 1 .. Len(Directory) : Directory[i] \in Entries
    BY <1>1, <1>2
  <2>3. Directory \in [1 .. Len(Directory) -> Entries]
    BY <2>1, <2>2
  <2> QED  BY <1>2, <2>3
<1> QED  BY ServerAssumption, <1>1, <1>2, <1>3 DEF Requests

\* The moment of normalization is a number.
LEMMA RowsTimed == \A r \in Rows : r.id \in Requests /\ r.u.normalized \in Int
<1> SUFFICES ASSUME NEW r \in Rows  PROVE r.id \in Requests /\ r.u.normalized \in Int
  OBVIOUS
<1>1. r.id \in Requests /\ r.u \in NormalizedEvents
  BY DEF Rows
<1>2. PICK w \in Routes, i \in Requests : r.u = NormalizedAs(w[1], w[2], i)
  BY <1>1 DEF NormalizedEvents
<1> DEFINE e == EngineParse(w[1], "cef", w[2])
           at == [ingested |-> i, parsed |-> i, now |-> i]
<1> HIDE DEF e
<1>3. i \in Int /\ at.ingested = i /\ at.parsed = i /\ at.now = i
  BY Constants
<1> HIDE DEF at
<1>4. Unified(e, at).normalized = NormalizedAt(at)
  BY DEF Unified
<1>5. Rated(Unified(e, at)).normalized = Unified(e, at).normalized
  BY DEF Rated, Unified
<1>6. NormalizedAt(at) \in Int
  BY <1>3 DEF NormalizedAt, Latest
<1> QED  BY <1>1, <1>2, <1>4, <1>5, <1>6 DEF NormalizedAs, Normalize, e, at

\* Each identity once.
Distinct(s) == \A i, j \in 1 .. Len(s) : s[i].id = s[j].id => i = j

\* A list of distinct rows has as many rows and identities as places.
LEMMA RowSet ==
    ASSUME NEW s \in Seq(Rows), Distinct(s)
    PROVE  LET S == {s[i] : i \in DOMAIN s} IN
           /\ IsFiniteSet(S) /\ Cardinality(S) = Len(s)
           /\ IsFiniteSet(Ids(S)) /\ Cardinality(Ids(S)) = Len(s)
           /\ Len(s) \in Nat /\ Ids(S) \subseteq Requests
           /\ \A i : i \in Ids(S) <=> \E k \in 1 .. Len(s) : s[k].id = i
<1> DEFINE D == 1 .. Len(s)
           S == {s[i] : i \in DOMAIN s}
           f == [i \in D |-> s[i]]
           g == [i \in D |-> s[i].id]
<1>1. IsFiniteSet(D) /\ Cardinality(D) = Len(s) /\ Len(s) \in Nat /\ DOMAIN s = D
  <2>1. Len(s) \in Nat /\ DOMAIN s = 1 .. Len(s)
    OBVIOUS
  <2>2. 1 \in Int /\ Len(s) \in Int /\ (IF 1 > Len(s) THEN 0 ELSE Len(s) - 1 + 1) = Len(s)
    BY <2>1
  <2> QED  BY <2>1, <2>2, FS_Interval
<1>2. \A i : i \in Ids(S) <=> \E k \in D : s[k].id = i
  BY <1>1 DEF Ids
<1>3. \A i \in D : s[i] \in Rows
  BY <1>1
<1>4. \A i, j \in D : s[i].id = s[j].id => i = j
  BY DEF Distinct
<1>5. f \in Surjection(D, S) /\ f \in Injection(D, S)
  <2>1. f \in [D -> S] /\ \A r \in S : \E i \in D : f[i] = r
    BY <1>1
  <2>2. \A i, j \in D : f[i] = f[j] => i = j
    BY <1>4
  <2> HIDE DEF f, D, S
  <2> QED  BY <2>1, <2>2 DEF Surjection, Injection, IsInjective
<1>6. g \in Surjection(D, Ids(S)) /\ g \in Injection(D, Ids(S))
  <2>1. g \in [D -> Ids(S)] /\ \A r \in Ids(S) : \E i \in D : g[i] = r
    <3> HIDE DEF S
    <3> QED  BY <1>2
  <2>2. \A i, j \in D : g[i] = g[j] => i = j
    BY <1>4
  <2> HIDE DEF g, D, S
  <2> QED  BY <2>1, <2>2 DEF Surjection, Injection, IsInjective
<1>7. Ids(S) \subseteq Requests
  BY <1>2, <1>3 DEF Rows
<1> HIDE DEF f, g, S, D
<1>8. IsFiniteSet(S) /\ Cardinality(S) = Len(s)
  BY <1>1, <1>5, FS_Surjection
<1>9. IsFiniteSet(Ids(S)) /\ Cardinality(Ids(S)) = Len(s)
  BY <1>1, <1>6, FS_Surjection
<1> QED  BY <1>1, <1>2, <1>7, <1>8, <1>9 DEF S, D

\* Nothing replaces a row whose identity was written once.
LEMMA FinalIs ==
    ASSUME NEW events \in Seq(Rows), Distinct(events)
    PROVE  Final(events) = {events[i] : i \in DOMAIN events}
<1> DEFINE key(i) == <<events[i].u.observed, events[i].id>>
           replaces(j, i) == \/ events[j].u.normalized > events[i].u.normalized
                             \/ events[j].u.normalized = events[i].u.normalized /\ j > i
<1>1. DOMAIN events = 1 .. Len(events) /\ Len(events) \in Nat
  OBVIOUS
<1>2. \A j, k \in DOMAIN events : key(j) = key(k) => j = k
  BY <1>1 DEF Distinct
<1>3. \A k \in DOMAIN events : ~replaces(k, k)
  <2>1. \A k \in DOMAIN events : events[k].u.normalized \in Int /\ k \in Int
    BY <1>1, RowsTimed
  <2> QED  BY <2>1
<1>4. {k \in DOMAIN events : ~\E j \in DOMAIN events : key(j) = key(k) /\ replaces(j, k)}
        = DOMAIN events
  <2> HIDE DEF key, replaces
  <2> QED  BY <1>2, <1>3
<1> QED  BY <1>4 DEF Final

Table == IF backend = "memory" THEN mem ELSE ch.events

\* What is stored, counted: every number of the dashboard's total is that of the identities.
LEMMA StoreIs ==
    StoredOnce /\ backend \in {"memory", "clickhouse"} =>
       /\ IsFiniteSet(Stored) /\ Cardinality(Stored) = Total /\ Total = Len(Table)
       /\ IsFiniteSet(Ids(Stored)) /\ Cardinality(Ids(Stored)) = Total
       /\ Total \in Nat /\ Ids(Stored) \subseteq Requests
       /\ Table \in Seq(Rows) /\ Stored = {Table[i] : i \in DOMAIN Table}
       /\ \A i : i \in Ids(Stored) <=> \E k \in 1 .. Len(Table) : Table[k].id = i
<1> SUFFICES ASSUME StoredOnce, backend \in {"memory", "clickhouse"}
             PROVE  /\ IsFiniteSet(Stored) /\ Cardinality(Stored) = Total /\ Total = Len(Table)
                    /\ IsFiniteSet(Ids(Stored)) /\ Cardinality(Ids(Stored)) = Total
                    /\ Total \in Nat /\ Ids(Stored) \subseteq Requests
                    /\ Table \in Seq(Rows) /\ Stored = {Table[i] : i \in DOMAIN Table}
                    /\ \A i : i \in Ids(Stored) <=> \E k \in 1 .. Len(Table) : Table[k].id = i
  OBVIOUS
<1>1. /\ mem \in Seq(Rows) /\ Distinct(mem)
      /\ ch.events \in Seq(Rows) /\ Distinct(ch.events)
  BY DEF StoredOnce, Distinct
<1>2. Table \in Seq(Rows) /\ Distinct(Table)
  BY <1>1 DEF Table
<1>3. Stored = {Table[i] : i \in DOMAIN Table}
  BY <1>1, FinalIs DEF Stored, Table
<1>4. /\ IsFiniteSet(Stored) /\ Cardinality(Stored) = Len(Table)
      /\ IsFiniteSet(Ids(Stored)) /\ Cardinality(Ids(Stored)) = Len(Table)
      /\ Len(Table) \in Nat /\ Ids(Stored) \subseteq Requests
      /\ \A i : i \in Ids(Stored) <=> \E k \in 1 .. Len(Table) : Table[k].id = i
  BY <1>2, <1>3, RowSet
<1>5. Total = Len(Table)
  <2>1. CASE backend = "memory"
    BY <2>1 DEF Total, Table, MemoryTotal
  <2>2. CASE backend # "memory"
    <3>1. Total = Cardinality(Ids(Final(ch.events)))
      BY <2>2 DEF Total, ClickHouseTotal, Ids
    <3>2. Stored = Final(ch.events)
      BY <2>2 DEF Stored
    <3> QED  BY <1>4, <3>1, <3>2
  <2> QED  BY <2>1, <2>2
<1> QED  BY <1>2, <1>3, <1>4, <1>5

\* A search answers with rows that are stored.
LEMMA NewestIs ==
    ASSUME StoredOnce, backend \in {"memory", "clickhouse"}, NEW n, NEW rows \in Newest(n)
    PROVE  /\ Ids(rows) \subseteq Ids(Stored) /\ Ids(rows) \subseteq Requests
           /\ IsFiniteSet(rows) /\ Cardinality(rows) <= Total
<1>1. rows \subseteq Stored
  <2>1. CASE backend = "memory"
    BY <2>1 DEF Newest, MemorySearch, MemoryPage, Stored
  <2>2. CASE backend # "memory"
    BY <2>2 DEF Newest, ClickHouseSearch, NewestOf, Stored
  <2> QED  BY <2>1, <2>2
<1>2. IsFiniteSet(Stored) /\ Cardinality(Stored) = Total /\ Ids(Stored) \subseteq Requests
  BY StoreIs
<1>3. IsFiniteSet(rows) /\ Cardinality(rows) <= Cardinality(Stored)
  BY <1>1, <1>2, FS_Subset
<1>4. Ids(rows) \subseteq Ids(Stored)
  BY <1>1 DEF Ids
<1> QED  BY <1>2, <1>3, <1>4

\* Detection names the first pack of the list that takes the line.
LEMMA MatchIs ==
    ASSUME NEW X, NEW list \in Seq(X), NEW line
    PROVE  /\ Match(list, line) # NoPack =>
                Match(list, line) \in X /\ Detects(Match(list, line), line)
           /\ \A n \in 1 .. Len(list) :
                Detects(list[n], line) /\ (\A i \in 1 .. n - 1 : ~Detects(list[i], line))
                   => Match(list, line) = list[n]
           /\ (\A i \in 1 .. Len(list) : ~Detects(list[i], line)) => Match(list, line) = NoPack
<1> DEFINE hits == {i \in DOMAIN list : Detects(list[i], line)}
           first == CHOOSE i \in hits : \A j \in hits : i <= j
<1>1. DOMAIN list = 1 .. Len(list) /\ Len(list) \in Nat
  OBVIOUS
<1>2. hits \subseteq Nat
  BY <1>1
<1>3. hits # {} => first \in hits
  <2> SUFFICES ASSUME hits # {}  PROVE first \in hits
    OBVIOUS
  <2> HIDE DEF hits
  <2>1. PICK k \in hits : \A j \in hits : <<j, k>> \notin OpToRel(<, Nat)
    BY <1>2, NatLessThanWellFounded, WFMin
  <2>2. \A j \in hits : ~(j < k) /\ j \in Nat /\ k \in Nat
    BY <1>2, <2>1 DEF OpToRel
  <2>3. \A j \in hits : k <= j
    BY <2>2
  <2>4. \E i \in hits : \A j \in hits : i <= j
    BY <2>3
  <2> HIDE DEF first
  <2> QED  BY <2>4, Zenon DEF first
<1>4. ASSUME NEW n \in 1 .. Len(list), Detects(list[n], line),
             \A i \in 1 .. n - 1 : ~Detects(list[i], line)
      PROVE  Match(list, line) = list[n]
  <2>1. n \in hits /\ \A j \in hits : n <= j
    BY <1>1, <1>4
  <2>2. \A i \in hits : (\A j \in hits : i <= j) => i = n
    <3> HIDE DEF hits
    <3> QED  BY <1>2, <2>1
  <2>3. first = n
    <3> HIDE DEF hits
    <3> QED  BY <2>1, <2>2
  <2> QED  BY <2>1, <2>3 DEF Match
<1>5. Match(list, line) = IF hits = {} THEN NoPack ELSE list[first]
  BY DEF Match
<1>6. hits # {} => list[first] \in X /\ Detects(list[first], line)
  BY <1>1, <1>3
<1>7. (\A i \in 1 .. Len(list) : ~Detects(list[i], line)) => hits = {}
  BY <1>1
<1> HIDE DEF hits, first
<1> QED  BY <1>4, <1>5, <1>6, <1>7

(***************************************************************************)
(* What a step of one thread is to the others: one begins a request, moves *)
(* on within it, or ends it.                                               *)
(***************************************************************************)
Alike(j, k) ==
    /\ j.id = k.id /\ j.kind = k.kind /\ j.line = k.line /\ j.list = k.list /\ j.next = k.next
    /\ j.pack = k.pack /\ j.entries = k.entries /\ j.touched = k.touched /\ j.rows = k.rows
    /\ j.total = k.total /\ j.counted = k.counted

Others(t) ==
    /\ pc' \in [Threads -> Steps] /\ DOMAIN job' = Threads
    /\ \A u \in Threads \ {t} : /\ pc'[u] = pc[u] /\ Alike(job'[u], job[u]) /\ IsJob(job'[u])
                                /\ pc[u] = "idle" => job'[u] = job[u]

Begun(t) ==
    /\ up /\ pc[t] = "idle" /\ taken < MaxRequests /\ taken' = taken + 1
    /\ Others(t) /\ IsJob(job'[t]) /\ job'[t].id = taken + 1
    /\ pc'[t] \in {"collect", "engine", "scan", "total", "write", "part"}
    /\ job'[t].kind \in DOMAIN Stages /\ pc'[t] \in Stages[job'[t].kind]
    /\ job'[t].kind = "event" => job'[t].line \in PostedLines /\ pc'[t] = "collect"
    /\ pc'[t] = "scan" => /\ job'[t].list = <<>> /\ job'[t].entries = Directory
                          /\ job'[t].touched = {}
    /\ pc'[t] = "total" => /\ Ids(job'[t].rows) \subseteq Ids(Stored)
                           /\ IsFiniteSet(job'[t].rows) /\ Cardinality(job'[t].rows) <= Total
    /\ pc'[t] = "write" => job'[t].entries = JsonlFiles
    /\ settled' \in BOOLEAN
    /\ UNCHANGED <<world, packs, stream, stores, files, answer, past>>

Moved(t) ==
    /\ pc[t] # "idle" /\ pc'[t] \in Stages[job[t].kind]
    /\ Others(t) /\ IsJob(job'[t])
    /\ job'[t].id = job[t].id /\ job'[t].kind = job[t].kind /\ job'[t].line = job[t].line
    /\ Collect(t) \/ (pc'[t] # "collect" /\ pc[t] # "collect" /\ UNCHANGED stream)
    /\ pc'[t] = "match" => BeginMatch(t) \/ AskPack(t)
    /\ pc'[t] = "store" => AskPack(t)
    /\ pc'[t] # "total"
    /\ pc'[t] = "count" => TakeTotal(t)
    /\ pc'[t] = "counted" => CountGroups(t)
    /\ pc'[t] \in Stages.reload => ScanEntry(t) \/ RereadEntry(t)
    /\ pc'[t] \in {"write", "describe"} => WriteFile(t) \/ DescribeFile(t)
    /\ WriteFile(t) \/ UNCHANGED files
    /\ UNCHANGED <<world, packs, stores, answer, taken, past, settled>>

Ended(t) ==
    /\ pc[t] # "idle" /\ pc'[t] = "idle" /\ job'[t] = NoJob
    /\ Others(t)
    /\ \E a \in Answers \ {"none"} :
         /\ answer' = [answer EXCEPT ![job[t].id] = a]
         /\ a \in {"413", "422"} => pc[t] = "collect"
         /\ a \in {"201", "503"} => Store(t)
    /\ archived' \in {archived, archived \cup {job[t].id}} /\ published' = published
    /\ faults' \in 0 .. MaxFaults /\ settled' \in BOOLEAN
    /\ Store(t) \/ UNCHANGED stores
    /\ PublishPacks(t) \/ UNCHANGED packs
    /\ UNCHANGED <<up, backend, dir, edits, files, taken, past>>

\* A thread without a request has none of these.
LEMMA NoJobIs == IsJob(NoJob) /\ NoJob.kind = "none" /\ NoJob.entries = <<>>
<1>1. Ids({}) = {}
  BY DEF Ids
<1>2. 0 \in 0 .. MaxRequests /\ <<>> \in Seq(Entries)
  BY Constants
<1> QED  BY <1>1, <1>2 DEF IsJob, NoJob

\* The fields a request begins with.
LEMMA TakeIs ==
    ASSUME StateTypes, JobTypes, NEW t \in Threads, NEW new, NEW step \in Steps,
           DOMAIN new = DOMAIN NoJob, new.list = <<>>, new.alone \in BOOLEAN,
           Ids(new.rows) \subseteq Requests, Take(t, new, step)
    PROVE  /\ up /\ pc[t] = "idle" /\ taken < MaxRequests /\ taken' = taken + 1
           /\ Others(t) /\ pc'[t] = step
           /\ IsJob(job'[t]) /\ job'[t] = [new EXCEPT !.id = taken + 1]
           /\ job'[t].id = taken + 1
<1>1. /\ up /\ pc[t] = "idle" /\ taken < MaxRequests /\ taken' = taken + 1
      /\ job' = [job EXCEPT ![t] = [new EXCEPT !.id = taken + 1]]
      /\ pc' = [pc EXCEPT ![t] = step]
  BY DEF Take, Goes
<1>2. job'[t] = [new EXCEPT !.id = taken + 1] /\ \A u \in Threads \ {t} : job'[u] = job[u]
  BY <1>1 DEF JobTypes
<1>3. taken + 1 \in 0 .. MaxRequests
  BY <1>1, Constants DEF StateTypes
<1>4. job'[t].id = taken + 1
  BY <1>2 DEF NoJob
<1>5. IsJob(job'[t])
  <2>1. <<>> \in Seq(Entries)
    OBVIOUS
  <2>2. /\ DOMAIN job'[t] = DOMAIN NoJob /\ job'[t].list = <<>> /\ job'[t].alone \in BOOLEAN
        /\ job'[t].rows = new.rows
    BY <1>2, Zenon DEF NoJob
  <2> QED  BY <1>3, <1>4, <2>1, <2>2 DEF IsJob
<1>6. Others(t)
  BY <1>1, <1>2, Zenon DEF Others, Alike, JobTypes, StateTypes
<1> QED  BY <1>1, <1>2, <1>4, <1>5, <1>6 DEF StateTypes

\* An arrival gives a free thread a new request, and touches nothing else of the state.
LEMMA Begins ==
    ASSUME IInv, NEW t \in Threads, Arrives(t)
    PROVE  Begun(t)
<1>1. /\ StateTypes /\ JobTypes /\ StoredOnce /\ backend \in {"memory", "clickhouse"}
      /\ Ids({}) = {}
  BY DEF IInv, StateTypes, Ids
<1>2. ASSUME NEW new, NEW step \in {"collect", "engine", "scan", "total", "part"},
             DOMAIN new = DOMAIN NoJob, new.list = <<>>, new.alone \in BOOLEAN,
             Ids(new.rows) \subseteq Requests, Take(t, new, step), UNCHANGED disk,
             new.kind \in DOMAIN Stages, step \in Stages[new.kind],
             new.kind = "event" => new.line \in PostedLines /\ step = "collect",
             step = "scan" => new.entries = Directory /\ new.touched = {},
             step = "total" => /\ Ids(new.rows) \subseteq Ids(Stored)
                               /\ IsFiniteSet(new.rows) /\ Cardinality(new.rows) <= Total
      PROVE  Begun(t)
  <2>1. /\ up /\ pc[t] = "idle" /\ taken < MaxRequests /\ taken' = taken + 1
        /\ Others(t) /\ pc'[t] = step
        /\ IsJob(job'[t]) /\ job'[t] = [new EXCEPT !.id = taken + 1]
        /\ job'[t].id = taken + 1
    <3>1. step \in Steps
      BY DEF Steps
    <3> QED  BY <1>1, <1>2, <3>1, TakeIs
  <2>2. /\ job'[t].kind = new.kind /\ job'[t].line = new.line /\ job'[t].list = new.list
        /\ job'[t].entries = new.entries /\ job'[t].touched = new.touched
        /\ job'[t].rows = new.rows
    BY <1>2, <2>1 DEF NoJob
  <2>3. UNCHANGED <<world, packs, stream, stores, files, answer, past, settled>>
    BY <1>2 DEF Take, disk
  <2> QED  BY <1>1, <1>2, <2>1, <2>2, <2>3 DEF Begun, StateTypes
<1>3. ASSUME NEW l \in PostedLines,
             Take(t, [NoJob EXCEPT !.kind = "event", !.line = l], "collect"), UNCHANGED disk
      PROVE  Begun(t)
  <2> DEFINE new == [NoJob EXCEPT !.kind = "event", !.line = l]
  <2>1. /\ DOMAIN new = DOMAIN NoJob /\ new.list = <<>> /\ new.alone = FALSE /\ new.rows = {}
        /\ new.kind = "event" /\ new.line = l
    BY DEF NoJob
  <2>2. "event" \in DOMAIN Stages /\ "collect" \in Stages["event"]
    BY DEF Stages
  <2>3. Take(t, new, "collect")
    BY <1>3
  <2> HIDE DEF new
  <2> QED  BY <1>1, <1>2, <1>3, <2>1, <2>2, <2>3
<1>4. ASSUME NEW l \in ParsedLines,
             Take(t, [NoJob EXCEPT !.kind = "parse", !.line = l], "engine"), UNCHANGED disk
      PROVE  Begun(t)
  <2> DEFINE new == [NoJob EXCEPT !.kind = "parse", !.line = l]
  <2>1. /\ DOMAIN new = DOMAIN NoJob /\ new.list = <<>> /\ new.alone = FALSE /\ new.rows = {}
        /\ new.kind = "parse"
    BY DEF NoJob
  <2>2. "parse" \in DOMAIN Stages /\ "engine" \in Stages["parse"]
    BY DEF Stages
  <2>3. Take(t, new, "engine")
    BY <1>4
  <2> HIDE DEF new
  <2> QED  BY <1>1, <1>2, <1>4, <2>1, <2>2, <2>3
<1>5. ASSUME PostReload(t)  PROVE Begun(t)
  <2> DEFINE new == [NoJob EXCEPT !.kind = "reload", !.entries = Directory]
  <2>1. /\ DOMAIN new = DOMAIN NoJob /\ new.list = <<>> /\ new.alone = FALSE /\ new.rows = {}
        /\ new.kind = "reload" /\ new.entries = Directory /\ new.touched = {}
    BY DEF NoJob
  <2>2. "reload" \in DOMAIN Stages /\ "scan" \in Stages["reload"]
    BY DEF Stages
  <2>3. Take(t, new, "scan") /\ UNCHANGED disk
    BY <1>5 DEF PostReload
  <2> HIDE DEF new
  <2> QED  BY <1>1, <1>2, <2>1, <2>2, <2>3
<1>6. ASSUME NEW rows \in Newest(SearchCap), UNCHANGED disk,
             Take(t, [NoJob EXCEPT !.kind = "analytics", !.rows = rows], "total")
      PROVE  Begun(t)
  <2> DEFINE new == [NoJob EXCEPT !.kind = "analytics", !.rows = rows]
  <2>1. /\ DOMAIN new = DOMAIN NoJob /\ new.list = <<>> /\ new.alone = FALSE
        /\ new.rows = rows /\ new.kind = "analytics"
    BY DEF NoJob
  <2>2. "analytics" \in DOMAIN Stages /\ "total" \in Stages["analytics"]
    BY DEF Stages
  <2>3. Take(t, new, "total")
    BY <1>6
  <2>4. /\ Ids(rows) \subseteq Ids(Stored) /\ Ids(rows) \subseteq Requests
        /\ IsFiniteSet(rows) /\ Cardinality(rows) <= Total
    BY <1>1, NewestIs
  <2> HIDE DEF new
  <2> QED  BY <1>1, <1>2, <1>6, <2>1, <2>2, <2>3, <2>4
<1>7. ASSUME NEW rows \in Newest(ExportLimit), UNCHANGED disk,
             Take(t, [NoJob EXCEPT !.kind = "parquet", !.rows = rows, !.todo = Partitions(rows)],
                  "part")
      PROVE  Begun(t)
  <2> DEFINE new == [NoJob EXCEPT !.kind = "parquet", !.rows = rows, !.todo = Partitions(rows)]
  <2>1. /\ DOMAIN new = DOMAIN NoJob /\ new.list = <<>> /\ new.alone = FALSE
        /\ new.rows = rows /\ new.kind = "parquet"
    BY DEF NoJob
  <2>2. "parquet" \in DOMAIN Stages /\ "part" \in Stages["parquet"]
    BY DEF Stages
  <2>3. Take(t, new, "part")
    BY <1>7
  <2>4. Ids(rows) \subseteq Requests
    BY <1>1, NewestIs
  <2> HIDE DEF new
  <2> QED  BY <1>1, <1>2, <1>7, <2>1, <2>2, <2>3, <2>4
<1>8. ASSUME PostExport(t)  PROVE Begun(t)
  <2>1. PICK rows \in Newest(ExportLimit) :
          /\ up /\ pc[t] = "idle" /\ taken < MaxRequests
          /\ taken' = taken + 1
          /\ job' = [u \in Threads |->
                       IF u = t
                       THEN [NoJob EXCEPT !.kind = "export", !.id = taken', !.rows = rows,
                                          !.entries = JsonlFiles, !.alone = Exporting = {}]
                       ELSE IF u \in Exporting THEN [job[u] EXCEPT !.alone = FALSE] ELSE job[u]]
          /\ pc' = [pc EXCEPT ![t] = "write"]
          /\ settled' = FALSE
          /\ UNCHANGED <<world, packs, stream, stores, files, answer, past>>
    BY <1>8 DEF PostExport, Goes
  <2>2. Ids(rows) \subseteq Requests
    BY <1>1, NewestIs
  <2>3. /\ DOMAIN job'[t] = DOMAIN NoJob /\ job'[t].kind = "export"
        /\ job'[t].id = taken + 1 /\ job'[t].rows = rows /\ job'[t].entries = JsonlFiles
        /\ job'[t].list = <<>> /\ job'[t].alone \in BOOLEAN
    BY <2>1 DEF NoJob
  <2>4. IsJob(job'[t])
    <3>1. taken \in 0 .. MaxRequests /\ <<>> \in Seq(Entries)
      BY <1>1 DEF StateTypes
    <3>2. taken < MaxRequests /\ MaxRequests \in Nat
      BY <2>1, Constants
    <3>3. taken + 1 \in 0 .. MaxRequests
      BY <3>1, <3>2
    <3> QED  BY <2>2, <2>3, <3>1, <3>3 DEF IsJob
  <2>5. Others(t)
    <3>1. ASSUME NEW u \in Threads \ {t}
          PROVE  /\ pc'[u] = pc[u] /\ Alike(job'[u], job[u]) /\ IsJob(job'[u])
                 /\ pc[u] = "idle" => job'[u] = job[u]
      <4>1. pc'[u] = pc[u] /\ IsJob(job[u])
        BY <1>1, <2>1 DEF StateTypes, JobTypes
      <4>2. CASE job'[u] = job[u]
        BY <4>1, <4>2 DEF Alike
      <4>3. CASE u \in Exporting /\ job'[u] = [job[u] EXCEPT !.alone = FALSE]
        <5>1. job[u].kind = "export"
          BY <4>3 DEF Exporting
        <5>2. pc[u] # "idle"
          BY <5>1, NoJobIs DEF IInv, OwnRequests, OwnRequest
        <5>3. Alike(job'[u], job[u]) /\ job'[u].alone = FALSE /\ DOMAIN job'[u] = DOMAIN job[u]
          BY <4>1, <4>3 DEF Alike, IsJob, NoJob
        <5> QED  BY <4>1, <5>2, <5>3 DEF IsJob, Alike
      <4> QED  BY <2>1, <4>2, <4>3
    <3>2. pc' \in [Threads -> Steps] /\ DOMAIN job' = Threads
      BY <1>1, <2>1 DEF StateTypes, Steps
    <3> QED  BY <3>1, <3>2 DEF Others
  <2>6. pc'[t] = "write" /\ "export" \in DOMAIN Stages /\ "write" \in Stages["export"]
    BY <1>1, <2>1 DEF StateTypes, Stages
  <2> QED  BY <2>1, <2>3, <2>4, <2>5, <2>6, Zenon DEF Begun
<1> QED  BY <1>3, <1>4, <1>5, <1>6, <1>7, <1>8
         DEF Arrives, PostEvent, PostParse, GetAnalytics, ExportParquet

\* The step of a thread tells the kind of its request.
LEMMA KindIs ==
    ASSUME OwnRequests, NEW t \in Threads, pc[t] # "idle"
    PROVE  /\ job[t].kind \in DOMAIN Stages /\ pc[t] \in Stages[job[t].kind]
           /\ pc[t] \in {"collect", "store"} => job[t].kind = "event"
           /\ pc[t] \in {"engine", "match"} => job[t].kind \in {"event", "parse"}
           /\ pc[t] \in {"scan", "reread"} => job[t].kind = "reload"
           /\ pc[t] \in {"total", "count", "counted"} => job[t].kind = "analytics"
           /\ pc[t] \in {"write", "describe", "manifest", "summary"} => job[t].kind = "export"
           /\ pc[t] = "part" => job[t].kind = "parquet"
<1> DEFINE k == job[t].kind
<1>1. k \in DOMAIN Stages /\ pc[t] \in Stages[k]
  BY DEF OwnRequests, OwnRequest
<1>2. k \in {"event", "parse", "reload", "analytics", "export", "parquet"}
  BY <1>1 DEF Stages
<1>3. /\ k = "event" => pc[t] \in {"collect", "engine", "match", "store"}
      /\ k = "parse" => pc[t] \in {"engine", "match"}
      /\ k = "reload" => pc[t] \in {"scan", "reread"}
      /\ k = "analytics" => pc[t] \in {"total", "count", "counted"}
      /\ k = "export" => pc[t] \in {"write", "describe", "manifest", "summary"}
      /\ k = "parquet" => pc[t] = "part"
  BY <1>1 DEF Stages
<1> HIDE DEF k
<1>4. /\ pc[t] \in {"collect", "store"} => k = "event"
      /\ pc[t] \in {"engine", "match"} => k \in {"event", "parse"}
      /\ pc[t] \in {"scan", "reread"} => k = "reload"
      /\ pc[t] \in {"total", "count", "counted"} => k = "analytics"
      /\ pc[t] \in {"write", "describe", "manifest", "summary"} => k = "export"
      /\ pc[t] = "part" => k = "parquet"
  BY <1>2, <1>3
<1> QED  BY <1>1, <1>4 DEF k

\* A step that gives one thread a job or a place leaves the others theirs.
LEMMA OneMoves ==
    ASSUME StateTypes, JobTypes, NEW t \in Threads, NEW step \in Steps, NEW j,
           job' = [job EXCEPT ![t] = j], pc' = [pc EXCEPT ![t] = step]
    PROVE  Others(t) /\ pc'[t] = step /\ job'[t] = j
<1>1. pc \in [Threads -> Steps] /\ DOMAIN job = Threads /\ \A u \in Threads : IsJob(job[u])
  BY DEF StateTypes, JobTypes
<1>2. \A u \in Threads \ {t} : pc'[u] = pc[u] /\ job'[u] = job[u]
  BY <1>1
<1>3. pc' \in [Threads -> Steps] /\ DOMAIN job' = Threads
  BY <1>1
<1> QED  BY <1>1, <1>2, <1>3 DEF Others, Alike

LEMMA OneWalks ==
    ASSUME StateTypes, JobTypes, NEW t \in Threads, NEW step \in Steps,
           job' = job, pc' = [pc EXCEPT ![t] = step]
    PROVE  Others(t) /\ pc'[t] = step
<1>1. pc \in [Threads -> Steps] /\ DOMAIN job = Threads /\ \A u \in Threads : IsJob(job[u])
  BY DEF StateTypes, JobTypes
<1>2. \A u \in Threads \ {t} : pc'[u] = pc[u] /\ job'[u] = job[u]
  BY <1>1
<1>3. pc' \in [Threads -> Steps] /\ DOMAIN job' = Threads
  BY <1>1
<1> QED  BY <1>1, <1>2, <1>3 DEF Others, Alike

LEMMA OneWorks ==
    ASSUME StateTypes, JobTypes, NEW t \in Threads, NEW j,
           job' = [job EXCEPT ![t] = j], pc' = pc
    PROVE  Others(t) /\ job'[t] = j
<1>1. pc \in [Threads -> Steps] /\ DOMAIN job = Threads /\ \A u \in Threads : IsJob(job[u])
  BY DEF StateTypes, JobTypes
<1>2. \A u \in Threads \ {t} : pc'[u] = pc[u] /\ job'[u] = job[u]
  BY <1>1
<1>3. pc' \in [Threads -> Steps] /\ DOMAIN job' = Threads
  BY <1>1
<1> QED  BY <1>1, <1>2, <1>3 DEF Others, Alike

\* What a request has been answered with, and why a step may answer so.
LEMMA OneEnds ==
    ASSUME IInv, NEW t \in Threads, NEW a \in Answers \ {"none"},
           pc[t] # "idle", Answered(t, a), Done(t),
           a \in {"413", "422"} => pc[t] = "collect", a \in {"201", "503"} => Store(t),
           archived' \in {archived, archived \cup {job[t].id}}, published' = published,
           faults' \in 0 .. MaxFaults, settled' \in BOOLEAN,
           Store(t) \/ UNCHANGED stores, PublishPacks(t) \/ UNCHANGED packs,
           UNCHANGED <<up, backend, dir, edits, files, taken, past>>
    PROVE  Ended(t)
<1>1. Others(t) /\ pc'[t] = "idle" /\ job'[t] = NoJob
  <2>1. pc' = [pc EXCEPT ![t] = "idle"] /\ job' = [job EXCEPT ![t] = NoJob]
    BY DEF Done, Goes
  <2>2. "idle" \in Steps
    BY DEF Steps
  <2> QED  BY <2>1, <2>2, OneMoves DEF IInv
<1>2. answer' = [answer EXCEPT ![job[t].id] = a]
  BY DEF Answered
<1> QED  BY <1>1, <1>2 DEF Ended

\* What is left of the directory when n entries of it have been scanned.
LEMMA LeftIs ==
    ASSUME NEW n \in 0 .. Len(Directory)
    PROVE  LET left == SubSeq(Directory, n + 1, Len(Directory)) IN
           /\ left # <<>> <=> n < Len(Directory)
           /\ n < Len(Directory) => /\ Head(left) = Directory[n + 1]
                                    /\ Tail(left) = SubSeq(Directory, n + 2, Len(Directory))
<1> DEFINE left == SubSeq(Directory, n + 1, Len(Directory))
           rest == SubSeq(Directory, n + 2, Len(Directory))
<1>1. Directory \in Seq(Entries) /\ Len(Directory) \in Nat /\ n \in Nat /\ n <= Len(Directory)
  BY Constants
<1>2. left \in Seq(Entries) /\ Len(left) = Len(Directory) - n
      /\ \A i \in 1 .. Len(left) : left[i] = Directory[n + i]
  BY <1>1
<1>3. left # <<>> <=> n < Len(Directory)
  <2>1. \A q \in Seq(Entries) : q # <<>> <=> Len(q) > 0
    OBVIOUS
  <2> HIDE DEF left
  <2>2. left # <<>> <=> Len(left) > 0
    BY <1>2, <2>1
  <2> QED  BY <1>1, <1>2, <2>2
<1>4. ASSUME n < Len(Directory)  PROVE Head(left) = Directory[n + 1]
  BY <1>1, <1>2, <1>3, <1>4
<1>5. ASSUME n < Len(Directory)  PROVE Tail(left) = rest
  <2>1. rest \in Seq(Entries) /\ Len(rest) = Len(Directory) - (n + 1)
        /\ \A i \in 1 .. Len(rest) : rest[i] = Directory[(n + 1) + i]
    BY <1>1, <1>5
  <2>2. Tail(left) \in Seq(Entries) /\ Len(Tail(left)) = Len(left) - 1
        /\ \A i \in 1 .. Len(Tail(left)) : Tail(left)[i] = left[i + 1]
    <3>1. \A q \in Seq(Entries) : q # <<>> =>
            /\ Tail(q) \in Seq(Entries) /\ Len(Tail(q)) = Len(q) - 1
            /\ \A i \in 1 .. Len(Tail(q)) : Tail(q)[i] = q[i + 1]
      OBVIOUS
    <3> HIDE DEF left
    <3> QED  BY <1>2, <1>3, <1>5, <3>1
  <2>3. Len(rest) = Len(Tail(left)) /\ Len(rest) \in Nat
    BY <1>1, <1>2, <1>5, <2>1, <2>2
  <2>4. ASSUME NEW i \in 1 .. Len(rest)  PROVE rest[i] = Tail(left)[i]
    <3>1. i + 1 \in 1 .. Len(left) /\ (n + 1) + i = n + (i + 1)
      BY <1>1, <1>2, <2>1, <2>3
    <3> QED  BY <1>2, <2>1, <2>2, <2>3, <3>1
  <2> HIDE DEF left, rest
  <2>5. \A p, q \in Seq(Entries) : Len(p) = Len(q) /\ (\A i \in 1 .. Len(p) : p[i] = q[i]) => p = q
    OBVIOUS
  <2> QED  BY <2>1, <2>2, <2>3, <2>4, <2>5
<1> QED  BY <1>3, <1>4, <1>5

\* A scan has an entry in hand while one is left.
LEMMA EntryIs ==
    ASSUME NEW t \in Threads, Scanning(t), pc[t] \in {"scan", "reread"},
           job[t].entries # <<>> \/ pc[t] = "reread"
    PROVE  job[t].entries # <<>> /\ Entry(t) \in Entries
<1>1. pc[t] \in Stages.reload
  BY DEF Stages
<1>2. PICK n \in 0 .. Len(Directory) :
        /\ job[t].entries = SubSeq(Directory, n + 1, Len(Directory))
        /\ pc[t] = "reread" => n < Len(Directory)
  BY <1>1 DEF Scanning
<1>3. n < Len(Directory) /\ job[t].entries # <<>>
  BY <1>2, LeftIs
<1>4. Entry(t) = Directory[n + 1]
  BY <1>2, <1>3, LeftIs DEF Entry
<1>5. n + 1 \in 1 .. Len(Directory)
  BY <1>3, Constants
<1> QED  BY <1>3, <1>4, <1>5, Constants

\* A load ends in one of four ways.
LEMMA LoadIs ==
    \A m : /\ LoadSourcePack(m) \in {"loaded", "refused", "again", "escapes"}
           /\ ReadAgain(m) \in {"loaded", "refused", "escapes"}
           /\ LoadSourcePack(m) # "again" => Loads(m) = LoadSourcePack(m)
           /\ LoadSourcePack(m) = "again" => Loads(m) = ReadAgain(m)
<1> TAKE m
<1>1. ReadAgain(m) \in {"loaded", "refused", "escapes"}
  BY DEF ReadAgain, RuntimePack
<1>2. LoadSourcePack(m) \in {"loaded", "refused", "again", "escapes"}
  BY DEF LoadSourcePack, ManifestRead, LocalClass, RuntimePack
<1> QED  BY <1>1, <1>2 DEF Loads

\* The other steps of a thread go on with its request or end it.
LEMMA Handled ==
    ASSUME IInv, NEW t \in Threads, Handles(t)
    PROVE  Moved(t) \/ Ended(t)
<1>1. /\ StateTypes /\ JobTypes /\ OwnRequests
      /\ pc \in [Threads -> Steps] /\ DOMAIN job = Threads /\ IsJob(job[t])
      /\ faults \in 0 .. MaxFaults /\ settled \in BOOLEAN /\ job[t].alone \in BOOLEAN
  BY DEF IInv, StateTypes, JobTypes, IsJob
<1>2. Fault => faults' \in 0 .. MaxFaults
  BY <1>1, Constants DEF Fault
<1>3. ASSUME pc[t] # "idle"
      PROVE  /\ job[t].kind \in DOMAIN Stages /\ pc[t] \in Stages[job[t].kind]
             /\ pc[t] \in {"collect", "store"} => job[t].kind = "event"
             /\ pc[t] \in {"engine", "match"} => job[t].kind \in {"event", "parse"}
             /\ pc[t] \in {"scan", "reread"} => job[t].kind = "reload"
             /\ pc[t] \in {"total", "count", "counted"} => job[t].kind = "analytics"
             /\ pc[t] \in {"write", "describe", "manifest", "summary"}
                  => job[t].kind = "export"
             /\ pc[t] = "part" => job[t].kind = "parquet"
  BY <1>1, <1>3, KindIs
<1>4. /\ {"413", "422", "500", "503", "200", "201"} \subseteq Answers \ {"none"}
      /\ {"idle", "collect", "engine", "match", "store", "scan", "reread", "publish", "total",
          "count", "counted", "write", "describe", "manifest", "summary", "part"} \subseteq Steps
  BY DEF Answers, Steps
<1>5. CASE Collect(t)
  <2>1. pc[t] = "collect" /\ pc' = [pc EXCEPT ![t] = "engine"] /\ job' = job
    BY <1>5 DEF Collect, Goes
  <2>2. Others(t) /\ pc'[t] = "engine" /\ job'[t] = job[t]
    BY <1>1, <1>4, <2>1, OneWalks
  <2>3. job[t].kind = "event" /\ "engine" \in Stages["event"]
    BY <1>3, <2>1 DEF Stages
  <2>4. UNCHANGED <<world, packs, stores, answer, taken, past, settled, files>>
    BY <1>5 DEF Collect, disk
  <2>5. "engine" \notin Stages.reload
    BY DEF Stages
  <2>6. pc[t] # "idle" /\ pc'[t] \in Stages[job[t].kind]
    BY <2>1, <2>2, <2>3
  <2> QED  BY <1>1, <1>5, <2>2, <2>4, <2>5, <2>6 DEF Moved
<1>6. CASE CollectUnfit(t)
  <2>1. PICK a \in {"413", "422"} :
          pc[t] = "collect" /\ Answered(t, a) /\ Done(t)
            /\ UNCHANGED <<world, packs, stream, stores, disk, taken, past>>
    BY <1>6 DEF CollectUnfit
  <2> QED  BY <1>1, <1>4, <2>1, OneEnds DEF world, stream, disk
<1>7. CASE CollectFails(t)
  <2>1. PICK kept \in {{}, {job[t].id}} :
          /\ pc[t] = "collect" /\ Fault /\ archived' = archived \cup kept
          /\ Answered(t, "422") /\ Done(t)
          /\ UNCHANGED <<up, backend, dir, edits, packs, published, stores, disk, taken, past>>
    BY <1>7 DEF CollectFails
  <2>2. archived' \in {archived, archived \cup {job[t].id}}
    BY <2>1
  <2> QED  BY <1>1, <1>2, <1>4, <2>1, <2>2, OneEnds DEF disk
<1>8. CASE BeginMatch(t)
  <2> DEFINE j == [job[t] EXCEPT !.list = packs, !.next = 1]
  <2>1. pc[t] = "engine" /\ pc' = [pc EXCEPT ![t] = "match"] /\ job' = [job EXCEPT ![t] = j]
    BY <1>1, <1>8 DEF BeginMatch, Goes
  <2>2. IsJob(j) /\ j.id = job[t].id /\ j.kind = job[t].kind /\ j.line = job[t].line
    BY <1>1 DEF IsJob, NoJob, StateTypes
  <2> HIDE DEF j
  <2>3. Others(t) /\ pc'[t] = "match" /\ job'[t] = j
    BY <1>1, <1>4, <2>1, OneMoves
  <2>4. job[t].kind \in {"event", "parse"} /\ "match" \in Stages["event"] \cap Stages["parse"]
    BY <1>3, <2>1 DEF Stages
  <2>5. UNCHANGED <<world, packs, stores, answer, taken, past, settled, files, stream>>
    BY <1>8 DEF BeginMatch, disk
  <2>6. "match" \notin Stages.reload
    BY DEF Stages
  <2> QED  BY <1>1, <1>8, <2>1, <2>2, <2>3, <2>4, <2>5, <2>6 DEF Moved
<1>9. ASSUME NEW pack, Matched(t, pack), pc[t] = "match", AskPack(t)
      PROVE  Moved(t) \/ Ended(t)
  <2>1. UNCHANGED <<world, packs, stream, stores, disk, taken, past>>
    BY <1>9 DEF AskPack
  <2>2. CASE job[t].kind = "parse"
    <3>1. Answered(t, "200") /\ Done(t)
      BY <1>9, <2>2 DEF Matched
    <3> QED  BY <1>1, <1>4, <1>9, <2>1, <3>1, OneEnds DEF world, stream, disk
  <2>3. CASE job[t].kind # "parse"
    <3> DEFINE j == [job[t] EXCEPT !.pack = pack]
    <3>1. pc' = [pc EXCEPT ![t] = "store"] /\ job' = [job EXCEPT ![t] = j] /\ UNCHANGED answer
      BY <1>1, <1>9, <2>3 DEF Matched, Goes
    <3>2. IsJob(j) /\ j.id = job[t].id /\ j.kind = job[t].kind /\ j.line = job[t].line
      BY <1>1 DEF IsJob, NoJob
    <3> HIDE DEF j
    <3>3. Others(t) /\ pc'[t] = "store" /\ job'[t] = j
      BY <1>1, <1>4, <3>1, OneMoves
    <3>4. job[t].kind = "event" /\ "store" \in Stages["event"] /\ "store" \notin Stages.reload
      BY <1>3, <1>9, <2>3 DEF Stages
    <3>5. UNCHANGED <<world, packs, stores, answer, taken, past, settled, files, stream>>
      BY <2>1, <3>1 DEF disk
    <3>6. pc'[t] \in Stages[job[t].kind]
      BY <3>3, <3>4
    <3> QED  BY <1>9, <3>2, <3>3, <3>4, <3>5, <3>6 DEF Moved
  <2> QED  BY <2>2, <2>3
<1>10. ASSUME job' = [job EXCEPT ![t].next = @ + 1], UNCHANGED <<pc, answer>>,
              pc[t] = "match", AskPack(t)
       PROVE  Moved(t)
  <2> DEFINE j == [job[t] EXCEPT !.next = @ + 1]
  <2>1. job' = [job EXCEPT ![t] = j] /\ pc' = pc
    BY <1>1, <1>10
  <2>2. IsJob(j) /\ j.id = job[t].id /\ j.kind = job[t].kind /\ j.line = job[t].line
    BY <1>1 DEF IsJob, NoJob
  <2> HIDE DEF j
  <2>3. Others(t) /\ job'[t] = j
    BY <1>1, <2>1, OneWorks
  <2>4. pc'[t] \in Stages[job[t].kind] /\ "match" \notin Stages.reload
    BY <1>3, <1>10 DEF Stages
  <2>5. UNCHANGED <<world, packs, stores, answer, taken, past, settled, files, stream>>
    BY <1>10 DEF AskPack, disk
  <2> QED  BY <1>10, <2>1, <2>2, <2>3, <2>4, <2>5 DEF Moved
<1>11. CASE AskPack(t)
  <2>1. /\ pc[t] = "match"
        /\ IF job[t].next > Len(job[t].list) THEN Matched(t, NoPack)
           ELSE IF Detects(job[t].list[job[t].next], job[t].line)
                THEN Matched(t, job[t].list[job[t].next])
           ELSE job' = [job EXCEPT ![t].next = @ + 1] /\ UNCHANGED <<pc, answer>>
    BY <1>11 DEF AskPack
  <2> QED  BY <1>9, <1>10, <1>11, <2>1
<1>12. CASE NormalizeRaises(t)
  <2>1. /\ pc[t] = "store" /\ Answered(t, "500") /\ Done(t)
        /\ UNCHANGED <<world, packs, stream, stores, disk, taken, past>>
    BY <1>12 DEF NormalizeRaises
  <2> QED  BY <1>1, <1>4, <2>1, OneEnds DEF world, stream, disk
<1>13. CASE Store(t)
  <2>1. /\ pc[t] = "store" /\ Done(t)
        /\ UNCHANGED <<up, backend, dir, edits, packs, stream, disk, taken, past>>
    BY <1>13 DEF Store
  <2>2. PICK a \in {"201", "503"} : Answered(t, a)
    BY <1>13 DEF Store
  <2>3. faults' \in 0 .. MaxFaults
    <3>1. faults' = faults \/ (faults < MaxFaults /\ faults' = faults + 1)
      BY <1>13 DEF Store
    <3> QED  BY <1>1, <3>1, Constants
  <2> QED  BY <1>1, <1>4, <1>13, <2>1, <2>2, <2>3, OneEnds DEF stream, disk
<1>14. ASSUME NEW result, Outcome(t, result), result \in {"loaded", "refused", "again", "escapes"},
              pc[t] \in {"scan", "reread"}, job[t].entries # <<>>, Entry(t) \in Entries,
              ScanEntry(t) \/ RereadEntry(t),
              UNCHANGED <<world, packs, stream, stores, disk, taken, past>>
       PROVE  Moved(t) \/ Ended(t)
  <2>1. job[t].kind = "reload" /\ pc[t] # "idle"
    BY <1>3, <1>14
  <2>2. {"scan", "reread"} = Stages.reload
    BY DEF Stages
  <2>3. ASSUME NEW step \in {"scan", "reread"}, Others(t), pc'[t] = step, IsJob(job'[t]),
               job'[t].id = job[t].id, job'[t].kind = job[t].kind, job'[t].line = job[t].line,
               UNCHANGED answer
        PROVE  Moved(t)
    <3>1. pc'[t] \in Stages[job[t].kind]
      BY <2>1, <2>2, <2>3
    <3>2. UNCHANGED <<world, packs, stores, answer, taken, past, settled, files, stream>>
      BY <1>14, <2>3 DEF disk
    <3> QED  BY <1>14, <2>1, <2>3, <3>1, <3>2 DEF Moved
  <2>4. CASE result = "loaded"
    <3> DEFINE j == [job[t] EXCEPT !.entries = Tail(@), !.list = Append(@, Entry(t))]
    <3>1. /\ pc' = [pc EXCEPT ![t] = "scan"] /\ job' = [job EXCEPT ![t] = j]
          /\ UNCHANGED answer
      BY <1>1, <1>14, <2>4 DEF Outcome, LoadedEntry, Goes
    <3>2. IsJob(j) /\ j.id = job[t].id /\ j.kind = job[t].kind /\ j.line = job[t].line
      BY <1>1, <1>14 DEF IsJob, NoJob
    <3> HIDE DEF j
    <3>3. Others(t) /\ pc'[t] = "scan" /\ job'[t] = j
      BY <1>1, <1>4, <3>1, OneMoves
    <3> QED  BY <2>3, <3>1, <3>2, <3>3
  <2>5. CASE result = "refused"
    <3> DEFINE j == [job[t] EXCEPT !.entries = Tail(@)]
    <3>1. /\ pc' = [pc EXCEPT ![t] = "scan"] /\ job' = [job EXCEPT ![t] = j]
          /\ UNCHANGED answer
      BY <1>1, <1>14, <2>5 DEF Outcome, Passed, Goes
    <3>2. IsJob(j) /\ j.id = job[t].id /\ j.kind = job[t].kind /\ j.line = job[t].line
      BY <1>1 DEF IsJob, NoJob
    <3> HIDE DEF j
    <3>3. Others(t) /\ pc'[t] = "scan" /\ job'[t] = j
      BY <1>1, <1>4, <3>1, OneMoves
    <3> QED  BY <2>3, <3>1, <3>2, <3>3
  <2>6. CASE result = "again"
    <3>1. pc' = [pc EXCEPT ![t] = "reread"] /\ job' = job /\ UNCHANGED answer
      BY <1>14, <2>6 DEF Outcome, Goes
    <3>2. Others(t) /\ pc'[t] = "reread"
      BY <1>1, <1>4, <3>1, OneWalks
    <3> QED  BY <1>1, <2>3, <3>1, <3>2
  <2>7. CASE result = "escapes"
    <3>1. Answered(t, "500") /\ Done(t)
      BY <1>14, <2>7 DEF Outcome, Escapes
    <3> QED  BY <1>1, <1>4, <1>14, <2>1, <3>1, OneEnds DEF world, stream, disk
  <2> QED  BY <1>14, <2>4, <2>5, <2>6, <2>7
<1>15. CASE ScanEntry(t)
  <2>1. /\ pc[t] = "scan" /\ job[t].entries # <<>> /\ Outcome(t, LoadSourcePack(dir[Entry(t)]))
        /\ UNCHANGED <<world, packs, stream, stores, disk, taken, past>>
    BY <1>15 DEF ScanEntry
  <2>2. Entry(t) \in Entries
    BY <2>1, EntryIs DEF IInv
  <2> QED  BY <1>14, <1>15, <2>1, <2>2, LoadIs
<1>16. CASE RereadEntry(t)
  <2>1. /\ pc[t] = "reread" /\ Outcome(t, ReadAgain(dir[Entry(t)]))
        /\ UNCHANGED <<world, packs, stream, stores, disk, taken, past>>
    BY <1>16 DEF RereadEntry
  <2>2. job[t].entries # <<>> /\ Entry(t) \in Entries
    BY <2>1, EntryIs DEF IInv
  <2>3. ReadAgain(dir[Entry(t)]) \in {"loaded", "refused", "again", "escapes"}
    BY LoadIs
  <2> QED  BY <1>14, <1>16, <2>1, <2>2, <2>3
<1>17. CASE PublishPacks(t)
  <2>1. /\ pc[t] = "scan" /\ Answered(t, "200") /\ Done(t)
        /\ UNCHANGED <<world, stream, stores, disk, taken, past>>
    BY <1>17 DEF PublishPacks
  <2> QED  BY <1>1, <1>4, <1>17, <2>1, OneEnds DEF world, stream, disk
<1>18. ASSUME NEW step \in Steps, NEW j, pc' = [pc EXCEPT ![t] = step], step # "collect",
              job' = [job EXCEPT ![t] = j] \/ (job' = job /\ j = job[t]),
              pc[t] \notin {"idle", "collect"}, step \in Stages[job[t].kind],
              IsJob(j), j.id = job[t].id, j.kind = job[t].kind, j.line = job[t].line,
              step \notin {"match", "store", "total", "scan", "reread"},
              step = "count" => TakeTotal(t), step = "counted" => CountGroups(t),
              step \in {"write", "describe"} => WriteFile(t) \/ DescribeFile(t),
              WriteFile(t) \/ UNCHANGED files,
              UNCHANGED <<world, packs, stream, stores, answer, taken, past, settled>>
       PROVE  Moved(t)
  <2>1. Others(t) /\ pc'[t] = step /\ job'[t] = j
    <3>1. CASE job' = [job EXCEPT ![t] = j]
      BY <1>1, <1>18, <3>1, OneMoves
    <3>2. CASE job' = job /\ j = job[t]
      BY <1>1, <1>18, <3>2, OneWalks
    <3> QED  BY <1>18, <3>1, <3>2
  <2>2. Stages.reload = {"scan", "reread"}
    BY DEF Stages
  <2> QED  BY <1>18, <2>1, <2>2 DEF Moved
<1>19. CASE TakeTotal(t)
  <2> DEFINE j == [job[t] EXCEPT !.total = Total]
  <2>1. pc[t] = "total" /\ pc' = [pc EXCEPT ![t] = "count"] /\ job' = [job EXCEPT ![t] = j]
    BY <1>1, <1>19 DEF TakeTotal, Goes
  <2>2. IsJob(j) /\ j.id = job[t].id /\ j.kind = job[t].kind /\ j.line = job[t].line
    BY <1>1 DEF IsJob, NoJob
  <2>3. "count" \in Stages[job[t].kind] /\ "count" \in Steps
    BY <1>3, <2>1 DEF Stages, Steps
  <2>4. UNCHANGED <<world, packs, stream, stores, answer, taken, past, settled, files>>
    BY <1>19 DEF TakeTotal, disk
  <2> HIDE DEF j
  <2> QED  BY <1>18, <1>19, <2>1, <2>2, <2>3, <2>4
<1>20. CASE CountGroups(t)
  <2> DEFINE j == [job[t] EXCEPT !.counted = Ids(Stored)]
  <2>1. pc[t] = "count" /\ pc' = [pc EXCEPT ![t] = "counted"] /\ job' = [job EXCEPT ![t] = j]
    BY <1>1, <1>20 DEF CountGroups, Goes
  <2>2. IsJob(j) /\ j.id = job[t].id /\ j.kind = job[t].kind /\ j.line = job[t].line
    BY <1>1 DEF IsJob, NoJob
  <2>3. "counted" \in Stages[job[t].kind] /\ "counted" \in Steps
    BY <1>3, <2>1 DEF Stages, Steps
  <2>4. UNCHANGED <<world, packs, stream, stores, answer, taken, past, settled, files>>
    BY <1>20 DEF CountGroups, disk
  <2> HIDE DEF j
  <2> QED  BY <1>18, <1>20, <2>1, <2>2, <2>3, <2>4
<1>21. CASE AnswerAnalytics(t)
  <2>1. /\ pc[t] = "counted" /\ Answered(t, "200") /\ Done(t)
        /\ UNCHANGED <<world, packs, stream, stores, disk, taken, past>>
    BY <1>21 DEF AnswerAnalytics
  <2> QED  BY <1>1, <1>4, <2>1, OneEnds DEF world, stream, disk
<1>22. CASE WriteFile(t)
  <2>1. /\ pc[t] = "write" /\ pc' = [pc EXCEPT ![t] = "describe"] /\ job' = job
        /\ UNCHANGED <<world, packs, stream, stores, answer, taken, past, settled>>
    BY <1>22 DEF WriteFile, Goes
  <2>2. "describe" \in Stages[job[t].kind] /\ "describe" \in Steps
    BY <1>3, <2>1 DEF Stages, Steps
  <2> QED  BY <1>1, <1>18, <1>22, <2>1, <2>2
<1>23. CASE DescribeFile(t)
  <2> DEFINE name == FileName(t)
             made == job[t].made \cup {Describe(name, JsonlRecords(job[t].rows, name),
                                                files[name].ids, name = "quarantine")}
             step == IF Len(job[t].entries) > 1 THEN "write" ELSE "manifest"
  <2>1. /\ job' = [job EXCEPT ![t].made = made, ![t].entries = Tail(@)]
        /\ pc' = [pc EXCEPT ![t] = step] /\ step \in {"write", "manifest"}
    BY <1>23 DEF DescribeFile, Goes
  <2> HIDE DEF name, made, step
  <2> DEFINE j == [job[t] EXCEPT !.made = made, !.entries = Tail(@)]
  <2>2. pc[t] = "describe" /\ job' = [job EXCEPT ![t] = j]
    BY <1>1, <1>23, <2>1 DEF DescribeFile
  <2>3. IsJob(j) /\ j.id = job[t].id /\ j.kind = job[t].kind /\ j.line = job[t].line
    BY <1>1 DEF IsJob, NoJob
  <2>4. step \in Stages[job[t].kind] /\ step \in Steps
    <3>1. job[t].kind = "export" /\ {"write", "manifest"} \subseteq Stages["export"] \cap Steps
      BY <1>3, <2>2 DEF Stages, Steps
    <3> QED  BY <2>1, <3>1
  <2>5. UNCHANGED <<world, packs, stream, stores, answer, taken, past, settled, files>>
    BY <1>23 DEF DescribeFile, disk
  <2> HIDE DEF j
  <2> QED  BY <1>18, <1>23, <2>1, <2>2, <2>3, <2>4, <2>5
<1>24. CASE WriteManifest(t)
  <2>1. /\ pc[t] = "manifest" /\ pc' = [pc EXCEPT ![t] = "summary"] /\ job' = job
        /\ UNCHANGED <<world, packs, stream, stores, answer, taken, past, settled, files>>
    BY <1>24 DEF WriteManifest, Goes
  <2>2. "summary" \in Stages[job[t].kind] /\ "summary" \in Steps
    BY <1>3, <2>1 DEF Stages, Steps
  <2> QED  BY <1>1, <1>18, <2>1, <2>2
<1>25. CASE WriteSummary(t)
  <2>1. /\ pc[t] = "summary" /\ Answered(t, "200") /\ Done(t) /\ settled' = job[t].alone
        /\ UNCHANGED <<world, packs, stream, stores, files, taken, past>>
    BY <1>25 DEF WriteSummary
  <2> QED  BY <1>1, <1>4, <2>1, OneEnds DEF world, stream
<1>26. CASE ExportFails(t)
  <2>1. /\ pc[t] \in {"write", "manifest", "summary", "part", "lake"} /\ Fault
        /\ Answered(t, "500") /\ Done(t)
        /\ UNCHANGED <<up, backend, dir, edits, packs, stream, stores, disk, taken, past>>
    BY <1>26 DEF ExportFails
  <2> QED  BY <1>1, <1>2, <1>4, <2>1, OneEnds DEF stream, disk
<1>27. CASE WritePart(t)
  <2>1. PICK made, todo : job' = [job EXCEPT ![t].todo = todo, ![t].made = made]
    BY <1>27 DEF WritePart
  <2> DEFINE j == [job[t] EXCEPT !.todo = todo, !.made = made]
  <2>2. pc[t] = "part" /\ pc' = pc /\ job' = [job EXCEPT ![t] = j]
    BY <1>1, <1>27, <2>1 DEF WritePart
  <2>3. IsJob(j) /\ j.id = job[t].id /\ j.kind = job[t].kind /\ j.line = job[t].line
    BY <1>1 DEF IsJob, NoJob
  <2>4. UNCHANGED <<world, packs, stream, stores, answer, taken, past, settled, files>>
    BY <1>27 DEF WritePart
  <2>5. Stages.reload = {"scan", "reread"} /\ pc'[t] \in Stages[job[t].kind]
    BY <1>3, <2>2 DEF Stages
  <2> HIDE DEF j
  <2>6. Others(t) /\ job'[t] = j
    BY <1>1, <2>2, OneWorks
  <2> QED  BY <2>2, <2>3, <2>4, <2>5, <2>6 DEF Moved
<1>28. CASE WriteLakeManifest(t)
  <2>1. /\ pc[t] = "part" /\ Answered(t, "200") /\ Done(t)
        /\ UNCHANGED <<world, packs, stream, stores, files, settled, taken, past>>
    BY <1>28 DEF WriteLakeManifest
  <2> QED  BY <1>1, <1>4, <2>1, OneEnds DEF world, stream
<1> QED  BY <1>5, <1>6, <1>7, <1>8, <1>11, <1>12, <1>13, <1>15, <1>16, <1>17, <1>19, <1>20,
            <1>21, <1>22, <1>23, <1>24, <1>25, <1>26, <1>27, <1>28 DEF Handles

(***************************************************************************)
(* The step that stores an event.                                          *)
(***************************************************************************)
Holds(s, i) == \E k \in 1 .. Len(s) : s[k].id = i

\* A row joins a table.
LEMMA Joined ==
    ASSUME NEW s \in Seq(Rows), NEW r \in Rows
    PROVE  LET more == s \o <<r>> IN
           /\ more \in Seq(Rows) /\ Len(more) = Len(s) + 1 /\ Len(s) \in Nat
           /\ \A i : Holds(more, i) <=> Holds(s, i) \/ i = r.id
           /\ Distinct(s) /\ ~Holds(s, r.id) => Distinct(more)
<1> DEFINE more == s \o <<r>>
<1>1. /\ more \in Seq(Rows) /\ Len(more) = Len(s) + 1 /\ Len(s) \in Nat
      /\ \A k \in 1 .. Len(s) : more[k] = s[k]
      /\ more[Len(s) + 1] = r
  OBVIOUS
<1> HIDE DEF more
<1>2. \A k : k \in 1 .. Len(more) <=> k \in 1 .. Len(s) \/ k = Len(s) + 1
  BY <1>1
<1>3. \A i : Holds(more, i) <=> Holds(s, i) \/ i = r.id
  BY <1>1, <1>2 DEF Holds
<1>4. Distinct(s) /\ ~Holds(s, r.id) => Distinct(more)
  BY <1>1, <1>2 DEF Holds, Distinct
<1> QED  BY <1>1, <1>3, <1>4 DEF more

\* An identity is stored when either table has a row of it.
LEMMA StoredIs ==
    StoredOnce /\ backend \in {"memory", "clickhouse"} =>
       \A i : IsStored(i) <=> Holds(Table, i) \/ Holds(ch.quarantine, i)
<1> SUFFICES ASSUME StoredOnce, backend \in {"memory", "clickhouse"}, NEW i
             PROVE  IsStored(i) <=> Holds(Table, i) \/ Holds(ch.quarantine, i)
  OBVIOUS
<1>1. i \in Ids(Stored) <=> Holds(Table, i)
  BY StoreIs DEF Holds
<1>2. DOMAIN ch.quarantine = 1 .. Len(ch.quarantine)
  BY DEF StoredOnce
<1> QED  BY <1>1, <1>2 DEF IsStored, Holds

\* What the thread stores is a row of its own request.
LEMMA RowIs ==
    ASSUME IInv, NEW t \in Threads, pc[t] = "store", ~NormalizerRaises(ParsedBy(t))
    PROVE  Row(job[t].id, UnifiedOf(t)) \in Rows /\ Row(job[t].id, UnifiedOf(t)).id = job[t].id
<1>1. job[t].kind = "event" /\ job[t].line \in PostedLines
  BY KindIs DEF IInv, OwnRequests, OwnRequest
<1>2. job[t].id \in Requests
  <2>1. job[t].id \in past + 1 .. taken /\ taken \in 0 .. MaxRequests /\ past \in 0 .. taken
    BY DEF IInv, OwnRequests, OwnRequest, StateTypes
  <2> QED  BY <2>1, Constants DEF Requests
<1>3. job[t].pack = NoPack \/ (job[t].pack \in Packs /\ Detects(job[t].pack, job[t].line))
  <2>1. job[t].pack = Match(job[t].list, job[t].line) /\ job[t].list \in Seq(Entries)
    BY DEF IInv, RoutedByOneGeneration, JobTypes, IsJob
  <2> QED  BY <2>1, MatchIs, Constants
<1>4. <<job[t].pack, job[t].line>> \in Routes
  BY <1>1, <1>3 DEF Routes, ParsedBy
<1>5. UnifiedOf(t) = NormalizedAs(job[t].pack, job[t].line, job[t].id)
  BY DEF UnifiedOf, NormalizedAs, ParsedBy
<1>6. UnifiedOf(t) \in NormalizedEvents
  <2> DEFINE w == <<job[t].pack, job[t].line>>
  <2>1. w \in Routes /\ w[1] = job[t].pack /\ w[2] = job[t].line
    BY <1>4
  <2> HIDE DEF w
  <2>2. NormalizedAs(w[1], w[2], job[t].id) \in NormalizedEvents
    BY <1>2, <2>1 DEF NormalizedEvents
  <2> QED  BY <1>5, <2>1, <2>2
<1> QED  BY <1>2, <1>6 DEF Rows, Row

\* The insert into ClickHouse: into one of the tables or into neither.
LEMMA InsertIs ==
    ASSUME NEW r, NEW o \in InsertOutcomes,
           DOMAIN ch = {"events", "quarantine"}, ch.events \in Seq(Rows),
           ch.quarantine \in Seq(Rows)
    PROVE  LET result == ClickHouseWrite(ch, <<r>>, o, o) IN
           /\ DOMAIN result.store = {"events", "quarantine"}
           /\ \/ /\ o = "refused"
                 /\ result.store.events = ch.events /\ result.store.quarantine = ch.quarantine
              \/ /\ o # "refused"
                 /\ result.store.events = ch.events \o <<r>>
                 /\ result.store.quarantine = ch.quarantine
              \/ /\ o # "refused"
                 /\ result.store.events = ch.events
                 /\ result.store.quarantine = ch.quarantine \o <<r>>
           /\ result.failed = IF o = "done" THEN 0 ELSE 1
<1> DEFINE b == <<r>>
           valid == Chosen(b, Accepted(b))
           refused == Chosen(b, Refused(b))
           result == ClickHouseWrite(ch, b, o, o)
<1>1. \/ valid = b /\ refused = <<>>
      \/ valid = <<>> /\ refused = b
  <2>1. DOMAIN b = {1}
    OBVIOUS
  <2>2. \/ Accepted(b) = {1} /\ Refused(b) = {}
        \/ Accepted(b) = {} /\ Refused(b) = {1}
    <3>1. Accepted(b) \subseteq {1} /\ Refused(b) = {1} \ Accepted(b)
      BY <2>1 DEF Accepted, Refused
    <3> QED  BY <3>1
  <2> QED  BY <2>2, ChosenOfOne
<1>2. result.store = [events |-> Inserted(ch.events, valid, o),
                      quarantine |-> Inserted(ch.quarantine, refused, o)]
      /\ result.failed = Len(b) - (Reported(valid, o) + Reported(refused, o))
  BY DEF ClickHouseWrite, WriteResult
<1>3. Len(b) = 1 /\ Len(<<>>) = 0
  OBVIOUS
<1>4. \A s \in Seq(Rows) : s \o <<>> = s
  OBVIOUS
<1> HIDE DEF b, valid, refused, result
<1>5. Inserted(ch.events, <<>>, o) = ch.events /\ Inserted(ch.quarantine, <<>>, o) = ch.quarantine
  BY <1>4 DEF Inserted
<1>6. \A s, x : Inserted(s, x, o) = IF o = "refused" THEN s ELSE s \o x
  BY DEF Inserted
<1>7. result.failed = IF o = "done" THEN 0 ELSE 1
  <2>1. /\ Reported(b, o) = IF o = "done" THEN 1 ELSE 0
        /\ Reported(<<>>, o) = 0
    BY <1>3 DEF Reported
  <2>2. result.failed = 1 - (Reported(b, o) + Reported(<<>>, o))
    <3>1. Reported(b, o) \in Int /\ Reported(<<>>, o) \in Int
      BY <2>1
    <3>2. CASE valid = b /\ refused = <<>>
      BY <1>2, <1>3, <3>2
    <3>3. CASE valid = <<>> /\ refused = b
      BY <1>2, <1>3, <3>1, <3>3
    <3> QED  BY <1>1, <3>2, <3>3
  <2> QED  BY <2>1, <2>2
<1>8. DOMAIN result.store = {"events", "quarantine"}
  BY <1>2
<1>9. \/ /\ result.store.events = Inserted(ch.events, b, o)
         /\ result.store.quarantine = ch.quarantine
      \/ /\ result.store.events = ch.events
         /\ result.store.quarantine = Inserted(ch.quarantine, b, o)
  BY <1>1, <1>2, <1>5
<1> QED  BY <1>6, <1>7, <1>8, <1>9 DEF b, result

\* What the tables say of the identities, in one formula that holds before and after a step.
WellStored ==
    StoredOnce /\ backend \in {"memory", "clickhouse"} =>
       /\ Total \in Nat /\ Total = Len(Table) /\ IsFiniteSet(Ids(Stored))
       /\ Cardinality(Ids(Stored)) = Total
       /\ \A i : i \in Ids(Stored) <=> Holds(Table, i)
       /\ \A i : IsStored(i) <=> Holds(Table, i) \/ Holds(ch.quarantine, i)

LEMMA StoresWell == WellStored
BY StoreIs, StoredIs DEF WellStored, Holds

\* Store puts the event in hand beside what is there, or tells that it may not have.
LEMMA StoreStep ==
    ASSUME IInv, NEW t \in Threads, Store(t)
    PROVE  /\ StoredOnce' /\ backend' = backend
           /\ \A i : i \in Ids(Stored) => (i \in Ids(Stored))'
           /\ Total <= Total' /\ Total \in Nat /\ Total' \in Nat
           /\ \A i : IsStored(i) => IsStored(i)'
           /\ \A i : IsStored(i)' => IsStored(i) \/ i = job[t].id
           /\ answer' = [answer EXCEPT ![job[t].id] = "503"]
                \/ /\ answer' = [answer EXCEPT ![job[t].id] = "201"]
                   /\ \A i : i = job[t].id => IsStored(i)'
<1> DEFINE r == Row(job[t].id, UnifiedOf(t))
<1>1. /\ StoredOnce /\ backend \in {"memory", "clickhouse"} /\ backend' = backend
      /\ pc[t] = "store" /\ ~NormalizerRaises(ParsedBy(t)) /\ pc[t] # "idle"
      /\ mem \in Seq(Rows) /\ ch.events \in Seq(Rows) /\ ch.quarantine \in Seq(Rows)
      /\ DOMAIN ch = {"events", "quarantine"} /\ Distinct(mem) /\ Distinct(ch.events)
  BY DEF IInv, StateTypes, Store, StoredOnce, Distinct
<1>2. r \in Rows /\ r.id = job[t].id
  BY <1>1, RowIs
<1>3. ~IsStored(r.id)
  BY <1>1, <1>2 DEF IInv, EventInHand
<1>4. /\ Total \in Nat /\ Total = Len(Table)
      /\ \A i : i \in Ids(Stored) <=> Holds(Table, i)
  BY <1>1, StoreIs DEF Holds
<1>5. \A i : IsStored(i) <=> Holds(Table, i) \/ Holds(ch.quarantine, i)
  BY <1>1, StoredIs
<1>6. ~Holds(Table, r.id)
  BY <1>3, <1>5
<1>7. WellStored'
  BY StoresWell, PTL
<1>8. ASSUME NEW s \in Seq(Rows)
      PROVE  LET more == s \o <<r>> IN
             /\ more \in Seq(Rows) /\ Len(more) = Len(s) + 1 /\ Len(s) \in Nat
             /\ \A i : Holds(more, i) <=> Holds(s, i) \/ i = r.id
             /\ Distinct(s) /\ ~Holds(s, r.id) => Distinct(more)
  <2> HIDE DEF r
  <2> QED  BY <1>2, Joined
<1>9. CASE backend = "memory"
  <2>1. /\ mem' = mem \o <<r>> /\ ch' = ch /\ Table = mem /\ Table' = mem'
        /\ answer' = [answer EXCEPT ![job[t].id] = "201"]
    <3>1. MemoryWrite(mem, <<r>>).store = mem \o <<r>>
      BY DEF MemoryWrite, WriteResult
    <3>2. /\ mem' = MemoryWrite(mem, <<r>>).store /\ UNCHANGED <<ch, faults>>
          /\ answer' = [answer EXCEPT ![job[t].id] = "201"]
      BY <1>9 DEF Store, Answered
    <3> QED  BY <1>1, <1>9, <3>1, <3>2 DEF Table
  <2> HIDE DEF r
  <2>2. /\ mem' \in Seq(Rows) /\ Len(mem') = Len(mem) + 1
        /\ \A i : Holds(mem', i) <=> Holds(mem, i) \/ i = r.id
        /\ Distinct(mem')
    BY <1>1, <1>6, <1>8, <2>1
  <2>3. StoredOnce'
    BY <1>1, <2>1, <2>2 DEF StoredOnce, Distinct
  <2>4. /\ Total' \in Nat /\ Total' = Len(mem')
        /\ \A i : (i \in Ids(Stored))' <=> Holds(mem', i)
        /\ \A i : IsStored(i)' <=> Holds(mem', i) \/ Holds(ch.quarantine, i)
    BY <1>1, <1>7, <2>1, <2>3 DEF WellStored
  <2>5. Total <= Total'
    BY <1>4, <2>1, <2>2, <2>4
  <2>6. \A i : i \in Ids(Stored) => (i \in Ids(Stored))'
    BY <1>4, <2>1, <2>2, <2>4
  <2>7. /\ \A i : IsStored(i) => IsStored(i)'
        /\ \A i : IsStored(i)' => IsStored(i) \/ i = job[t].id
    BY <1>2, <1>5, <2>1, <2>2, <2>4
  <2>8. \A i : i = job[t].id => IsStored(i)'
    BY <1>2, <2>2, <2>4
  <2> QED  BY <1>1, <1>4, <2>1, <2>3, <2>4, <2>5, <2>6, <2>7, <2>8
<1>10. CASE backend = "clickhouse"
  <2>1. PICK o \in InsertOutcomes :
          /\ ch' = ClickHouseWrite(ch, <<r>>, o, o).store /\ mem' = mem
          /\ answer' = [answer EXCEPT ![job[t].id] =
                          IF ClickHouseWrite(ch, <<r>>, o, o).failed > 0 THEN "503" ELSE "201"]
    BY <1>10 DEF Store, Answered
  <2> DEFINE result == ClickHouseWrite(ch, <<r>>, o, o)
  <2>2. /\ DOMAIN result.store = {"events", "quarantine"}
        /\ \/ /\ o = "refused"
              /\ result.store.events = ch.events /\ result.store.quarantine = ch.quarantine
           \/ /\ o # "refused"
              /\ result.store.events = ch.events \o <<r>>
              /\ result.store.quarantine = ch.quarantine
           \/ /\ o # "refused"
              /\ result.store.events = ch.events
              /\ result.store.quarantine = ch.quarantine \o <<r>>
        /\ result.failed = IF o = "done" THEN 0 ELSE 1
    <3> HIDE DEF r
    <3> QED  BY <1>1, InsertIs
  <2>3. Table = ch.events /\ Table' = ch'.events /\ ch' = result.store
    BY <1>1, <1>10, <2>1 DEF Table
  <2>4. answer' = [answer EXCEPT ![job[t].id] = IF o = "done" THEN "201" ELSE "503"]
    <3>1. (IF result.failed > 0 THEN "503" ELSE "201") = (IF o = "done" THEN "201" ELSE "503")
      <4> HIDE DEF result
      <4> QED  BY <2>2
    <3>2. answer' = [answer EXCEPT ![job[t].id] = IF result.failed > 0 THEN "503" ELSE "201"]
      BY <2>1
    <3> HIDE DEF result
    <3> QED  BY <3>1, <3>2
  <2> HIDE DEF r, result
  <2>5. /\ ch'.events \in Seq(Rows) /\ Distinct(ch'.events) /\ ch'.quarantine \in Seq(Rows)
        /\ DOMAIN ch' = {"events", "quarantine"}
    BY <1>1, <1>6, <1>8, <2>2, <2>3
  <2>6. StoredOnce'
    BY <1>1, <2>1, <2>5 DEF StoredOnce, Distinct
  <2>7. /\ Len(ch.events) <= Len(ch'.events)
        /\ \A i : Holds(ch.events, i) => Holds(ch'.events, i)
        /\ \A i : Holds(ch.quarantine, i) => Holds(ch'.quarantine, i)
        /\ \A i : Holds(ch'.events, i) => Holds(ch.events, i) \/ i = r.id
        /\ \A i : Holds(ch'.quarantine, i) => Holds(ch.quarantine, i) \/ i = r.id
        /\ o = "done" => Holds(ch'.events, r.id) \/ Holds(ch'.quarantine, r.id)
    <3>1. /\ Len(ch.events) \in Nat
          /\ Len(ch.events \o <<r>>) = Len(ch.events) + 1
          /\ \A i : Holds(ch.events \o <<r>>, i) <=> Holds(ch.events, i) \/ i = r.id
          /\ \A i : Holds(ch.quarantine \o <<r>>, i) <=> Holds(ch.quarantine, i) \/ i = r.id
      BY <1>1, <1>8
    <3>2. CASE ch'.events = ch.events /\ ch'.quarantine = ch.quarantine /\ o = "refused"
      BY <3>1, <3>2
    <3>3. CASE ch'.events = ch.events \o <<r>> /\ ch'.quarantine = ch.quarantine
      BY <3>1, <3>3
    <3>4. CASE ch'.events = ch.events /\ ch'.quarantine = ch.quarantine \o <<r>>
      BY <3>1, <3>4
    <3> QED  BY <2>2, <2>3, <3>2, <3>3, <3>4
  <2>8. /\ backend' \in {"memory", "clickhouse"} /\ Total' \in Nat /\ Total' = Len(Table')
        /\ \A i : (i \in Ids(Stored))' <=> Holds(Table', i)
        /\ \A i : IsStored(i)' <=> Holds(Table', i) \/ Holds(ch'.quarantine, i)
    BY <1>1, <1>7, <2>6 DEF WellStored
  <2>9. Total <= Total'
    BY <1>4, <2>3, <2>7, <2>8
  <2>10. /\ \A i : i \in Ids(Stored) => (i \in Ids(Stored))'
         /\ \A i : IsStored(i) => IsStored(i)'
         /\ \A i : IsStored(i)' => IsStored(i) \/ i = job[t].id
         /\ o = "done" => \A i : i = job[t].id => IsStored(i)'
    <3>1. \A i : i \in Ids(Stored) => (i \in Ids(Stored))'
      BY <1>4, <2>3, <2>7, <2>8
    <3>2. /\ \A i : IsStored(i) => IsStored(i)'
          /\ \A i : IsStored(i)' => IsStored(i) \/ i = job[t].id
      BY <1>2, <1>5, <2>3, <2>7, <2>8
    <3>3. o = "done" => \A i : i = job[t].id => IsStored(i)'
      BY <1>2, <2>3, <2>7, <2>8
    <3> QED  BY <3>1, <3>2, <3>3
  <2> QED  BY <1>1, <1>4, <2>4, <2>6, <2>8, <2>9, <2>10
<1> QED  BY <1>1, <1>9, <1>10

(***************************************************************************)
(* What the other threads rely on stays as it is, or grows.                *)
(***************************************************************************)
Routed(t) == pc[t] = "store" => job[t].pack = Match(job[t].list, job[t].line)
Counted(t) == pc[t] = "counted" => /\ Ids(job[t].rows) \subseteq job[t].counted
                                   /\ Cardinality(job[t].rows) <= job[t].total
                                   /\ job[t].total <= Cardinality(job[t].counted)
Local(t) == /\ Detecting(t) /\ Routed(t) /\ Showing(t) /\ Counted(t) /\ Scanning(t)
            /\ Writing(t)

LEMMA LocalIs ==
    IInv <=> /\ StateTypes /\ JobTypes /\ OwnRequests /\ NothingYet /\ StoredOnce /\ AnswersKept
             /\ \A t \in Threads : EventInHand(t) /\ Local(t)
BY DEF IInv, Local, Routed, Counted, RoutedByOneGeneration, ShownIsCounted

LEMMA LocalNext ==
    ASSUME StateTypes', JobTypes', OwnRequests', NothingYet', StoredOnce', AnswersKept',
           \A t \in Threads : EventInHand(t)' /\ Local(t)'
    PROVE  IInv'
BY DEF IInv, Local, Routed, Counted, RoutedByOneGeneration, ShownIsCounted

LEMMA OthersKeep ==
    ASSUME IInv, NEW t \in Threads, Others(t), dir' = dir,
           \A i : i \in Ids(Stored) => (i \in Ids(Stored))',
           Total <= Total', Total \in Nat, Total' \in Nat,
           NEW u \in Threads \ {t}
    PROVE  Local(u)'
<1>1. /\ pc'[u] = pc[u] /\ job'[u].id = job[u].id /\ job'[u].kind = job[u].kind
      /\ job'[u].line = job[u].line /\ job'[u].list = job[u].list /\ job'[u].next = job[u].next
      /\ job'[u].pack = job[u].pack /\ job'[u].entries = job[u].entries
      /\ job'[u].touched = job[u].touched /\ job'[u].rows = job[u].rows
      /\ job'[u].total = job[u].total /\ job'[u].counted = job[u].counted
  BY DEF Others, Alike
<1>2. /\ Detecting(u) /\ Routed(u) /\ Showing(u) /\ Counted(u) /\ Scanning(u) /\ Writing(u)
  BY LocalIs DEF Local
<1>3. Detecting(u)' /\ Routed(u)' /\ Counted(u)' /\ Writing(u)'
  BY <1>1, <1>2 DEF Detecting, Routed, Counted, Writing
<1>4. Showing(u)'
  <2>1. pc[u] \in {"total", "count"} => /\ IsFiniteSet(job[u].rows)
                                         /\ Cardinality(job[u].rows) \in Nat
                                         /\ Ids(job[u].rows) \subseteq Ids(Stored)
    BY <1>2, FS_CardinalityType DEF Showing
  <2>2. pc[u] \in {"total", "count"} => Ids(job[u].rows) \subseteq (Ids(Stored))'
    BY <2>1
  <2>3. pc[u] = "total" => Cardinality(job[u].rows) <= Total'
    <3> SUFFICES ASSUME pc[u] = "total"  PROVE Cardinality(job[u].rows) <= Total'
      OBVIOUS
    <3>1. Cardinality(job[u].rows) <= Total
      BY <1>2 DEF Showing
    <3> QED  BY <2>1, <3>1
  <2>4. pc[u] = "count" => /\ Cardinality(job[u].rows) <= job[u].total
                           /\ job[u].total \in Nat /\ job[u].total <= Total'
    <3> SUFFICES ASSUME pc[u] = "count"
                 PROVE  /\ Cardinality(job[u].rows) <= job[u].total
                        /\ job[u].total \in Nat /\ job[u].total <= Total'
      OBVIOUS
    <3>1. /\ Cardinality(job[u].rows) <= job[u].total
          /\ job[u].total \in Nat /\ job[u].total <= Total
      BY <1>2 DEF Showing
    <3> QED  BY <3>1
  <2> QED  BY <1>1, <2>1, <2>2, <2>3, <2>4 DEF Showing
<1>5. Scanning(u)'
  <2> SUFFICES ASSUME (pc[u] \in Stages.reload)'  PROVE Scanning(u)'
    BY DEF Scanning
  <2>1. PICK n \in 0 .. Len(Directory) :
          /\ job[u].entries = SubSeq(Directory, n + 1, Len(Directory))
          /\ HasScanned(n, job[u].list, job[u].touched)
          /\ pc[u] = "reread" =>
               /\ n < Len(Directory)
               /\ Directory[n + 1] \in job[u].touched
                    \/ LoadSourcePack(dir[Directory[n + 1]]) = "again"
    BY <1>1, <1>2 DEF Scanning
  <2>2. \A e : IsLoaded(e)' <=> IsLoaded(e)
    BY DEF IsLoaded
  <2>3. HasScanned(n, job[u].list, job[u].touched)'
    BY <1>1, <2>1, <2>2 DEF HasScanned
  <2> QED  BY <1>1, <2>1, <2>3 DEF Scanning
<1> QED  BY <1>3, <1>4, <1>5 DEF Local

\* What the tables hold when a step leaves them alone.
LEMMA StoresAlone ==
    ASSUME IInv, UNCHANGED <<stores, backend>>
    PROVE  /\ StoredOnce' /\ (Ids(Stored))' = Ids(Stored) /\ Total' = Total /\ Total \in Nat
           /\ \A i : IsStored(i)' <=> IsStored(i)
<1>1. mem' = mem /\ ch' = ch /\ backend' = backend
  BY DEF stores
<1>2. StoredOnce /\ backend \in {"memory", "clickhouse"}
  BY DEF IInv, StateTypes
<1>3. Total \in Nat
  BY <1>2, StoreIs
<1>4. StoredOnce' /\ (Ids(Stored))' = Ids(Stored) /\ Total' = Total
  BY <1>1, <1>2 DEF StoredOnce, Stored, Total
<1>5. \A i : IsStored(i)' <=> IsStored(i)
  BY <1>1, <1>4 DEF IsStored
<1> QED  BY <1>3, <1>4, <1>5

\* A request begins.
LEMMA BegunKeeps ==
    ASSUME IInv, NEW t \in Threads, Begun(t)
    PROVE  IInv'
<1>1. /\ up /\ pc[t] = "idle" /\ taken < MaxRequests /\ taken' = taken + 1
      /\ Others(t) /\ IsJob(job'[t]) /\ job'[t].id = taken + 1
      /\ pc' \in [Threads -> Steps] /\ DOMAIN job' = Threads
      /\ settled' \in BOOLEAN
  BY DEF Begun, Others
<1>2. /\ up' = up /\ backend' = backend /\ dir' = dir /\ edits' = edits /\ faults' = faults
      /\ packs' = packs /\ archived' = archived /\ published' = published /\ mem' = mem
      /\ ch' = ch /\ files' = files /\ answer' = answer /\ past' = past
  BY DEF Begun, world, stream, stores
<1>3. /\ StateTypes /\ JobTypes /\ OwnRequests /\ NothingYet /\ StoredOnce /\ AnswersKept
      /\ \A u \in Threads : EventInHand(u) /\ Local(u)
  BY LocalIs
<1>4. /\ StoredOnce' /\ (Ids(Stored))' = Ids(Stored) /\ Total' = Total /\ Total \in Nat
      /\ \A i : IsStored(i)' <=> IsStored(i)
  BY <1>2, StoresAlone DEF stores
<1>5. /\ taken \in Nat /\ past \in Nat /\ past <= taken /\ taken' \in 0 .. MaxRequests
      /\ taken + 1 \in Requests
  <2>1. taken \in 0 .. MaxRequests /\ past \in 0 .. taken /\ MaxRequests \in Nat
    BY <1>3, Constants DEF StateTypes
  <2>2. taken < MaxRequests /\ taken' = taken + 1
    BY <1>1
  <2> QED  BY <2>1, <2>2 DEF Requests
<1>6. \A u \in Threads \ {t} : /\ pc'[u] = pc[u] /\ job'[u].id = job[u].id
                               /\ job'[u].kind = job[u].kind /\ job'[u].line = job[u].line
                               /\ IsJob(job'[u]) /\ (pc[u] = "idle" => job'[u] = job[u])
  BY <1>1 DEF Others, Alike
<1>7. StateTypes'
  BY <1>1, <1>2, <1>3, <1>5 DEF StateTypes
<1>8. JobTypes'
  BY <1>1, <1>6 DEF JobTypes
<1>9. OwnRequests'
  <2>1. pc'[t] # "idle" /\ job'[t].kind \in DOMAIN Stages /\ pc'[t] \in Stages[job'[t].kind]
        /\ (job'[t].kind = "event" => job'[t].line \in PostedLines)
    BY DEF Begun
  <2>2. answer[taken + 1] = "none"
    BY <1>3, <1>5 DEF NothingYet
  <2>3. OwnRequest(t)'
    BY <1>1, <1>2, <1>5, <2>1, <2>2 DEF OwnRequest
  <2>4. ASSUME NEW u \in Threads \ {t}  PROVE OwnRequest(u)'
    <3>1. OwnRequest(u)
      BY <1>3 DEF OwnRequests
    <3> QED  BY <1>1, <1>2, <1>5, <1>6, <3>1 DEF OwnRequest
  <2>5. \A u \in Threads \ {t} : pc[u] # "idle" => job[u].id \in past + 1 .. taken
    BY <1>3 DEF OwnRequests, OwnRequest
  <2>6. ASSUME NEW u \in Threads, NEW v \in Threads, pc'[u] # "idle", pc'[v] # "idle",
               job'[u].id = job'[v].id
        PROVE  u = v
    <3>1. CASE u # t /\ v # t
      BY <1>3, <1>6, <2>6, <3>1 DEF OwnRequests
    <3>2. CASE u = t /\ v # t
      BY <1>1, <1>5, <1>6, <2>5, <2>6, <3>2
    <3>3. CASE u # t /\ v = t
      BY <1>1, <1>5, <1>6, <2>5, <2>6, <3>3
    <3> QED  BY <3>1, <3>2, <3>3
  <2> QED  BY <2>3, <2>4, <2>6 DEF OwnRequests
<1>10. NothingYet'
  BY <1>1, <1>2, <1>3, <1>4, <1>5, Constants DEF NothingYet
<1>11. AnswersKept'
  BY <1>2, <1>3, <1>4 DEF AnswersKept
<1>12. ASSUME NEW u \in Threads  PROVE EventInHand(u)'
  <2>1. CASE u = t
    <3>1. ~IsStored(taken + 1) /\ taken + 1 \notin published
      BY <1>3, <1>5 DEF NothingYet
    <3>2. job'[t].kind = "event" => pc'[t] = "collect"
      BY DEF Begun
    <3>3. ASSUME NEW n, n = taken + 1  PROVE ~IsStored(n)'
      BY <1>4, <3>1, <3>3
    <3>4. ASSUME NEW n, n = job'[t].id  PROVE ~IsStored(n)'
      BY <1>1, <3>3, <3>4
    <3>5. ~IsStored(job[t].id)'
      BY <3>4
    <3> QED  BY <1>1, <1>2, <2>1, <3>1, <3>2, <3>5 DEF EventInHand
  <2>2. CASE u # t
    <3>1. EventInHand(u)
      BY <1>3
    <3> QED  BY <1>2, <1>4, <1>6, <2>2, <3>1 DEF EventInHand
  <2> QED  BY <2>1, <2>2
<1>13. ASSUME NEW u \in Threads  PROVE Local(u)'
  <2>1. CASE u = t
    <3>1. Detecting(t)' /\ Routed(t)' /\ Counted(t)'
      BY DEF Begun, Detecting, Routed, Counted
    <3>2. Showing(t)'
      BY <1>4 DEF Begun, Showing
    <3>3. Writing(t)'
      BY DEF Begun, Writing
    <3>4. Scanning(t)'
      <4>1. SUFFICES ASSUME pc'[t] = "scan"  PROVE Scanning(t)'
        BY DEF Scanning, Begun, Stages
      <4>2. job'[t].list = <<>> /\ job'[t].entries = Directory
        BY <4>1 DEF Begun
      <4>3. 0 \in 0 .. Len(Directory) /\ Directory = SubSeq(Directory, 0 + 1, Len(Directory))
        BY Constants
      <4>4. HasScanned(0, job[t].list, job[t].touched)'
        BY <4>2 DEF HasScanned
      <4> QED  BY <4>1, <4>2, <4>3, <4>4 DEF Scanning
    <3> QED  BY <2>1, <3>1, <3>2, <3>3, <3>4 DEF Local
  <2>2. CASE u # t
    BY <1>1, <1>2, <1>4, <2>2, OthersKeep
  <2> QED  BY <2>1, <2>2
<1> QED  BY <1>4, <1>7, <1>8, <1>9, <1>10, <1>11, <1>12, <1>13, LocalNext

\* A turn of match().
LEMMA AskPackStep ==
    ASSUME IInv, NEW t \in Threads, AskPack(t)
    PROVE  Detecting(t)' /\ Routed(t)'
<1> DEFINE list == job[t].list
           n == job[t].next
           line == job[t].line
<1>1. /\ pc[t] = "match" /\ DOMAIN job = Threads /\ IsJob(job[t]) /\ pc \in [Threads -> Steps]
      /\ list \in Seq(Entries) /\ DOMAIN job[t] = DOMAIN NoJob
      /\ n \in 1 .. Len(list) + 1 /\ \A i \in 1 .. n - 1 : ~Detects(list[i], line)
  BY LocalIs DEF AskPack, StateTypes, JobTypes, IsJob, Local, Detecting
<1>2. Len(list) \in Nat /\ n \in Nat
  BY <1>1
<1>3. ASSUME NEW pack, Matched(t, pack), pack = Match(list, line)
      PROVE  Detecting(t)' /\ Routed(t)'
  <2>1. CASE job[t].kind = "parse"
    <3>1. pc'[t] = "idle"
      BY <1>1, <1>3, <2>1 DEF Matched, Done, Goes
    <3> QED  BY <3>1 DEF Detecting, Routed
  <2>2. CASE job[t].kind # "parse"
    <3>1. pc'[t] = "store" /\ job'[t] = [job[t] EXCEPT !.pack = pack]
      BY <1>1, <1>3, <2>2 DEF Matched, Goes
    <3>2. job'[t].pack = pack /\ job'[t].list = list /\ job'[t].line = line
      BY <1>1, <3>1 DEF NoJob
    <3> HIDE DEF list, line
    <3> QED  BY <1>3, <3>1, <3>2 DEF Detecting, Routed
  <2> QED  BY <2>1, <2>2
<1>4. CASE n > Len(list)
  <2>1. Matched(t, NoPack)
    BY <1>1, <1>4 DEF AskPack
  <2>2. \A i \in 1 .. Len(list) : ~Detects(list[i], line)
    <3> HIDE DEF list, n, line
    <3> QED  BY <1>1, <1>2, <1>4
  <2>3. Match(list, line) = NoPack
    <3> HIDE DEF list, n, line
    <3> QED  BY <1>1, <2>2, MatchIs
  <2> QED  BY <1>3, <2>1, <2>3
<1>5. CASE ~(n > Len(list)) /\ Detects(list[n], line)
  <2>1. Matched(t, list[n])
    BY <1>1, <1>5 DEF AskPack
  <2>2. Match(list, line) = list[n]
    <3> HIDE DEF list, n, line
    <3>1. n \in 1 .. Len(list)
      BY <1>1, <1>2, <1>5
    <3> QED  BY <1>1, <1>5, <3>1, MatchIs
  <2> QED  BY <1>3, <2>1, <2>2
<1>6. CASE ~(n > Len(list)) /\ ~Detects(list[n], line)
  <2>1. job' = [job EXCEPT ![t].next = @ + 1] /\ pc' = pc
    BY <1>1, <1>6 DEF AskPack
  <2>2. job'[t].next = n + 1 /\ job'[t].list = list /\ job'[t].line = line
    BY <1>1, <2>1 DEF NoJob
  <2>3. n + 1 \in 1 .. Len(list) + 1 /\ \A i \in 1 .. (n + 1) - 1 : ~Detects(list[i], line)
    <3> HIDE DEF list, n, line
    <3> QED  BY <1>1, <1>2, <1>6
  <2> HIDE DEF list, n, line
  <2> QED  BY <1>1, <2>1, <2>2, <2>3 DEF Detecting, Routed
<1> QED  BY <1>4, <1>5, <1>6

\* One entry of the directory is scanned.
LEMMA ScanStep ==
    ASSUME IInv, NEW t \in Threads, ScanEntry(t) \/ RereadEntry(t)
    PROVE  Scanning(t)'
<1> DEFINE list == job[t].list
           touched == job[t].touched
           e0 == Entry(t)
<1>1. /\ pc[t] \in {"scan", "reread"} /\ (job[t].entries # <<>> \/ pc[t] = "reread")
      /\ DOMAIN job = Threads /\ pc \in [Threads -> Steps]
      /\ list \in Seq(Entries) /\ DOMAIN job[t] = DOMAIN NoJob /\ Scanning(t)
      /\ dir' = dir
  BY LocalIs DEF ScanEntry, RereadEntry, StateTypes, JobTypes, IsJob, Local, world
<1>2. PICK n \in 0 .. Len(Directory) :
        /\ job[t].entries = SubSeq(Directory, n + 1, Len(Directory))
        /\ HasScanned(n, list, touched)
        /\ pc[t] = "reread" =>
             /\ n < Len(Directory)
             /\ Directory[n + 1] \in touched
                  \/ LoadSourcePack(dir[Directory[n + 1]]) = "again"
  BY <1>1 DEF Scanning, Stages
<1>3. n < Len(Directory) /\ n \in Nat /\ Len(Directory) \in Nat /\ Len(list) \in Nat
  BY <1>1, <1>2, LeftIs, Constants
<1>4. /\ e0 = Directory[n + 1] /\ e0 \in Entries
      /\ Tail(job[t].entries) = SubSeq(Directory, n + 2, Len(Directory))
  BY <1>1, <1>2, <1>3, LeftIs, EntryIs DEF Entry
<1>5. PICK result \in {"loaded", "refused", "again", "escapes"} :
        /\ Outcome(t, result)
        /\ pc[t] = "scan" => result = LoadSourcePack(dir[e0])
        /\ pc[t] = "reread" => result = ReadAgain(dir[e0])
  <2>1. CASE ScanEntry(t)
    <3>1. pc[t] = "scan" /\ Outcome(t, LoadSourcePack(dir[e0]))
      BY <2>1 DEF ScanEntry
    <3> QED  BY <3>1, LoadIs
  <2>2. CASE RereadEntry(t)
    <3>1. pc[t] = "reread" /\ Outcome(t, ReadAgain(dir[e0]))
      BY <2>2 DEF RereadEntry
    <3>2. ReadAgain(dir[e0]) \in {"loaded", "refused", "again", "escapes"}
      BY LoadIs
    <3> QED  BY <3>1, <3>2
  <2> QED  BY <2>1, <2>2
\* Unless it was edited, the entry loads now if and only if the scan takes it.
<1>6. e0 \notin touched /\ result \in {"loaded", "refused"}
        => (IsLoaded(e0) <=> result = "loaded")
  <2>1. pc[t] = "reread" /\ e0 \notin touched => LoadSourcePack(dir[e0]) = "again"
    BY <1>2, <1>4
  <2>2. /\ LoadSourcePack(dir[e0]) # "again" => Loads(dir[e0]) = LoadSourcePack(dir[e0])
        /\ LoadSourcePack(dir[e0]) = "again" => Loads(dir[e0]) = ReadAgain(dir[e0])
    BY LoadIs
  <2> HIDE DEF e0, touched
  <2> QED  BY <1>1, <1>5, <2>1, <2>2 DEF IsLoaded
<1>7. \A i : i \in 1 .. n + 1 <=> i \in 1 .. n \/ i = n + 1
  BY <1>3
<1>8. /\ Len(list) <= n
      /\ \A e \in Entries \ touched :
            (\E i \in 1 .. Len(list) : list[i] = e)
               <=> IsLoaded(e) /\ \E i \in 1 .. n : Directory[i] = e
  BY <1>2 DEF HasScanned
<1>9. CASE result = "loaded"
  <2> DEFINE more == Append(list, e0)
  <2>1. /\ job' = [job EXCEPT ![t].entries = Tail(@), ![t].list = Append(@, e0)]
        /\ pc' = [pc EXCEPT ![t] = "scan"]
    BY <1>5, <1>9 DEF Outcome, LoadedEntry, Goes
  <2>2. /\ pc'[t] = "scan" /\ job'[t].entries = SubSeq(Directory, n + 2, Len(Directory))
        /\ job'[t].list = more /\ job'[t].touched = touched
    BY <1>1, <1>4, <2>1 DEF NoJob
  <2>3. /\ Len(more) = Len(list) + 1 /\ more[Len(list) + 1] = e0
        /\ \A i \in 1 .. Len(list) : more[i] = list[i]
    <3> HIDE DEF e0, list
    <3> QED  BY <1>1, <1>4
  <2> HIDE DEF more, e0, list, touched
  <2>4. \A i : i \in 1 .. Len(more) <=> i \in 1 .. Len(list) \/ i = Len(list) + 1
    BY <1>3, <2>3
  <2>5. \A e : (\E i \in 1 .. Len(more) : more[i] = e)
                 <=> (\E i \in 1 .. Len(list) : list[i] = e) \/ e = e0
    BY <2>3, <2>4
  <2>6. \A e : (\E i \in 1 .. n + 1 : Directory[i] = e)
                 <=> (\E i \in 1 .. n : Directory[i] = e) \/ e = e0
    BY <1>4, <1>7
  <2>7. HasScanned(n + 1, more, touched)
    <3>1. Len(more) <= n + 1
      BY <1>3, <1>8, <2>3
    <3>2. ASSUME NEW e \in Entries \ touched
          PROVE  (\E i \in 1 .. Len(more) : more[i] = e)
                   <=> IsLoaded(e) /\ \E i \in 1 .. n + 1 : Directory[i] = e
      BY <1>6, <1>8, <1>9, <2>5, <2>6
    <3> QED  BY <3>1, <3>2 DEF HasScanned
  <2>8. HasScanned(n + 1, job[t].list, job[t].touched)'
    BY <1>1, <2>2, <2>7 DEF HasScanned, IsLoaded
  <2>9. n + 1 \in 0 .. Len(Directory) /\ (n + 1) + 1 = n + 2
    BY <1>3
  <2> QED  BY <2>2, <2>8, <2>9 DEF Scanning
<1>10. CASE result = "refused"
  <2>1. /\ job' = [job EXCEPT ![t].entries = Tail(@)] /\ pc' = [pc EXCEPT ![t] = "scan"]
    BY <1>5, <1>10 DEF Outcome, Passed, Goes
  <2>2. /\ pc'[t] = "scan" /\ job'[t].entries = SubSeq(Directory, n + 2, Len(Directory))
        /\ job'[t].list = list /\ job'[t].touched = touched
    BY <1>1, <1>4, <2>1 DEF NoJob
  <2> HIDE DEF e0, list, touched
  <2>3. \A e : (\E i \in 1 .. n + 1 : Directory[i] = e)
                 <=> (\E i \in 1 .. n : Directory[i] = e) \/ e = e0
    BY <1>4, <1>7
  <2>4. HasScanned(n + 1, list, touched)
    <3>1. Len(list) <= n + 1
      BY <1>3, <1>8
    <3>2. ASSUME NEW e \in Entries \ touched
          PROVE  (\E i \in 1 .. Len(list) : list[i] = e)
                   <=> IsLoaded(e) /\ \E i \in 1 .. n + 1 : Directory[i] = e
      BY <1>6, <1>8, <1>10, <2>3
    <3> QED  BY <3>1, <3>2 DEF HasScanned
  <2>5. HasScanned(n + 1, job[t].list, job[t].touched)'
    BY <1>1, <2>2, <2>4 DEF HasScanned, IsLoaded
  <2>6. n + 1 \in 0 .. Len(Directory) /\ (n + 1) + 1 = n + 2
    BY <1>3
  <2> QED  BY <2>2, <2>5, <2>6 DEF Scanning
<1>11. CASE result = "again"
  <2>1. job' = job /\ pc' = [pc EXCEPT ![t] = "reread"]
    BY <1>5, <1>11 DEF Outcome, Goes
  <2>2. LoadSourcePack(dir[Directory[n + 1]]) = "again"
    <3>1. ReadAgain(dir[e0]) # "again"
      BY LoadIs
    <3> QED  BY <1>1, <1>4, <1>5, <1>11, <3>1
  <2>3. HasScanned(n, job[t].list, job[t].touched)'
    BY <1>1, <1>2, <2>1 DEF HasScanned, IsLoaded
  <2> QED  BY <1>1, <1>2, <1>3, <2>1, <2>2, <2>3 DEF Scanning
<1>12. CASE result = "escapes"
  <2>1. pc' = [pc EXCEPT ![t] = "idle"]
    BY <1>5, <1>12 DEF Outcome, Escapes, Done, Goes
  <2> QED  BY <1>1, <2>1 DEF Scanning, Stages
<1> QED  BY <1>5, <1>9, <1>10, <1>11, <1>12

\* The page and its counters are read one after the other.
LEMMA ShowStep ==
    ASSUME IInv, NEW t \in Threads, Moved(t)
    PROVE  Showing(t)' /\ Counted(t)'
<1>1. /\ pc'[t] # "total" /\ (pc'[t] = "count" => TakeTotal(t))
      /\ (pc'[t] = "counted" => CountGroups(t)) /\ DOMAIN job = Threads
      /\ DOMAIN job[t] = DOMAIN NoJob /\ Showing(t)
  BY LocalIs DEF Moved, JobTypes, IsJob, Local
<1>2. /\ StoredOnce' /\ (Ids(Stored))' = Ids(Stored) /\ Total' = Total /\ Total \in Nat
      /\ Cardinality(Ids(Stored)) = Total
  <2>1. UNCHANGED <<stores, backend>>
    BY DEF Moved, world
  <2>2. StoredOnce /\ backend \in {"memory", "clickhouse"}
    BY DEF IInv, StateTypes
  <2> QED  BY <2>1, <2>2, StoresAlone, StoreIs
<1>3. CASE pc'[t] = "count"
  <2>1. pc[t] = "total" /\ job' = [job EXCEPT ![t].total = Total]
    BY <1>1, <1>3 DEF TakeTotal
  <2>2. job'[t].rows = job[t].rows /\ job'[t].total = Total
    BY <1>1, <2>1 DEF NoJob
  <2>3. /\ IsFiniteSet(job[t].rows) /\ Ids(job[t].rows) \subseteq Ids(Stored)
        /\ Cardinality(job[t].rows) <= Total
    BY <1>1, <2>1 DEF Showing
  <2>4. Counted(t)'
    BY <1>3 DEF Counted
  <2> QED  BY <1>2, <1>3, <2>2, <2>3, <2>4 DEF Showing
<1>4. CASE pc'[t] = "counted"
  <2>1. pc[t] = "count" /\ job' = [job EXCEPT ![t].counted = Ids(Stored)]
    BY <1>1, <1>4 DEF CountGroups
  <2>2. /\ job'[t].rows = job[t].rows /\ job'[t].total = job[t].total
        /\ job'[t].counted = Ids(Stored)
    BY <1>1, <2>1 DEF NoJob
  <2>3. /\ Ids(job[t].rows) \subseteq Ids(Stored) /\ Cardinality(job[t].rows) <= job[t].total
        /\ job[t].total <= Total
    BY <1>1, <2>1 DEF Showing
  <2>4. Showing(t)'
    BY <1>4 DEF Showing
  <2> QED  BY <1>2, <2>2, <2>3, <2>4 DEF Counted
<1> QED  BY <1>1, <1>3, <1>4 DEF Showing, Counted

\* An export writes one file after the other.
LEMMA WriteStep ==
    ASSUME IInv, NEW t \in Threads, Moved(t)
    PROVE  Writing(t)'
<1>1. /\ pc'[t] \in {"write", "describe"} => WriteFile(t) \/ DescribeFile(t)
      /\ DOMAIN job = Threads /\ pc \in [Threads -> Steps] /\ DOMAIN job[t] = DOMAIN NoJob
      /\ Writing(t)
  BY LocalIs DEF Moved, StateTypes, JobTypes, IsJob, Local
<1>2. CASE WriteFile(t)
  BY <1>1, <1>2 DEF WriteFile, Goes, Writing
<1>3. CASE DescribeFile(t)
  <2>1. pc[t] = "describe" /\ job[t].entries \in {JsonlFiles, <<"quarantine">>}
        /\ pc' = [pc EXCEPT ![t] = IF Len(job[t].entries) > 1 THEN "write" ELSE "manifest"]
    BY <1>1, <1>3 DEF DescribeFile, Goes, Writing
  <2> DEFINE name == FileName(t)
             made == job[t].made \cup {Describe(name, JsonlRecords(job[t].rows, name),
                                                files[name].ids, name = "quarantine")}
  <2>2. job' = [job EXCEPT ![t].made = made, ![t].entries = Tail(@)]
    BY <1>3 DEF DescribeFile
  <2> HIDE DEF made
  <2>3. job'[t].entries = Tail(job[t].entries)
    BY <1>1, <2>2 DEF NoJob
  <2>4. CASE job[t].entries = JsonlFiles
    <3>1. Tail(JsonlFiles) = <<"quarantine">>
      BY DEF JsonlFiles
    <3> QED  BY <2>3, <2>4, <3>1 DEF Writing
  <2>5. CASE job[t].entries = <<"quarantine">>
    <3>1. pc'[t] = "manifest"
      BY <1>1, <2>1, <2>5
    <3> QED  BY <3>1 DEF Writing
  <2> QED  BY <2>1, <2>4, <2>5
<1>4. CASE pc'[t] \notin {"write", "describe"}
  BY <1>4 DEF Writing
<1> QED  BY <1>1, <1>2, <1>3, <1>4

\* A request goes on.
LEMMA MovedKeeps ==
    ASSUME IInv, NEW t \in Threads, Moved(t)
    PROVE  IInv'
<1>1. /\ Others(t) /\ IsJob(job'[t]) /\ pc[t] # "idle" /\ pc'[t] \in Stages[job[t].kind]
      /\ pc' \in [Threads -> Steps] /\ DOMAIN job' = Threads
      /\ job'[t].id = job[t].id /\ job'[t].kind = job[t].kind /\ job'[t].line = job[t].line
      /\ Collect(t) \/ (pc'[t] # "collect" /\ pc[t] # "collect" /\ UNCHANGED stream)
  BY DEF Moved, Others
<1>2. /\ up' = up /\ backend' = backend /\ dir' = dir /\ edits' = edits /\ faults' = faults
      /\ packs' = packs /\ mem' = mem /\ ch' = ch /\ answer' = answer /\ past' = past
      /\ taken' = taken /\ settled' = settled
  BY DEF Moved, world, stores
<1>3. /\ StateTypes /\ JobTypes /\ OwnRequests /\ NothingYet /\ StoredOnce /\ AnswersKept
      /\ \A u \in Threads : EventInHand(u) /\ Local(u)
  BY LocalIs
<1>4. /\ StoredOnce' /\ (Ids(Stored))' = Ids(Stored) /\ Total' = Total /\ Total \in Nat
      /\ \A i : IsStored(i)' <=> IsStored(i)
  BY <1>2, StoresAlone DEF stores
<1>5. \A u \in Threads \ {t} : /\ pc'[u] = pc[u] /\ job'[u].id = job[u].id
                               /\ job'[u].kind = job[u].kind /\ job'[u].line = job[u].line
                               /\ IsJob(job'[u]) /\ (pc[u] = "idle" => job'[u] = job[u])
  BY <1>1 DEF Others, Alike
<1>6. /\ job[t].id \in Requests /\ job[t].id <= taken /\ answer[job[t].id] = "none"
      /\ pc'[t] # "idle"
  <2>1. /\ OwnRequest(t) /\ taken \in 0 .. MaxRequests /\ past \in 0 .. taken
        /\ MaxRequests \in Nat
    BY <1>3, Constants DEF OwnRequests, StateTypes
  <2>2. /\ job[t].id \in past + 1 .. taken /\ answer[job[t].id] = "none"
        /\ job[t].kind \in DOMAIN Stages
    BY <1>1, <2>1 DEF OwnRequest
  <2>3. "idle" \notin Stages[job[t].kind]
    BY <2>2 DEF Stages
  <2> QED  BY <1>1, <2>1, <2>2, <2>3 DEF Requests
\* The stream has gained this event, or nothing.
<1>7. /\ \/ archived' = archived \cup {job[t].id} /\ published' = published \cup {job[t].id}
         \/ archived' = archived /\ published' = published
      /\ job[t].kind = "event" => job[t].id \in published' /\ pc'[t] # "collect"
      /\ pc'[t] # "collect"
  <2>1. CASE Collect(t)
    <3>1. pc' = [pc EXCEPT ![t] = "engine"] /\ pc \in [Threads -> Steps]
      BY <1>3, <2>1 DEF Collect, Goes, StateTypes
    <3>2. archived' = archived \cup {job[t].id} /\ published' = published \cup {job[t].id}
      BY <2>1 DEF Collect
    <3> QED  BY <3>1, <3>2
  <2>2. CASE pc'[t] # "collect" /\ pc[t] # "collect" /\ UNCHANGED stream
    <3>1. EventInHand(t)
      BY <1>3
    <3> QED  BY <1>1, <2>2, <3>1 DEF EventInHand, stream
  <2> QED  BY <1>1, <2>1, <2>2
<1>8. StateTypes'
  <2>1. archived' \subseteq Requests /\ published' \subseteq Requests
    BY <1>3, <1>6, <1>7 DEF StateTypes
  <2>2. /\ DOMAIN files' = {"normalized", "quarantine"}
        /\ files'["normalized"].ids \subseteq Requests
        /\ files'["quarantine"].ids \subseteq Requests
    <3>1. CASE files' = files
      BY <1>3, <3>1 DEF StateTypes
    <3>2. CASE WriteFile(t)
      <4> DEFINE name == FileName(t)
                 records == JsonlRecords(job[t].rows, name)
      <4>1. files' = [files EXCEPT ![name] = File(records)]
        BY <3>2 DEF WriteFile
      <4>2. File(records).ids \subseteq Requests
        <5>1. records \subseteq job[t].rows /\ Ids(job[t].rows) \subseteq Requests
          BY <1>3 DEF JsonlRecords, JobTypes, IsJob
        <5>2. Ids(records) \subseteq Requests
          BY <5>1 DEF Ids
        <5> QED  BY <5>2 DEF File
      <4> HIDE DEF records, name
      <4> QED  BY <1>3, <4>1, <4>2 DEF StateTypes
    <3> QED  BY <3>1, <3>2 DEF Moved
  <2> QED  BY <1>1, <1>2, <1>3, <2>1, <2>2 DEF StateTypes
<1>9. JobTypes'
  BY <1>1, <1>5 DEF JobTypes
<1>10. OwnRequests'
  <2>1. ASSUME NEW u \in Threads  PROVE OwnRequest(u)'
    <3>1. OwnRequest(u) /\ OwnRequest(t)
      BY <1>3 DEF OwnRequests
    <3>2. CASE u = t
      BY <1>1, <1>2, <1>6, <3>1, <3>2 DEF OwnRequest
    <3>3. CASE u # t
      BY <1>2, <1>5, <3>1, <3>3 DEF OwnRequest
    <3> QED  BY <3>2, <3>3
  <2>2. \A u \in Threads : job'[u].id = job[u].id /\ (pc'[u] # "idle" <=> pc[u] # "idle")
    BY <1>1, <1>5, <1>6
  <2> QED  BY <1>3, <2>1, <2>2 DEF OwnRequests
<1>11. NothingYet'
  <2>1. taken \in Nat
    BY <1>3 DEF StateTypes
  <2>2. ASSUME NEW i \in Requests, i > taken
        PROVE  answer[i] = "none" /\ i \notin archived' \cup published' /\ ~IsStored(i)
    <3>1. i # job[t].id
      BY <1>6, <2>1, <2>2, Constants
    <3> QED  BY <1>3, <1>7, <2>2, <3>1 DEF NothingYet
  <2> QED  BY <1>2, <1>4, <2>2 DEF NothingYet
<1>12. AnswersKept'
  BY <1>2, <1>3, <1>4, <1>6, <1>7 DEF AnswersKept
<1>13. ASSUME NEW u \in Threads  PROVE EventInHand(u)'
  <2>1. EventInHand(u) /\ EventInHand(t)
    BY <1>3
  <2>2. ASSUME NEW n, n = job[u].id, pc[u] # "idle"  PROVE ~IsStored(n)'
    BY <1>4, <2>1, <2>2 DEF EventInHand
  <2>3. job'[u].id = job[u].id /\ job'[u].kind = job[u].kind
        /\ (pc'[u] # "idle" => pc[u] # "idle")
    BY <1>1, <1>5
  <2>4. pc'[u] # "idle" => ~IsStored(job[u].id)'
    BY <2>2, <2>3
  <2>5. CASE u = t
    BY <1>7, <2>3, <2>4, <2>5 DEF EventInHand
  <2>6. CASE u # t
    <3>1. pc[u] # "idle" => job[u].id # job[t].id
      BY <1>1, <1>3, <2>6 DEF OwnRequests
    <3>2. pc'[u] = pc[u]
      BY <1>5, <2>6
    <3> QED  BY <1>7, <2>1, <2>3, <2>4, <3>1, <3>2 DEF EventInHand
  <2> QED  BY <2>5, <2>6
<1>14. ASSUME NEW u \in Threads  PROVE Local(u)'
  <2>1. CASE u = t
    <3>1. Showing(t)' /\ Counted(t)' /\ Writing(t)'
      BY ShowStep, WriteStep
    <3>2. Detecting(t)' /\ Routed(t)'
      <4>1. CASE AskPack(t)
        BY <4>1, AskPackStep
      <4>2. CASE BeginMatch(t)
        <5>1. /\ pc' = [pc EXCEPT ![t] = "match"]
              /\ job' = [job EXCEPT ![t].list = packs, ![t].next = 1]
              /\ DOMAIN job = Threads /\ DOMAIN job[t] = DOMAIN NoJob /\ packs \in Seq(Entries)
          BY <1>3, <4>2 DEF BeginMatch, Goes, StateTypes, JobTypes, IsJob
        <5>2. job'[t].list = packs /\ job'[t].next = 1
          BY <5>1 DEF NoJob
        <5>3. Len(packs) \in Nat /\ pc'[t] = "match"
          BY <1>3, <5>1 DEF StateTypes
        <5> QED  BY <5>2, <5>3 DEF Detecting, Routed
      <4>3. CASE pc'[t] \notin {"match", "store"}
        BY <4>3 DEF Detecting, Routed
      <4> QED  BY <4>1, <4>2, <4>3 DEF Moved
    <3>3. Scanning(t)'
      <4>1. CASE ScanEntry(t) \/ RereadEntry(t)
        BY <4>1, ScanStep
      <4>2. CASE pc'[t] \notin Stages.reload
        BY <4>2 DEF Scanning
      <4> QED  BY <4>1, <4>2 DEF Moved
    <3> QED  BY <2>1, <3>1, <3>2, <3>3 DEF Local
  <2>2. CASE u # t
    BY <1>1, <1>2, <1>4, <2>2, OthersKeep
  <2> QED  BY <2>1, <2>2
<1> QED  BY <1>4, <1>8, <1>9, <1>10, <1>11, <1>12, <1>13, <1>14, LocalNext

\* A request ends.
LEMMA EndedKeeps ==
    ASSUME IInv, NEW t \in Threads, Ended(t)
    PROVE  IInv'
<1>1. /\ Others(t) /\ pc[t] # "idle" /\ pc'[t] = "idle" /\ job'[t] = NoJob
      /\ pc' \in [Threads -> Steps] /\ DOMAIN job' = Threads
      /\ settled' \in BOOLEAN /\ faults' \in 0 .. MaxFaults
      /\ archived' \in {archived, archived \cup {job[t].id}} /\ published' = published
      /\ up' = up /\ backend' = backend /\ dir' = dir /\ edits' = edits /\ files' = files
      /\ taken' = taken /\ past' = past
  BY DEF Ended, Others
<1>2. PICK a \in Answers \ {"none"} :
        /\ answer' = [answer EXCEPT ![job[t].id] = a]
        /\ a \in {"413", "422"} => pc[t] = "collect"
        /\ a \in {"201", "503"} => Store(t)
  BY DEF Ended
<1>3. /\ StateTypes /\ JobTypes /\ OwnRequests /\ NothingYet /\ StoredOnce /\ AnswersKept
      /\ \A u \in Threads : EventInHand(u) /\ Local(u)
  BY LocalIs
<1>4. \A u \in Threads \ {t} : /\ pc'[u] = pc[u] /\ job'[u].id = job[u].id
                               /\ job'[u].kind = job[u].kind /\ job'[u].line = job[u].line
                               /\ IsJob(job'[u]) /\ (pc[u] = "idle" => job'[u] = job[u])
  BY <1>1 DEF Others, Alike
<1>5. /\ job[t].id \in Requests /\ job[t].id <= taken /\ taken \in Nat
      /\ answer[job[t].id] = "none" /\ answer \in [Requests -> Answers]
  <2>1. /\ OwnRequest(t) /\ taken \in 0 .. MaxRequests /\ past \in 0 .. taken
        /\ MaxRequests \in Nat /\ answer \in [Requests -> Answers]
    BY <1>3, Constants DEF OwnRequests, StateTypes
  <2>2. job[t].id \in past + 1 .. taken /\ answer[job[t].id] = "none"
    BY <1>1, <2>1 DEF OwnRequest
  <2> QED  BY <2>1, <2>2 DEF Requests
<1>6. /\ answer' \in [Requests -> Answers] /\ answer'[job[t].id] = a
      /\ \A i \in Requests : i # job[t].id => answer'[i] = answer[i]
  BY <1>2, <1>5
\* The store has gained this event, or nothing.
<1>7. /\ StoredOnce' /\ Total <= Total' /\ Total \in Nat /\ Total' \in Nat
      /\ \A i : i \in Ids(Stored) => (i \in Ids(Stored))'
      /\ \A i : IsStored(i) => IsStored(i)'
      /\ \A i : IsStored(i)' => IsStored(i) \/ (i = job[t].id /\ Store(t))
      /\ Store(t) => a \in {"201", "503"}
      /\ a = "201" => \A i : i = job[t].id => IsStored(i)'
  <2>1. CASE Store(t)
    <3>1. answer' = [answer EXCEPT ![job[t].id] = "503"]
            \/ /\ answer' = [answer EXCEPT ![job[t].id] = "201"]
               /\ \A i : i = job[t].id => IsStored(i)'
      BY <2>1, StoreStep
    <3>2. a = "503" \/ (a = "201" /\ \A i : i = job[t].id => IsStored(i)')
      BY <1>5, <1>6, <3>1
    <3>3. /\ StoredOnce' /\ Total <= Total' /\ Total \in Nat /\ Total' \in Nat
          /\ \A i : i \in Ids(Stored) => (i \in Ids(Stored))'
          /\ \A i : IsStored(i) => IsStored(i)'
          /\ \A i : IsStored(i)' => IsStored(i) \/ i = job[t].id
      BY <2>1, StoreStep
    <3> QED  BY <2>1, <3>2, <3>3
  <2>2. CASE ~Store(t)
    <3>1. UNCHANGED <<stores, backend>>
      BY <1>1, <2>2 DEF Ended
    <3>2. a # "201"
      BY <1>2, <2>2
    <3> QED  BY <2>2, <3>1, <3>2, StoresAlone
  <2> QED  BY <2>1, <2>2
<1>8. Store(t) => job[t].id \in published
  <2> SUFFICES ASSUME Store(t)  PROVE job[t].id \in published
    OBVIOUS
  <2>1. pc[t] = "store"
    BY DEF Store
  <2>2. job[t].kind = "event"
    BY <1>1, <1>3, <2>1, KindIs
  <2> QED  BY <1>3, <2>1, <2>2 DEF EventInHand
<1>9. packs' \in Seq(Entries) /\ Len(packs') <= Len(Directory)
  <2>1. CASE PublishPacks(t)
    <3>1. /\ pc[t] = "scan" /\ packs' = Sorted(job[t].list)
      BY <2>1 DEF PublishPacks
    <3>2. PICK n \in 0 .. Len(Directory) : HasScanned(n, job[t].list, job[t].touched)
      BY <1>3, <3>1 DEF Local, Scanning, Stages
    <3>3. job[t].list \in Seq(Entries) /\ Entries \in SUBSET Packs
      BY <1>3, Constants DEF JobTypes, IsJob
    <3>4. Sorted(job[t].list) \in Seq(Entries) /\ Len(Sorted(job[t].list)) = Len(job[t].list)
      BY <3>3, SortedIs
    <3>5. Len(job[t].list) <= n /\ n \in Int /\ n <= Len(Directory) /\ Len(Directory) \in Int
          /\ Len(job[t].list) \in Int
      BY <3>2, <3>3, Constants DEF HasScanned
    <3> QED  BY <3>1, <3>4, <3>5
  <2>2. CASE packs' = packs
    BY <1>3, <2>2 DEF StateTypes
  <2> QED  BY <2>1, <2>2 DEF Ended
<1>10. StateTypes'
  BY <1>1, <1>3, <1>5, <1>6, <1>9 DEF StateTypes
<1>11. JobTypes'
  BY <1>1, <1>4, NoJobIs DEF JobTypes
<1>12. OwnRequests'
  <2>1. ASSUME NEW u \in Threads  PROVE OwnRequest(u)'
    <3>1. OwnRequest(u) /\ OwnRequest(t)
      BY <1>3 DEF OwnRequests
    <3>2. CASE u = t
      BY <1>1, <3>2 DEF OwnRequest
    <3>3. CASE u # t
      <4>1. pc[u] # "idle" => job[u].id # job[t].id
        BY <1>1, <1>3, <3>3 DEF OwnRequests
      <4>2. pc[u] # "idle" => job[u].id \in Requests
        <5>1. past \in 0 .. taken /\ taken \in 0 .. MaxRequests /\ MaxRequests \in Nat
          BY <1>3, Constants DEF StateTypes
        <5>2. pc[u] # "idle" => job[u].id \in past + 1 .. taken
          BY <3>1 DEF OwnRequest
        <5> QED  BY <5>1, <5>2 DEF Requests
      <4> QED  BY <1>1, <1>4, <1>6, <3>1, <3>3, <4>1, <4>2 DEF OwnRequest
    <3> QED  BY <3>2, <3>3
  <2>2. \A u \in Threads : pc'[u] # "idle" => u # t /\ pc[u] # "idle" /\ job'[u].id = job[u].id
    BY <1>1, <1>4
  <2> QED  BY <1>3, <2>1, <2>2 DEF OwnRequests
<1>13. NothingYet'
  <2>1. ASSUME NEW i \in Requests, i > taken
        PROVE  answer'[i] = "none" /\ i \notin archived' \cup published' /\ ~IsStored(i)'
    <3>1. i # job[t].id
      BY <1>5, <2>1, Constants
    <3>2. answer[i] = "none" /\ i \notin archived \cup published /\ ~IsStored(i)
      BY <1>3, <2>1 DEF NothingYet
    <3> QED  BY <1>1, <1>6, <1>7, <3>1, <3>2
  <2> QED  BY <1>1, <2>1 DEF NothingYet
<1>14. AnswersKept'
  <2> SUFFICES ASSUME NEW i \in Requests
               PROVE  /\ i \in published' => i \in archived'
                      /\ IsStored(i)' => i \in published'
                      /\ answer'[i] = "201" =>
                           i \in published'
                             /\ (IsStored(i)' \/ (backend' = "memory" /\ i <= past'))
                      /\ answer'[i] \in {"413", "422"} => i \notin published'
                      /\ answer'[i] = "503" => i \in published'
                      /\ answer'[i] = "500" => ~IsStored(i)'
    BY DEF AnswersKept
  <2>1. /\ i \in published => i \in archived
        /\ IsStored(i) => i \in published
        /\ answer[i] = "201" => i \in published
                                /\ (IsStored(i) \/ (backend = "memory" /\ i <= past))
        /\ answer[i] \in {"413", "422"} => i \notin published
        /\ answer[i] = "503" => i \in published
        /\ answer[i] = "500" => ~IsStored(i)
    BY <1>3 DEF AnswersKept
  <2>2. /\ i \in published' => i \in archived'
        /\ IsStored(i)' => i \in published'
    BY <1>1, <1>7, <1>8, <2>1
  <2>3. CASE i = job[t].id
    <3>1. EventInHand(t)
      BY <1>3
    <3>2. ~IsStored(i)
      BY <1>1, <2>3, <3>1 DEF EventInHand
    <3>3. a \in {"413", "422"} => i \notin published
      BY <1>1, <1>2, <2>3, <3>1 DEF EventInHand
    <3>4. a \in {"201", "503"} => i \in published
      BY <1>2, <1>8, <2>3
    <3>5. a = "500" => ~IsStored(i)'
      BY <1>7, <3>2
    <3> QED  BY <1>1, <1>6, <1>7, <2>2, <2>3, <3>3, <3>4, <3>5
  <2>4. CASE i # job[t].id
    BY <1>1, <1>6, <1>7, <2>1, <2>2, <2>4
  <2> QED  BY <2>3, <2>4
<1>15. ASSUME NEW u \in Threads  PROVE EventInHand(u)'
  <2>1. CASE u = t
    BY <1>1, <2>1 DEF EventInHand
  <2>2. CASE u # t
    <3>1. EventInHand(u) /\ (pc[u] # "idle" => job[u].id # job[t].id)
      BY <1>1, <1>3, <2>2 DEF OwnRequests
    <3>2. ASSUME NEW n, n = job[u].id, pc[u] # "idle"  PROVE ~IsStored(n)'
      BY <1>7, <3>1, <3>2 DEF EventInHand
    <3>3. /\ pc'[u] = pc[u] /\ job'[u].id = job[u].id /\ job'[u].kind = job[u].kind
      BY <1>4, <2>2
    <3>4. pc'[u] # "idle" => ~IsStored(job[u].id)'
      BY <3>2, <3>3
    <3> QED  BY <1>1, <3>1, <3>3, <3>4 DEF EventInHand
  <2> QED  BY <2>1, <2>2
<1>16. ASSUME NEW u \in Threads  PROVE Local(u)'
  <2>1. CASE u = t
    BY <1>1, <2>1
       DEF Local, Detecting, Routed, Showing, Counted, Scanning, Writing, Stages
  <2>2. CASE u # t
    BY <1>1, <1>7, <2>2, OthersKeep
  <2> QED  BY <2>1, <2>2
<1> QED  BY <1>7, <1>10, <1>11, <1>12, <1>13, <1>14, <1>15, <1>16, LocalNext

\* An operator edits the directory; every scan that runs has noted the entry.
LEMMA EditKeeps ==
    ASSUME IInv, NEW e \in Entries, NEW m \in Manifests, Edit(e, m)
    PROVE  IInv'
<1>1. /\ edits < MaxEdits /\ dir' = [dir EXCEPT ![e] = m] /\ edits' = edits + 1
      /\ job' = [t \in Threads |-> IF job[t].kind # "reload" THEN job[t]
                                  ELSE [job[t] EXCEPT !.touched = @ \cup {e}]]
      /\ up' = up /\ backend' = backend /\ faults' = faults /\ packs' = packs /\ pc' = pc
      /\ archived' = archived /\ published' = published /\ mem' = mem /\ ch' = ch
      /\ files' = files /\ settled' = settled /\ answer' = answer /\ taken' = taken
      /\ past' = past
  BY DEF Edit, stream, stores, disk
<1>2. /\ StateTypes /\ JobTypes /\ OwnRequests /\ NothingYet /\ StoredOnce /\ AnswersKept
      /\ \A t \in Threads : EventInHand(t) /\ Local(t)
  BY LocalIs
<1>3. /\ StoredOnce' /\ (Ids(Stored))' = Ids(Stored) /\ Total' = Total /\ Total \in Nat
      /\ \A i : IsStored(i)' <=> IsStored(i)
  BY <1>1, StoresAlone DEF stores
<1>4. ASSUME NEW t \in Threads
      PROVE  /\ IsJob(job'[t])
             /\ job'[t].id = job[t].id /\ job'[t].kind = job[t].kind
             /\ job'[t].line = job[t].line /\ job'[t].list = job[t].list
             /\ job'[t].next = job[t].next /\ job'[t].pack = job[t].pack
             /\ job'[t].entries = job[t].entries /\ job'[t].rows = job[t].rows
             /\ job'[t].total = job[t].total /\ job'[t].counted = job[t].counted
             /\ job[t].kind = "reload" => job'[t].touched = job[t].touched \cup {e}
             /\ job[t].kind # "reload" => job'[t] = job[t]
  <2>1. IsJob(job[t]) /\ DOMAIN job[t] = DOMAIN NoJob
    BY <1>2 DEF JobTypes, IsJob
  <2>2. CASE job[t].kind # "reload"
    BY <1>1, <2>1, <2>2
  <2>3. CASE job[t].kind = "reload"
    <3> DEFINE more == job[t].touched \cup {e}
    <3>1. job'[t] = [job[t] EXCEPT !.touched = more]
      BY <1>1, <2>3
    <3> HIDE DEF more
    <3>2. /\ DOMAIN job'[t] = DOMAIN job[t] /\ job'[t].touched = more
          /\ job'[t].id = job[t].id /\ job'[t].kind = job[t].kind
          /\ job'[t].line = job[t].line /\ job'[t].list = job[t].list
          /\ job'[t].next = job[t].next /\ job'[t].pack = job[t].pack
          /\ job'[t].entries = job[t].entries /\ job'[t].rows = job[t].rows
          /\ job'[t].total = job[t].total /\ job'[t].counted = job[t].counted
          /\ job'[t].alone = job[t].alone
      BY <2>1, <3>1 DEF NoJob
    <3>3. IsJob(job'[t])
      BY <2>1, <3>2 DEF IsJob
    <3> QED  BY <2>3, <3>2, <3>3 DEF more
  <2> QED  BY <2>2, <2>3
<1>5. StateTypes'
  <2>1. dir' \in [Entries -> Manifests]
    BY <1>1, <1>2 DEF StateTypes
  <2>2. edits' \in 0 .. MaxEdits
    BY <1>1, <1>2, Constants DEF StateTypes
  <2> QED  BY <1>1, <1>2, <2>1, <2>2 DEF StateTypes
<1>6. JobTypes'
  <2>1. DOMAIN job' = Threads
    BY <1>1
  <2> QED  BY <1>4, <2>1 DEF JobTypes
<1>7. OwnRequests'
  <2>1. ASSUME NEW t \in Threads  PROVE OwnRequest(t)'
    <3>1. OwnRequest(t)
      BY <1>2 DEF OwnRequests
    <3>2. pc[t] = "idle" => job'[t] = NoJob
      <4>1. pc[t] = "idle" => job[t] = NoJob /\ NoJob.kind # "reload"
        BY <3>1, NoJobIs DEF OwnRequest
      <4> QED  BY <1>4, <4>1
    <3> QED  BY <1>1, <1>4, <3>1, <3>2 DEF OwnRequest
  <2>2. \A t, u \in Threads : pc[t] # "idle" /\ pc[u] # "idle" /\ job[t].id = job[u].id => t = u
    BY <1>2 DEF OwnRequests
  <2> QED  BY <1>1, <1>4, <2>1, <2>2 DEF OwnRequests
<1>8. NothingYet'
  BY <1>1, <1>2, <1>3 DEF NothingYet
<1>9. AnswersKept'
  BY <1>1, <1>2, <1>3 DEF AnswersKept
<1>10. ASSUME NEW t \in Threads  PROVE EventInHand(t)'
  <2>1. EventInHand(t)
    BY <1>2
  <2>2. ASSUME NEW n, n = job'[t].id, ~IsStored(n)  PROVE ~IsStored(n)'
    BY <1>3, <2>2
  <2>3. pc[t] # "idle" => ~IsStored(job[t].id)'
    BY <1>4, <2>1, <2>2 DEF EventInHand
  <2> QED  BY <1>1, <1>4, <2>1, <2>3 DEF EventInHand
<1>11. ASSUME NEW t \in Threads  PROVE Local(t)'
  <2>1. /\ Detecting(t) /\ Routed(t) /\ Showing(t) /\ Counted(t) /\ Scanning(t) /\ Writing(t)
        /\ OwnRequest(t)
    BY <1>2 DEF Local, OwnRequests
  <2>2. Detecting(t)' /\ Routed(t)' /\ Counted(t)' /\ Writing(t)'
    BY <1>1, <1>4, <2>1 DEF Detecting, Routed, Counted, Writing
  <2>3. Showing(t)'
    BY <1>1, <1>3, <1>4, <2>1 DEF Showing
  <2>4. Scanning(t)'
    <3> SUFFICES ASSUME pc[t] \in Stages.reload  PROVE Scanning(t)'
      BY <1>1 DEF Scanning
    <3>1. job[t].kind = "reload"
      BY <2>1 DEF OwnRequest, Stages
    <3>2. PICK n \in 0 .. Len(Directory) :
            /\ job[t].entries = SubSeq(Directory, n + 1, Len(Directory))
            /\ HasScanned(n, job[t].list, job[t].touched)
            /\ pc[t] = "reread" =>
                 /\ n < Len(Directory)
                 /\ Directory[n + 1] \in job[t].touched
                      \/ LoadSourcePack(dir[Directory[n + 1]]) = "again"
      BY <2>1 DEF Scanning
    <3>3. job'[t].touched = job[t].touched \cup {e}
      BY <1>4, <3>1
    <3>4. \A x \in Entries \ job'[t].touched : x \notin job[t].touched /\ dir'[x] = dir[x]
      BY <1>1, <1>2, <3>3 DEF StateTypes
    <3>5. HasScanned(n, job[t].list, job[t].touched)'
      BY <1>4, <3>2, <3>4 DEF HasScanned, IsLoaded
    <3>6. pc[t] = "reread" =>
            /\ n < Len(Directory)
            /\ Directory[n + 1] \in job'[t].touched
                 \/ LoadSourcePack(dir'[Directory[n + 1]]) = "again"
      <4>1. SUFFICES ASSUME pc[t] = "reread", Directory[n + 1] \notin job'[t].touched
                     PROVE  LoadSourcePack(dir'[Directory[n + 1]]) = "again"
        BY <3>2
      <4>2. n < Len(Directory) /\ n + 1 \in 1 .. Len(Directory)
        BY <3>2, <4>1, Constants
      <4>3. Directory[n + 1] \in Entries
        BY <4>2, Constants
      <4> QED  BY <3>2, <3>3, <3>4, <4>1, <4>3
    <3> QED  BY <1>1, <1>4, <3>2, <3>5, <3>6 DEF Scanning
  <2> QED  BY <2>2, <2>3, <2>4 DEF Local
<1> QED  BY <1>3, <1>5, <1>6, <1>7, <1>8, <1>9, <1>10, <1>11, LocalNext


\* What a crash leaves of the tables: none of the list in memory, all of ClickHouse.
LEMMA CrashLeaves ==
    ASSUME IInv, Crash
    PROVE  /\ StoredOnce'
           /\ \A i : IsStored(i)' => IsStored(i)
           /\ backend = "clickhouse" => \A i : IsStored(i) => IsStored(i)'
<1>1. StoredOnce /\ backend \in {"memory", "clickhouse"} /\ backend' = backend
      /\ mem' = <<>> /\ ch' = ch
  BY LocalIs DEF Crash, StateTypes
<1>2. StoredOnce'
  BY <1>1 DEF StoredOnce
<1>3. CASE backend = "memory"
  <2>1. (Ids(Stored))' = {}
    BY <1>1, <1>3 DEF Stored, Ids
  <2> QED  BY <1>1, <1>2, <1>3, <2>1 DEF IsStored
<1>4. CASE backend = "clickhouse"
  <2>1. (Ids(Stored))' = Ids(Stored)
    BY <1>1, <1>4 DEF Stored
  <2> QED  BY <1>1, <1>2, <2>1 DEF IsStored
<1> QED  BY <1>1, <1>2, <1>3, <1>4

\* The process dies: no request is left in hand, and what had arrived is past.
LEMMA CrashKeeps ==
    ASSUME IInv, Crash
    PROVE  IInv'
<1>1. /\ faults < MaxFaults /\ faults' = faults + 1
      /\ up' = FALSE /\ packs' = <<>> /\ pc' = [t \in Threads |-> "idle"]
      /\ job' = [t \in Threads |-> NoJob] /\ past' = taken
      /\ backend' = backend /\ dir' = dir /\ edits' = edits /\ archived' = archived
      /\ published' = published /\ files' = files /\ settled' = settled
      /\ answer' = answer /\ taken' = taken
  BY DEF Crash, Fault, stream, disk
<1>2. /\ StateTypes /\ JobTypes /\ OwnRequests /\ NothingYet /\ StoredOnce /\ AnswersKept
  BY LocalIs
<1>3. /\ StoredOnce' /\ \A i : IsStored(i)' => IsStored(i)
      /\ backend = "clickhouse" => \A i : IsStored(i) => IsStored(i)'
  BY CrashLeaves
<1>4. \A t \in Threads : pc'[t] = "idle" /\ job'[t] = NoJob
  BY <1>1
<1>5. StateTypes'
  <2>1. packs' \in Seq(Entries) /\ Len(packs') <= Len(Directory)
    BY <1>1, Constants
  <2>2. pc' \in [Threads -> Steps]
    BY <1>1 DEF Steps
  <2>3. taken' \in 0 .. MaxRequests /\ past' \in 0 .. taken' /\ faults' \in 0 .. MaxFaults
    BY <1>1, <1>2, Constants DEF StateTypes
  <2> QED  BY <1>1, <1>2, <2>1, <2>2, <2>3 DEF StateTypes
<1>6. JobTypes'
  BY <1>1, NoJobIs DEF JobTypes
<1>7. OwnRequests'
  BY <1>4 DEF OwnRequests, OwnRequest
<1>8. NothingYet'
  BY <1>1, <1>2, <1>3 DEF NothingYet
<1>9. AnswersKept'
  <2> SUFFICES ASSUME NEW i \in Requests
               PROVE  /\ i \in published => i \in archived
                      /\ IsStored(i)' => i \in published
                      /\ answer[i] = "201" => i \in published
                                              /\ (IsStored(i)' \/ (backend = "memory" /\ i <= taken))
                      /\ answer[i] \in {"413", "422"} => i \notin published
                      /\ answer[i] = "503" => i \in published
                      /\ answer[i] = "500" => ~IsStored(i)'
    BY <1>1 DEF AnswersKept
  <2>1. answer[i] # "none" => i <= taken
    <3>1. i \in Nat /\ taken \in Nat
      BY <1>2, Constants DEF StateTypes
    <3> QED  BY <1>2, <3>1 DEF NothingYet
  <2>2. backend \in {"memory", "clickhouse"}
    BY <1>2 DEF StateTypes
  <2>3. answer[i] = "201" => IsStored(i)' \/ (backend = "memory" /\ i <= taken)
    BY <1>2, <1>3, <2>1, <2>2 DEF AnswersKept
  <2> QED  BY <1>2, <1>3, <2>3 DEF AnswersKept
<1>10. \A t \in Threads : EventInHand(t)' /\ Local(t)'
  BY <1>4 DEF EventInHand, Local, Detecting, Routed, Showing, Counted, Scanning, Writing, Stages
<1> QED  BY <1>3, <1>5, <1>6, <1>7, <1>8, <1>9, <1>10, LocalNext

\* The registry's first scan lists entries of the directory.
LEMMA ScannedIs == Scanned \in Seq(Entries) /\ Len(Scanned) <= Len(Directory)
<1> DEFINE P == {i \in DOMAIN Directory : IsLoaded(Directory[i])}
           found == Chosen(Directory, P)
<1>1. Directory \in Seq(Entries) /\ P \in SUBSET (1 .. Len(Directory)) /\ Entries \in SUBSET Packs
  BY Constants
<1> HIDE DEF P
<1>2. found \in Seq(Entries) /\ Len(found) <= Len(Directory)
  BY <1>1, ChosenIs
<1>3. Scanned = Sorted(found)
  BY DEF Scanned, P
<1> HIDE DEF found
<1>4. Sorted(found) \in Seq(Entries) /\ Len(Sorted(found)) = Len(found)
  BY <1>1, <1>2, SortedIs
<1> QED  BY <1>2, <1>3, <1>4

\* The process is started again: the registry scans the directory.
LEMMA RestartKeeps ==
    ASSUME IInv, Restart
    PROVE  IInv'
<1>1. /\ ~up /\ up' = TRUE /\ packs' = Scanned
      /\ backend' = backend /\ dir' = dir /\ edits' = edits /\ faults' = faults /\ pc' = pc
      /\ job' = job /\ archived' = archived /\ published' = published /\ mem' = mem
      /\ ch' = ch /\ files' = files /\ settled' = settled /\ answer' = answer
      /\ taken' = taken /\ past' = past
  BY DEF Restart, stream, stores, disk
<1>2. /\ StateTypes /\ JobTypes /\ OwnRequests /\ NothingYet /\ StoredOnce /\ AnswersKept
  BY LocalIs
<1>3. /\ StoredOnce' /\ \A i : IsStored(i)' <=> IsStored(i)
  BY <1>1, StoresAlone DEF stores
<1>4. \A t \in Threads : OwnRequest(t) /\ pc[t] = "idle" /\ job[t] = NoJob
  BY <1>1, <1>2 DEF OwnRequests, OwnRequest
<1>5. StateTypes'
  BY <1>1, <1>2, ScannedIs DEF StateTypes
<1>6. JobTypes'
  BY <1>1, <1>2 DEF JobTypes
<1>7. OwnRequests'
  BY <1>1, <1>4 DEF OwnRequests, OwnRequest
<1>8. NothingYet' /\ AnswersKept'
  BY <1>1, <1>2, <1>3 DEF NothingYet, AnswersKept
<1>9. \A t \in Threads : EventInHand(t)' /\ Local(t)'
  BY <1>1, <1>4
     DEF EventInHand, Local, Detecting, Routed, Showing, Counted, Scanning, Writing, Stages
<1> QED  BY <1>3, <1>5, <1>6, <1>7, <1>8, <1>9, LocalNext

\* A server that starts has nothing in hand and nothing stored.
LEMMA InitIInv == Init => IInv
<1> SUFFICES ASSUME Init  PROVE IInv
  OBVIOUS
<1>1. /\ up = TRUE /\ backend \in {"memory", "clickhouse"} /\ dir = FirstDir /\ packs = Scanned
      /\ pc = [t \in Threads |-> "idle"] /\ job = [t \in Threads |-> NoJob]
      /\ archived = {} /\ published = {} /\ mem = <<>> /\ ch = EmptyClickHouse
      /\ files = [n \in {"normalized", "quarantine"} |-> NoFile] /\ settled = FALSE
      /\ answer = [i \in Requests |-> "none"] /\ taken = 0 /\ past = 0
      /\ edits = 0 /\ faults = 0
  BY DEF Init
<1>2. \A t \in Threads : pc[t] = "idle" /\ job[t] = NoJob
  BY <1>1
<1>3. StoredOnce
  BY <1>1 DEF StoredOnce, EmptyClickHouse
<1>4. \A i : ~IsStored(i)
  <2>1. Table = <<>> /\ ch.quarantine = <<>>
    BY <1>1 DEF Table, EmptyClickHouse
  <2>2. \A i : ~Holds(Table, i) /\ ~Holds(ch.quarantine, i)
    BY <2>1 DEF Holds
  <2> QED  BY <1>1, <1>3, <2>2, StoredIs
<1>5. StateTypes
  <2>1. dir \in [Entries -> Manifests]
    BY <1>1, ServerAssumption DEF Entries
  <2>2. files["normalized"].ids \subseteq Requests /\ files["quarantine"].ids \subseteq Requests
    BY <1>1 DEF NoFile
  <2>3. pc \in [Threads -> Steps]
    BY <1>1 DEF Steps
  <2>4. answer \in [Requests -> Answers]
    BY <1>1 DEF Answers
  <2>5. packs \in Seq(Entries) /\ Len(packs) <= Len(Directory)
    BY <1>1, ScannedIs
  <2>6. taken \in 0 .. MaxRequests /\ past \in 0 .. taken
    BY <1>1, Constants
  <2>7. edits \in 0 .. MaxEdits /\ faults \in 0 .. MaxFaults
    BY <1>1, Constants
  <2> QED  BY <1>1, <2>1, <2>2, <2>3, <2>4, <2>5, <2>6, <2>7 DEF StateTypes
<1>6. JobTypes
  BY <1>1, NoJobIs DEF JobTypes
<1>7. OwnRequests
  BY <1>2 DEF OwnRequests, OwnRequest
<1>8. NothingYet /\ AnswersKept
  BY <1>1, <1>4 DEF NothingYet, AnswersKept
<1>9. \A t \in Threads : EventInHand(t) /\ Local(t)
  BY <1>2
     DEF EventInHand, Local, Detecting, Routed, Showing, Counted, Scanning, Writing, Stages
<1> QED  BY <1>3, <1>5, <1>6, <1>7, <1>8, <1>9, LocalIs


\* Every step of the server keeps the inductive invariant.
LEMMA NextIInv == IInv /\ [Next]_vars => IInv'
<1> SUFFICES ASSUME IInv, [Next]_vars  PROVE IInv'
  OBVIOUS
<1>1. ASSUME NEW t \in Threads, Arrives(t)  PROVE IInv'
  BY <1>1, Begins, BegunKeeps
<1>2. ASSUME NEW t \in Threads, Handles(t)  PROVE IInv'
  BY <1>2, Handled, MovedKeeps, EndedKeeps
<1>3. ASSUME NEW c \in Edits, Edit(c[1], c[2])  PROVE IInv'
  <2>1. c[1] \in Entries /\ c[2] \in Manifests
    BY ServerAssumption DEF Entries
  <2> QED  BY <1>3, <2>1, EditKeeps
<1>4. CASE Crash
  BY <1>4, CrashKeeps
<1>5. CASE Restart
  BY <1>5, RestartKeeps
<1>6. CASE UNCHANGED vars
  <2>1. /\ up' = up /\ backend' = backend /\ dir' = dir /\ edits' = edits
        /\ faults' = faults /\ packs' = packs /\ pc' = pc /\ job' = job
        /\ archived' = archived /\ published' = published /\ mem' = mem /\ ch' = ch
        /\ files' = files /\ settled' = settled /\ answer' = answer /\ taken' = taken
        /\ past' = past
    BY <1>6 DEF vars, world, stream, stores, disk
  <2>2. /\ StateTypes /\ JobTypes /\ OwnRequests /\ NothingYet /\ StoredOnce /\ AnswersKept
        /\ \A t \in Threads : EventInHand(t) /\ Local(t)
    BY LocalIs
  <2>3. /\ StoredOnce' /\ (Ids(Stored))' = Ids(Stored) /\ Total' = Total
        /\ \A i : IsStored(i)' <=> IsStored(i)
    BY <2>1, StoresAlone DEF stores
  <2>4. StateTypes' /\ JobTypes' /\ OwnRequests'
    BY <2>1, <2>2 DEF StateTypes, JobTypes, OwnRequests, OwnRequest
  <2>5. NothingYet' /\ AnswersKept'
    BY <2>1, <2>2, <2>3 DEF NothingYet, AnswersKept
  <2>6. ASSUME NEW t \in Threads  PROVE EventInHand(t)' /\ Local(t)'
    <3>1. EventInHand(t)'
      <4>1. EventInHand(t)
        BY <2>2
      <4>2. ASSUME NEW n, n = job[t].id, ~IsStored(n)  PROVE ~IsStored(n)'
        BY <2>3, <4>2
      <4>3. pc[t] # "idle" => ~IsStored(job[t].id)'
        BY <2>1, <4>1, <4>2 DEF EventInHand
      <4> QED  BY <2>1, <4>1, <4>3 DEF EventInHand
    <3>2. Detecting(t)' /\ Routed(t)' /\ Counted(t)' /\ Writing(t)' /\ Scanning(t)'
      BY <2>1, <2>2
         DEF Local, Detecting, Routed, Counted, Writing, Scanning, HasScanned, IsLoaded
    <3>3. Showing(t)'
      BY <2>1, <2>2, <2>3 DEF Local, Showing
    <3> QED  BY <3>1, <3>2, <3>3 DEF Local
  <2> QED  BY <2>3, <2>4, <2>5, <2>6, LocalNext
<1> QED  BY <1>1, <1>2, <1>3, <1>4, <1>5, <1>6 DEF Next

(***************************************************************************)
(* Theorems of the specification.                                          *)
(***************************************************************************)
\* The inductive invariant: what a thread holds belongs to its step and to a request of its
\* own, nothing exists of a request that has not arrived, a row is stored once, and a scan
\* has dealt with the entries it has passed.
THEOREM Invariant == Spec => []IInv
<1> QED  BY InitIInv, NextIInv, PTL DEF Spec

\* Every variable has its type, for any directory, any edits and either store.
THEOREM TypeCorrect == Spec => []TypeOK
<1>1. IInv => TypeOK
  <2> SUFFICES ASSUME IInv  PROVE TypeOK
    OBVIOUS
  <2>1. StateTypes /\ JobTypes
    BY DEF IInv
  <2>2. past <= taken /\ taken <= MaxRequests
    BY <2>1, Constants DEF StateTypes
  <2>3. \A i \in DOMAIN packs : packs[i] \in Entries
    BY <2>1 DEF StateTypes
  <2>4. \A t \in Threads : job[t].id \in 0 .. MaxRequests
    BY <2>1 DEF JobTypes, IsJob
  <2> QED  BY <2>1, <2>2, <2>3, <2>4 DEF StateTypes, TypeOK
<1> QED  BY <1>1, Invariant, PTL

\* What the API has answered about an event stays true of the archive, the stream and the
\* store, whichever requests run at once, whatever fails and however often the process dies.
THEOREM AnswersHold == Spec => []AnswersKept
<1>1. IInv => AnswersKept
  BY DEF IInv
<1> QED  BY <1>1, Invariant, PTL

\* A line is routed as one published list of packs routes it, however many reloads come
\* between two detections.
THEOREM RoutedWhole == Spec => []RoutedByOneGeneration
<1>1. IInv => RoutedByOneGeneration
  BY DEF IInv
<1> QED  BY <1>1, Invariant, PTL

\* The dashboard never shows an event its counters leave out, whatever is stored between the
\* search of the page, the total and the groups.
THEOREM PageIsCounted == Spec => []ShownIsCounted
<1>1. IInv => ShownIsCounted
  BY DEF IInv
<1> QED  BY <1>1, Invariant, PTL

\* With whatever packs the registry has listed, the stores quarantine only what no parser
\* could read and the alerts whose rating is not explained.
THEOREM NothingUsableRefused == Spec => []OnlyUnusableQuarantined
<1>1. IInv => OnlyUnusableQuarantined
  <2> SUFFICES ASSUME IInv  PROVE OnlyUnusableQuarantined
    OBVIOUS
  <2>1. packs \in Seq(Entries) /\ Entries \subseteq Packs
    BY Constants DEF IInv, StateTypes
  <2>2. Listed \subseteq Packs
    BY <2>1 DEF Listed
  <2> QED  BY <2>2, NothingMisrated DEF OnlyUnusableQuarantined
<1> QED  BY <1>1, Invariant, PTL

\* A reload that publishes lists every entry that loads, and no other, among those nobody
\* edited while it was scanning, the higher priorities first; no other step of a running
\* server changes the list.
THEOREM ReloadsPublishWhole == Spec => PublishedListHonest
<1> DEFINE Honest ==
      packs' # packs /\ up /\ up' =>
         LET listed == {packs'[i] : i \in DOMAIN packs'} IN
         \E t \in Threads :
            /\ job[t].kind = "reload"
            /\ \A e \in Entries \ job[t].touched : e \in listed <=> IsLoaded(e)
            /\ \A i, j \in DOMAIN packs' : i < j => Priority[packs'[i]] >= Priority[packs'[j]]
<1>1. ASSUME IInv, [Next]_vars  PROVE Honest
  <2> SUFFICES ASSUME packs' # packs, up, up'
               PROVE  LET listed == {packs'[i] : i \in DOMAIN packs'} IN
                      \E t \in Threads :
                         /\ job[t].kind = "reload"
                         /\ \A e \in Entries \ job[t].touched : e \in listed <=> IsLoaded(e)
                         /\ \A i, j \in DOMAIN packs' :
                              i < j => Priority[packs'[i]] >= Priority[packs'[j]]
    OBVIOUS
  <2>1. PICK t \in Threads : PublishPacks(t)
    <3>1. ASSUME NEW t \in Threads, Arrives(t)  PROVE packs' = packs
      BY <1>1, <3>1, Begins DEF Begun
    <3>2. ASSUME NEW t \in Threads, Handles(t)  PROVE packs' = packs \/ PublishPacks(t)
      BY <1>1, <3>2, Handled DEF Moved, Ended
    <3>3. ASSUME NEW c \in Edits, Edit(c[1], c[2])  PROVE packs' = packs
      BY <3>3 DEF Edit
    <3>4. ~Crash /\ ~Restart /\ ~UNCHANGED vars
      BY DEF Crash, Restart, vars
    <3> QED  BY <1>1, <3>1, <3>2, <3>3, <3>4 DEF Next
  <2> DEFINE list == job[t].list
             listed == {packs'[i] : i \in DOMAIN packs'}
  <2>2. /\ pc[t] = "scan" /\ job[t].entries = <<>> /\ packs' = Sorted(list)
        /\ list \in Seq(Entries) /\ Scanning(t) /\ job[t].kind = "reload"
    BY <1>1, <2>1, KindIs, LocalIs DEF PublishPacks, JobTypes, IsJob, Local
  <2>3. PICK n \in 0 .. Len(Directory) :
          /\ job[t].entries = SubSeq(Directory, n + 1, Len(Directory))
          /\ HasScanned(n, list, job[t].touched)
    BY <2>2 DEF Scanning, Stages
  <2>4. n = Len(Directory)
    <3>1. ~(n < Len(Directory))
      BY <2>2, <2>3, LeftIs
    <3> QED  BY <2>3, <3>1, Constants
  <2>5. \A e \in Entries : \E i \in 1 .. Len(Directory) : Directory[i] = e
    BY ServerAssumption DEF Entries
  <2>6. \A e \in Entries \ job[t].touched :
          (\E i \in 1 .. Len(list) : list[i] = e) <=> IsLoaded(e)
    BY <2>3, <2>4, <2>5 DEF HasScanned
  <2> HIDE DEF list
  <2>7. /\ packs' \in Seq(Entries) /\ Len(packs') = Len(list) /\ Len(list) \in Nat
        /\ \A i \in 1 .. Len(list) : \E k \in 1 .. Len(list) : packs'[k] = list[i]
        /\ \A k \in 1 .. Len(list) : \E i \in 1 .. Len(list) : packs'[k] = list[i]
        /\ \A k, m \in 1 .. Len(list) : k < m => Priority[packs'[k]] >= Priority[packs'[m]]
    <3> DEFINE sorted == Sorted(list)
    <3>1. Entries \in SUBSET Packs /\ list \in Seq(Entries)
      BY <2>2, Constants
    <3>2. /\ sorted \in Seq(Entries) /\ Len(sorted) = Len(list)
          /\ \A i \in 1 .. Len(list) : \E k \in 1 .. Len(list) : sorted[k] = list[i]
          /\ \A k \in 1 .. Len(list) : \E i \in 1 .. Len(list) : sorted[k] = list[i]
          /\ \A k, m \in 1 .. Len(list) : k < m => Priority[sorted[k]] >= Priority[sorted[m]]
      <4> HIDE DEF listed
      <4> QED  BY ONLY <3>1, SortedIs
    <3>3. packs' = sorted /\ Len(list) \in Nat
      BY <2>2
    <3> HIDE DEF sorted, listed
    <3> QED  BY <3>2, <3>3
  <2>8. DOMAIN packs' = 1 .. Len(list)
    BY <2>7
  <2>9. \A e : e \in listed <=> \E i \in 1 .. Len(list) : list[i] = e
    <3>1. \A e : e \in listed <=> \E k \in 1 .. Len(list) : packs'[k] = e
      BY <2>8
    <3> HIDE DEF listed
    <3> QED  BY <2>7, <3>1, Zenon
  <2>10. \A e \in Entries \ job[t].touched : e \in listed <=> IsLoaded(e)
    <3> HIDE DEF listed
    <3> QED  BY <2>6, <2>9
  <2> QED  BY <2>2, <2>7, <2>8, <2>10
<1>2. IInv /\ [Next]_vars => [Honest]_vars
  BY <1>1
<1> QED  BY <1>2, Invariant, PTL DEF Spec, PublishedListHonest


(***************************************************************************)
(* Manifests.  The sum over a manifest's files is a recursive function; it *)
(* exists and has one value because a closed form satisfies its equation.  *)
(***************************************************************************)
SumStep(S, g) == [s \in SUBSET S |->
    IF s = {} THEN 0 ELSE LET f == CHOOSE f \in s : TRUE IN f.rows + g[s \ {f}]]

LEMMA SumUnfolds ==
    ASSUME NEW S, NEW g, g = SumStep(S, g)
    PROVE  \E h : h = SumStep(S, h) /\ RowSum(S) = h[S]
<1> DEFINE sum[s \in SUBSET S] ==
             IF s = {} THEN 0 ELSE LET f == CHOOSE f \in s : TRUE IN f.rows + sum[s \ {f}]
<1>1. RowSum(S) = sum[S]
  BY DEF RowSum
<1>2. sum = CHOOSE h : h = SumStep(S, h)
  BY DEF SumStep
<1> HIDE DEF sum
<1>3. \E h : h = SumStep(S, h)
  OBVIOUS
<1>4. sum = SumStep(S, sum)
  BY <1>2, <1>3
<1> QED  BY <1>1, <1>4

\* The equation has one solution over a finite set.
LEMMA SumUnique ==
    ASSUME NEW S, IsFiniteSet(S), NEW g, g = SumStep(S, g), NEW h, h = SumStep(S, h)
    PROVE  g[S] = h[S]
<1> DEFINE Differ == {s \in SUBSET S : g[s] # h[s]}
           Sizes == {n \in Nat : \E s \in Differ : Cardinality(s) = n}
<1>1. \A s \in SUBSET S : IsFiniteSet(s) /\ Cardinality(s) \in Nat
  BY FS_Subset, FS_CardinalityType
<1> SUFFICES ASSUME Differ # {}  PROVE FALSE
  OBVIOUS
<1>2. Sizes # {} /\ Sizes \subseteq Nat
  BY <1>1
<1>3. PICK n \in Sizes : \A m \in Sizes : ~(<<m, n>> \in OpToRel(<, Nat))
  <2> HIDE DEF Sizes
  <2> QED  BY <1>2, WFMin, NatLessThanWellFounded
<1>4. PICK s \in Differ : Cardinality(s) = n
  OBVIOUS
<1>5. /\ g[s] = IF s = {} THEN 0 ELSE LET f == CHOOSE f \in s : TRUE IN f.rows + g[s \ {f}]
      /\ h[s] = IF s = {} THEN 0 ELSE LET f == CHOOSE f \in s : TRUE IN f.rows + h[s \ {f}]
  <2>1. s \in SUBSET S
    OBVIOUS
  <2> QED  BY <2>1 DEF SumStep
<1> DEFINE f == CHOOSE f \in s : TRUE
           less == s \ {f}
<1>6. s # {} /\ f \in s
  <2>1. s # {}
    BY <1>5
  <2> QED  BY <2>1
<1> HIDE DEF f
<1>7. Cardinality(less) < n /\ Cardinality(less) \in Nat /\ n \in Nat
  <2>1. IsFiniteSet(s) /\ Cardinality(s) \in Nat
    BY <1>1
  <2>2. Cardinality(s \ {f}) = IF f \in s THEN Cardinality(s) - 1 ELSE Cardinality(s)
    BY <2>1, FS_RemoveElement
  <2>3. Cardinality(s \ {f}) \in Nat
    BY <1>1
  <2> QED  BY <1>4, <1>6, <2>1, <2>2, <2>3
<1>8. g[less] # h[less]
  <2>1. g[s] # h[s]
    OBVIOUS
  <2> QED  BY <1>5, <1>6, <2>1 DEF f
<1>9. Cardinality(less) \in Sizes
  <2>1. less \in Differ
    BY <1>8
  <2> QED  BY <1>7, <2>1
<1> HIDE DEF Sizes, Differ, less
<1>10. <<Cardinality(less), n>> \in OpToRel(<, Nat)
  <2> DEFINE ss == <<Cardinality(less), n>>
  <2>1. ss \in Nat \X Nat /\ ss[1] < ss[2]
    BY <1>7
  <2> HIDE DEF ss
  <2>2. ss \in OpToRel(<, Nat)
    BY <2>1, Zenon DEF OpToRel
  <2> QED  BY <2>2 DEF ss
<1> QED  BY <1>3, <1>9, <1>10

\* The rows of R that C gives to some file of S.
RowsOf(R, S, C) == {r \in R : \E f \in S : r \in C[f]}

\* Where each file has rows of its own, their sum counts the rows of all files.
LEMMA SumIs ==
    ASSUME NEW R, IsFiniteSet(R), NEW S, IsFiniteSet(S), NEW C,
           \A f \in S : C[f] \subseteq R /\ f.rows = Cardinality(C[f]),
           \A f, g \in S : f # g => C[f] \cap C[g] = {}
    PROVE  RowSum(S) = Cardinality(RowsOf(R, S, C))
<1> DEFINE U(s) == RowsOf(R, s, C)
           c == [s \in SUBSET S |-> Cardinality(U(s))]
<1>1. ASSUME NEW s \in SUBSET S, s # {}
      PROVE  LET f == CHOOSE f \in s : TRUE IN c[s] = f.rows + c[s \ {f}]
  <2> DEFINE f == CHOOSE f \in s : TRUE
             less == s \ {f}
  <2>1. f \in s /\ f \in S
    BY <1>1
  <2> HIDE DEF f
  <2>2. C[f] \subseteq R /\ f.rows = Cardinality(C[f])
    BY <2>1
  <2>3. U(s) = C[f] \cup U(less) /\ U(less) \subseteq R
    BY <2>1, <2>2 DEF RowsOf
  <2>4. C[f] \cap U(less) = {}
    BY <2>1 DEF RowsOf
  <2> HIDE DEF U
  <2>5. IsFiniteSet(C[f]) /\ IsFiniteSet(U(less))
    BY <2>2, <2>3, FS_Subset
  <2>6. Cardinality(U(s)) = Cardinality(C[f]) + Cardinality(U(less)) - Cardinality({})
    <3> DEFINE A == C[f]
               B == U(less)
    <3>1. IsFiniteSet(A) /\ IsFiniteSet(B) /\ A \cap B = {}
      BY <2>4, <2>5
    <3>2. U(s) = A \cup B
      BY <2>3
    <3> HIDE DEF A, B
    <3>3. Cardinality(A \cup B) = Cardinality(A) + Cardinality(B) - Cardinality(A \cap B)
      BY <3>1, FS_Union
    <3>4. Cardinality(U(s)) = Cardinality(A) + Cardinality(B) - Cardinality({})
      BY <3>1, <3>2, <3>3
    <3> QED  BY <3>4 DEF A, B
  <2>7. Cardinality({}) = 0 /\ Cardinality(C[f]) \in Nat /\ Cardinality(U(less)) \in Nat
    BY <2>5, FS_EmptySet, FS_CardinalityType
  <2>8. Cardinality(U(s)) = f.rows + Cardinality(U(less))
    BY <2>2, <2>6, <2>7
  <2>9. less \in SUBSET S
    OBVIOUS
  <2>10. c[s] = Cardinality(U(s)) /\ c[less] = Cardinality(U(less))
    BY <2>9
  <2> QED  BY <2>8, <2>10 DEF f
<1>2. c[{}] = 0
  <2>1. U({}) = {}
    BY DEF RowsOf
  <2> QED  BY <2>1, FS_EmptySet
<1>3. c = SumStep(S, c)
  <2>1. ASSUME NEW s \in SUBSET S
        PROVE  c[s] = IF s = {} THEN 0
                      ELSE LET f == CHOOSE f \in s : TRUE IN f.rows + c[s \ {f}]
    <3> HIDE DEF c
    <3> QED  BY <1>1, <1>2
  <2> DEFINE d == SumStep(S, c)
  <2>2. DOMAIN d = SUBSET S /\ DOMAIN c = SUBSET S /\ \A s \in SUBSET S : d[s] = c[s]
    <3>1. \A s \in SUBSET S : d[s] = IF s = {} THEN 0
                                     ELSE LET f == CHOOSE f \in s : TRUE IN f.rows + c[s \ {f}]
      <4> HIDE DEF c
      <4> QED  BY DEF SumStep
    <3>2. DOMAIN d = SUBSET S
      BY DEF SumStep
    <3> HIDE DEF d
    <3> QED  BY <2>1, <3>1, <3>2, Zenon
  <2>3. d = [s \in DOMAIN d |-> d[s]]
    BY DEF SumStep
  <2>4. c = [s \in DOMAIN c |-> c[s]]
    OBVIOUS
  <2> HIDE DEF d, c
  <2>5. d = c
    BY <2>2, <2>3, <2>4
  <2> QED  BY <2>5 DEF d
<1>4. c[S] = Cardinality(U(S))
  OBVIOUS
<1> HIDE DEF c
<1>5. PICK h : h = SumStep(S, h) /\ RowSum(S) = h[S]
  BY <1>3, SumUnfolds
<1>6. c[S] = h[S]
  BY <1>3, <1>5, SumUnique
<1> QED  BY <1>4, <1>5, <1>6

\* What an export says of its files balances, and verifies, when each row is in one of them,
\* the valid ones apart, and each file is there as it was described.
LEMMA Balanced ==
    ASSUME NEW R, IsFiniteSet(R), NEW S, IsFiniteSet(S), NEW C, NEW disk0,
           \A f \in S : /\ C[f] \subseteq R /\ f.rows = Cardinality(C[f])
                        /\ f.quarantine \in BOOLEAN
                        /\ \A r \in C[f] : IsValid(r) <=> ~f.quarantine
                        /\ disk0[f.name].there /\ disk0[f.name].ids = f.digest,
           \A f, g \in S : f # g => C[f] \cap C[g] = {},
           \A r \in R : \E f \in S : r \in C[f]
    PROVE  Verifies(Manifest(R, S), disk0)
<1> DEFINE m == Manifest(R, S)
           Q == {f \in S : f.quarantine}
           V == {r \in R : IsValid(r)}
           I == {r \in R : ~IsValid(r)}
<1>1. /\ m.described = S /\ m.total = Cardinality(R) /\ m.valid = Cardinality(V)
      /\ m.quarantine = Cardinality(I)
  BY DEF Manifest
<1>2. RowSum(S) = Cardinality(R)
  <2>1. RowsOf(R, S, C) = R
    BY DEF RowsOf
  <2>2. IsFiniteSet(R) /\ IsFiniteSet(S)
    OBVIOUS
  <2>3. \A f \in S : C[f] \subseteq R /\ f.rows = Cardinality(C[f])
    OBVIOUS
  <2>4. \A f, g \in S : f # g => C[f] \cap C[g] = {}
    OBVIOUS
  <2> HIDE DEF m, Q, V, I
  <2>5. RowSum(S) = Cardinality(RowsOf(R, S, C))
    BY ONLY <2>2, <2>3, <2>4, SumIs
  <2> QED  BY <2>1, <2>5
<1>3. RowSum(Q) = Cardinality(I)
  <2>1. RowsOf(R, Q, C) = I
    BY DEF RowsOf
  <2>2. IsFiniteSet(Q)
    BY FS_Subset
  <2>3. \A f \in Q : C[f] \subseteq R /\ f.rows = Cardinality(C[f])
    OBVIOUS
  <2>4. \A f, g \in Q : f # g => C[f] \cap C[g] = {}
    OBVIOUS
  <2> HIDE DEF Q, I
  <2>5. IsFiniteSet(R)
    OBVIOUS
  <2>6. RowSum(Q) = Cardinality(RowsOf(R, Q, C))
    BY ONLY <2>2, <2>3, <2>4, <2>5, SumIs
  <2> QED  BY <2>1, <2>6
<1>4. RowSum(S \ Q) = Cardinality(V)
  <2> DEFINE W == S \ Q
  <2>1. RowsOf(R, W, C) = V
    BY DEF RowsOf
  <2>2. IsFiniteSet(W)
    BY FS_Subset
  <2>3. \A f \in W : C[f] \subseteq R /\ f.rows = Cardinality(C[f])
    OBVIOUS
  <2>4. \A f, g \in W : f # g => C[f] \cap C[g] = {}
    OBVIOUS
  <2> HIDE DEF W, V
  <2>5. IsFiniteSet(R)
    OBVIOUS
  <2>6. RowSum(W) = Cardinality(RowsOf(R, W, C))
    BY ONLY <2>2, <2>3, <2>4, <2>5, SumIs
  <2> QED  BY <2>1, <2>6 DEF W
<1>5. Cardinality(R) = Cardinality(V) + Cardinality(I)
  <2>1. R = V \cup I /\ V \cap I = {}
    OBVIOUS
  <2>2. IsFiniteSet(V) /\ IsFiniteSet(I)
    BY FS_Subset
  <2> HIDE DEF V, I
  <2>3. Cardinality(V \cup I) = Cardinality(V) + Cardinality(I) - Cardinality(V \cap I)
    BY <2>2, FS_Union
  <2>4. Cardinality({}) = 0 /\ Cardinality(V) \in Nat /\ Cardinality(I) \in Nat
    BY <2>2, FS_EmptySet, FS_CardinalityType
  <2>5. Cardinality(R) = Cardinality(V) + Cardinality(I) - Cardinality({})
    BY <2>1, <2>3
  <2> QED  BY <2>4, <2>5
<1>6. \A f \in S : disk0[f.name].there /\ disk0[f.name].ids = f.digest
  OBVIOUS
<1>7. Q = {f \in m.described : f.quarantine}
  BY <1>1
<1> HIDE DEF m, Q, V, I
<1> QED  BY <1>1, <1>2, <1>3, <1>4, <1>5, <1>6, <1>7 DEF Verifies, m

\* The two files of an export that ran alone.
LEMMA JsonlVerifies ==
    ASSUME NEW R, IsFiniteSet(R), NEW disk0,
           \A n \in {"normalized", "quarantine"} : disk0[n] = File(JsonlRecords(R, n))
    PROVE  /\ Verifies(Manifest(R, {FileRecord(R, n) : n \in {"normalized", "quarantine"}}),
                       disk0)
           /\ disk0["normalized"].ids = Ids({r \in R : IsValid(r)})
           /\ disk0["quarantine"].ids = Ids({r \in R : ~IsValid(r)})
<1> DEFINE N == {"normalized", "quarantine"}
           S == {FileRecord(R, n) : n \in N}
           C == [f \in S |-> JsonlRecords(R, f.name)]
<1>1. /\ JsonlRecords(R, "normalized") = {r \in R : IsValid(r)}
      /\ JsonlRecords(R, "quarantine") = {r \in R : ~IsValid(r)}
  BY DEF JsonlRecords
<1>2. \A n \in N : disk0[n].there /\ disk0[n].ids = Ids(JsonlRecords(R, n))
  BY DEF File
<1>3. \A n \in N : /\ FileRecord(R, n).name = n
                   /\ FileRecord(R, n).rows = Cardinality(JsonlRecords(R, n))
                   /\ FileRecord(R, n).digest = Ids(JsonlRecords(R, n))
                   /\ FileRecord(R, n).quarantine = (n = "quarantine")
  BY DEF FileRecord, Describe
<1>4. IsFiniteSet(S)
  <2> DEFINE a == FileRecord(R, "normalized")
             b == FileRecord(R, "quarantine")
  <2>1. S = {a} \cup {b}
    OBVIOUS
  <2> HIDE DEF a, b, S
  <2>2. IsFiniteSet({a})
    BY FS_Singleton
  <2>3. IsFiniteSet({a} \cup {b})
    BY <2>2, FS_AddElement
  <2> QED  BY <2>1, <2>3
<1>5. ASSUME NEW f \in S
      PROVE  /\ C[f] \subseteq R /\ f.rows = Cardinality(C[f]) /\ f.quarantine \in BOOLEAN
             /\ \A r \in C[f] : IsValid(r) <=> ~f.quarantine
             /\ disk0[f.name].there /\ disk0[f.name].ids = f.digest
  <2>1. PICK n \in N : f = FileRecord(R, n)
    OBVIOUS
  <2>2. /\ f.name = n /\ f.rows = Cardinality(JsonlRecords(R, n))
        /\ f.digest = Ids(JsonlRecords(R, n)) /\ f.quarantine = (n = "quarantine")
    BY <1>3, <2>1
  <2>3. C[f] = JsonlRecords(R, n)
    <3>1. C[f] = JsonlRecords(R, f.name)
      OBVIOUS
    <3> QED  BY <2>2, <3>1
  <2> HIDE DEF C
  <2> QED  BY <1>1, <1>2, <2>2, <2>3, Zenon
<1>6. ASSUME NEW f \in S, NEW g \in S, f # g  PROVE C[f] \cap C[g] = {}
  <2>1. PICK n \in N : f = FileRecord(R, n)
    OBVIOUS
  <2>2. PICK k \in N : g = FileRecord(R, k)
    OBVIOUS
  <2>3. n # k /\ f.name = n /\ g.name = k
    BY <1>3, <1>6, <2>1, <2>2
  <2>4. C[f] = JsonlRecords(R, f.name) /\ C[g] = JsonlRecords(R, g.name)
    OBVIOUS
  <2>5. C[f] = JsonlRecords(R, n) /\ C[g] = JsonlRecords(R, k)
    BY <2>3, <2>4
  <2> HIDE DEF C
  <2> QED  BY <1>1, <2>3, <2>5
<1>7. ASSUME NEW r \in R  PROVE \E f \in S : r \in C[f]
  <2> DEFINE n == IF IsValid(r) THEN "normalized" ELSE "quarantine"
             f == FileRecord(R, n)
  <2>1. f \in S /\ f.name = n
    BY <1>3
  <2>2. C[f] = JsonlRecords(R, f.name)
    BY <2>1
  <2>3. r \in JsonlRecords(R, n)
    BY DEF JsonlRecords
  <2> QED  BY <2>1, <2>2, <2>3
<1> HIDE DEF S, C
<1>8. Verifies(Manifest(R, S), disk0)
  <2>1. IsFiniteSet(R)
    OBVIOUS
  <2> QED  BY ONLY <2>1, <1>4, <1>5, <1>6, <1>7, Balanced
<1> QED  BY <1>1, <1>2, <1>8 DEF S

\* The files of a Parquet export, one of each partition.
LEMMA ParquetVerifies ==
    ASSUME NEW R, IsFiniteSet(R), NEW id, NEW disk0,
           \A p \in Partitions(R) : disk0[<<id, p>>] = File(InPartition(R, p))
    PROVE  Verifies(Manifest(R, {PartRecord(id, R, p) : p \in Partitions(R)}), disk0)
<1> DEFINE P == Partitions(R)
           S == {PartRecord(id, R, p) : p \in P}
           C == [f \in S |-> InPartition(R, f.name[2])]
<1>1. \A p \in P : /\ PartRecord(id, R, p).name = <<id, p>>
                   /\ PartRecord(id, R, p).rows = Cardinality(InPartition(R, p))
                   /\ PartRecord(id, R, p).digest = Ids(InPartition(R, p))
                   /\ PartRecord(id, R, p).quarantine = p.quarantine
  BY DEF PartRecord, Describe
<1>2. ASSUME NEW p \in P
      PROVE  disk0[<<id, p>>].there /\ disk0[<<id, p>>].ids = Ids(InPartition(R, p))
  <2> DEFINE d == disk0[<<id, p>>]
  <2>1. d = File(InPartition(R, p))
    OBVIOUS
  <2> HIDE DEF d
  <2>2. d.there /\ d.ids = Ids(InPartition(R, p))
    BY <2>1 DEF File
  <2> QED  BY <2>2 DEF d
<1>3. \A r \in R : Partition(r) \in P
  BY DEF Partitions
<1>4. IsFiniteSet(S)
  <2> DEFINE g == [r \in R |-> PartRecord(id, R, Partition(r))]
  <2>1. g \in [R -> S]
    <3> HIDE DEF P
    <3> QED  BY <1>3
  <2>2. \A f \in S : \E r \in R : g[r] = f
    BY DEF Partitions
  <2> HIDE DEF g, S
  <2>3. g \in Surjection(R, S)
    BY <2>1, <2>2 DEF Surjection
  <2> QED  BY <2>3, FS_Surjection
<1>5. ASSUME NEW p \in P
      PROVE  /\ p.quarantine \in BOOLEAN
             /\ \A r \in InPartition(R, p) : IsValid(r) <=> ~p.quarantine
  <2>1. \A r : Partition(r).quarantine = ~IsValid(r) /\ IsValid(r) \in BOOLEAN
    BY DEF Partition, IsValid
  <2>2. PICK r \in R : p = Partition(r)
    BY DEF Partitions
  <2>3. \A q \in InPartition(R, p) : Partition(q) = p
    BY DEF InPartition
  <2> QED  BY <2>1, <2>2, <2>3
<1>6. ASSUME NEW f \in S
      PROVE  \E p \in P : /\ f = PartRecord(id, R, p) /\ f.name = <<id, p>>
                          /\ f.rows = Cardinality(InPartition(R, p))
                          /\ f.digest = Ids(InPartition(R, p))
                          /\ f.quarantine = p.quarantine /\ C[f] = InPartition(R, p)
  <2>1. PICK p \in P : f = PartRecord(id, R, p)
    OBVIOUS
  <2>2. /\ f.name = <<id, p>> /\ f.rows = Cardinality(InPartition(R, p))
        /\ f.digest = Ids(InPartition(R, p)) /\ f.quarantine = p.quarantine
    BY <1>1, <2>1
  <2>3. C[f] = InPartition(R, f.name[2])
    OBVIOUS
  <2>4. f.name[2] = p
    BY <2>2
  <2> HIDE DEF P, S, C
  <2> QED  BY <2>1, <2>2, <2>3, <2>4
<1>7. ASSUME NEW f \in S
      PROVE  /\ C[f] \subseteq R /\ f.rows = Cardinality(C[f]) /\ f.quarantine \in BOOLEAN
             /\ \A r \in C[f] : IsValid(r) <=> ~f.quarantine
             /\ disk0[f.name].there /\ disk0[f.name].ids = f.digest
  <2> HIDE DEF S, C, P
  <2>1. PICK p \in P : /\ f.name = <<id, p>> /\ f.rows = Cardinality(InPartition(R, p))
                       /\ f.digest = Ids(InPartition(R, p))
                       /\ f.quarantine = p.quarantine /\ C[f] = InPartition(R, p)
    BY <1>6
  <2>2. C[f] \subseteq R
    BY <2>1 DEF InPartition
  <2> QED  BY <1>2, <1>5, <2>1, <2>2
<1>8. ASSUME NEW f \in S, NEW g \in S, f # g  PROVE C[f] \cap C[g] = {}
  <2> HIDE DEF S, C, P
  <2>1. PICK p \in P : f = PartRecord(id, R, p) /\ C[f] = InPartition(R, p)
    BY <1>6
  <2>2. PICK q \in P : g = PartRecord(id, R, q) /\ C[g] = InPartition(R, q)
    BY <1>6
  <2>3. p # q
    BY <1>8, <2>1, <2>2
  <2> QED  BY <2>1, <2>2, <2>3 DEF InPartition
<1>9. ASSUME NEW r \in R  PROVE \E f \in S : r \in C[f]
  <2> DEFINE p == Partition(r)
             f == PartRecord(id, R, p)
  <2>1. p \in P /\ f \in S
    BY <1>3
  <2>2. C[f] = InPartition(R, f.name[2])
    BY <2>1
  <2>3. f.name[2] = p
    BY <1>1, <2>1
  <2>4. r \in InPartition(R, p)
    BY DEF InPartition
  <2> QED  BY <2>1, <2>2, <2>3, <2>4
<1> HIDE DEF S, C, P
<1>10. Verifies(Manifest(R, S), disk0)
  <2>1. IsFiniteSet(R)
    OBVIOUS
  <2> QED  BY ONLY <2>1, <1>4, <1>7, <1>8, <1>9, Balanced
<1> QED  BY <1>10 DEF S, P

(***************************************************************************)
(* The exports.                                                            *)
(***************************************************************************)
\* What a step leaves the other threads that export.
Undisturbed(t) ==
    \A u \in Threads \ {t} :
       /\ pc'[u] = pc[u] /\ job'[u].id = job[u].id /\ job'[u].kind = job[u].kind
       /\ job'[u].rows = job[u].rows /\ job'[u].entries = job[u].entries
       /\ job'[u].made = job[u].made /\ job'[u].todo = job[u].todo
       /\ job'[u].alone => job[u].alone

DiskBy(t) ==
    /\ job[t].kind # "export" => UNCHANGED <<files, manifest>>
    /\ settled' => settled \/ (job[t].kind = "export" /\ job[t].alone)
    /\ parts' = parts \/ WritePart(t)
    /\ job'[t].kind = "export" /\ job[t].kind # "export" =>
         \A u \in Threads \ {t} : job'[u].kind = "export" => ~job'[u].alone

\* The file of a partition joins the others.
LEMMA PartsGrow ==
    ASSUME IInv, ExportsInv, NEW t \in Threads, parts' = parts \/ WritePart(t)
    PROVE  /\ \A n \in DOMAIN parts : n \in DOMAIN parts' /\ parts'[n] = parts[n]
           /\ \A n \in DOMAIN parts' :
                n \in DOMAIN parts \/ (pc[t] = "part" /\ \E p : n = <<job[t].id, p>>)
<1>1. CASE parts' = parts
  BY <1>1
<1>2. CASE WritePart(t)
  <2>1. PICK p \in job[t].todo :
          /\ pc[t] = "part"
          /\ parts' = [n \in DOMAIN parts \cup {<<job[t].id, p>>} |->
                         IF n = <<job[t].id, p>> THEN File(InPartition(job[t].rows, p))
                         ELSE parts[n]]
    BY <1>2 DEF WritePart
  <2> DEFINE name == <<job[t].id, p>>
             f == File(InPartition(job[t].rows, p))
  <2>2. name \notin DOMAIN parts
    BY <2>1 DEF ExportsInv, ParquetInHand
  <2> HIDE DEF f
  <2>3. parts' = [n \in DOMAIN parts \cup {name} |-> IF n = name THEN f ELSE parts[n]]
    BY <2>1 DEF f
  <2>4. name = <<job[t].id, p>>
    OBVIOUS
  <2> HIDE DEF name
  <2> QED  BY <2>1, <2>2, <2>3, <2>4
<1> QED  BY <1>1, <1>2

\* Another thread's export goes on as if nothing had happened.
LEMMA OthersExport ==
    ASSUME IInv, ExportsInv, NEW t \in Threads, Undisturbed(t), DiskBy(t),
           NEW u \in Threads \ {t}
    PROVE  ExportInHand(u)' /\ ParquetInHand(u)'
<1>1. /\ pc'[u] = pc[u] /\ job'[u].id = job[u].id /\ job'[u].kind = job[u].kind
      /\ job'[u].rows = job[u].rows /\ job'[u].entries = job[u].entries
      /\ job'[u].made = job[u].made /\ job'[u].todo = job[u].todo
      /\ (job'[u].alone => job[u].alone)
  BY DEF Undisturbed
<1>2. ExportInHand(u) /\ ParquetInHand(u) /\ ExportInHand(t) /\ OwnRequests
  BY LocalIs DEF ExportsInv
<1>3. ExportInHand(u)'
  <2> SUFFICES ASSUME pc[u] \in Stages.export  PROVE ExportInHand(u)'
    BY <1>1 DEF ExportInHand
  <2>1. job[u].kind = "export"
    BY <1>2, KindIs DEF Stages
  <2>2. IsFiniteSet(job[u].rows) /\ ~settled
    BY <1>2 DEF ExportInHand
  <2>3. job[t].kind = "export" => ~job[t].alone /\ ~job[u].alone
    <3> SUFFICES ASSUME job[t].kind = "export"  PROVE ~job[t].alone /\ ~job[u].alone
      OBVIOUS
    <3>1. t \in Exporting /\ u \in Exporting /\ t # u
      BY <2>1 DEF Exporting
    <3>2. pc[t] # "idle"
      BY <1>2, NoJobIs DEF OwnRequests, OwnRequest
    <3>3. pc[t] \in Stages.export
      BY <1>2, <3>2, KindIs
    <3> QED  BY <1>2, <3>1, <3>3 DEF ExportInHand
  <2>4. ~settled'
    BY <2>2, <2>3 DEF DiskBy
  <2>5. ASSUME job'[u].alone
        PROVE  /\ Exporting' = {u} /\ files' = files /\ manifest' = manifest
               /\ job[u].alone
    <3>1. job[u].alone /\ Exporting = {u} /\ job[t].kind # "export"
      BY <1>1, <1>2, <2>3, <2>5 DEF ExportInHand
    <3>2. files' = files /\ manifest' = manifest /\ job'[t].kind # "export"
      BY <1>1, <2>1, <2>5, <3>1 DEF DiskBy
    <3>3. \A v \in Threads : job'[v].kind = "export" <=> job[v].kind = "export"
      BY <3>1, <3>2 DEF Undisturbed
    <3> QED  BY <3>1, <3>2, <3>3 DEF Exporting
  <2>6. pc[u] \in {"manifest", "summary"} => job[u].entries = <<>>
    BY <1>2 DEF ExportInHand
  <2>7. ASSUME job'[u].alone
        PROVE  /\ job'[u].made = {FileRecord(job'[u].rows, n) : n \in Described(u)'}
               /\ \A n \in Described(u)' : HoldsRecords(job[u].rows, n)'
               /\ pc[u] = "describe" => HoldsRecords(job[u].rows, FileName(u))'
               /\ pc[u] = "summary" => manifest' = Manifest(job'[u].rows, job'[u].made)
    <3>1. files' = files /\ manifest' = manifest /\ job[u].alone
      BY <2>5, <2>7
    <3>2. Described(u)' = Described(u) /\ FileName(u)' = FileName(u)
      BY <1>1 DEF Described, FileName
    <3>3. /\ job[u].made = {FileRecord(job[u].rows, n) : n \in Described(u)}
          /\ \A n \in Described(u) : HoldsRecords(job[u].rows, n)
          /\ pc[u] = "describe" => HoldsRecords(job[u].rows, FileName(u))
          /\ pc[u] = "summary" => manifest = Manifest(job[u].rows, job[u].made)
      BY <1>2, <3>1 DEF ExportInHand
    <3>4. \A n : HoldsRecords(job[u].rows, n) => files'[n] = File(JsonlRecords(job'[u].rows, n))
      BY <1>1, <3>1 DEF HoldsRecords
    <3>5. \A n \in Described(u)' : HoldsRecords(job[u].rows, n)'
      BY <3>2, <3>3, <3>4 DEF HoldsRecords
    <3>6. pc[u] = "describe" => HoldsRecords(job[u].rows, FileName(u))'
      <4> SUFFICES ASSUME pc[u] = "describe", NEW n, n = FileName(u)'
                   PROVE  HoldsRecords(job[u].rows, n)'
        OBVIOUS
      <4>1. n = FileName(u)
        BY <3>2
      <4> QED  BY <3>3, <3>4, <4>1 DEF HoldsRecords
    <3> QED  BY <1>1, <3>1, <3>2, <3>3, <3>5, <3>6
  <2> QED  BY <1>1, <2>2, <2>4, <2>5, <2>6, <2>7 DEF ExportInHand
<1>4. ParquetInHand(u)'
  <2> SUFFICES ASSUME pc[u] = "part"  PROVE ParquetInHand(u)'
    BY <1>1 DEF ParquetInHand
  <2> DEFINE id == job[u].id
             rows == job[u].rows
             written == Partitions(rows) \ job[u].todo
  <2>1. /\ IsFiniteSet(rows) /\ job[u].todo \subseteq Partitions(rows)
        /\ job[u].made = {PartRecord(id, rows, p) : p \in written}
        /\ \A p \in written : /\ <<id, p>> \in DOMAIN parts
                              /\ parts[<<id, p>>] = File(InPartition(rows, p))
        /\ \A p \in job[u].todo : <<id, p>> \notin DOMAIN parts
    BY <1>2 DEF ParquetInHand
  <2>2. pc[t] = "part" => id # job[t].id
    BY <1>2 DEF OwnRequests
  <2>3. parts' = parts \/ WritePart(t)
    BY DEF DiskBy
  <2>4. /\ \A n \in DOMAIN parts : n \in DOMAIN parts' /\ parts'[n] = parts[n]
        /\ \A n \in DOMAIN parts' :
             n \in DOMAIN parts \/ (pc[t] = "part" /\ \E p : n = <<job[t].id, p>>)
    BY <2>3, PartsGrow
  <2>5. ASSUME NEW p \in job[u].todo  PROVE <<id, p>> \notin DOMAIN parts'
    <3> DEFINE n == <<id, p>>
    <3>1. n \notin DOMAIN parts
      BY <2>1
    <3>2. pc[t] = "part" => \A q : n # <<job[t].id, q>>
      BY <2>2
    <3> HIDE DEF n
    <3>3. n \notin DOMAIN parts'
      BY <2>4, <3>1, <3>2
    <3> QED  BY <3>3 DEF n
  <2>6. ASSUME NEW p \in written
        PROVE  /\ <<id, p>> \in DOMAIN parts'
               /\ parts'[<<id, p>>] = File(InPartition(rows, p))
    BY <2>1, <2>4
  <2>7. job'[u].id = id /\ job'[u].rows = rows /\ job'[u].todo = job[u].todo
        /\ job'[u].made = job[u].made
    BY <1>1
  <2> HIDE DEF id, rows
  <2> QED  BY <1>1, <2>1, <2>5, <2>6, <2>7 DEF ParquetInHand
<1> QED  BY <1>3, <1>4

\* The Parquet files of a manifest stay as it describes them.
LEMMA LakeStays ==
    ASSUME IInv, ExportsInv, NEW t \in Threads, parts' = parts \/ WritePart(t), lake' = lake,
           taken' \in Nat, taken <= taken'
    PROVE  PartsArePast' /\ LakeOnDisk' /\ (lake.there => Verifies(lake, parts))'
<1>1. /\ \A n \in DOMAIN parts : n \in DOMAIN parts' /\ parts'[n] = parts[n]
      /\ \A n \in DOMAIN parts' :
           n \in DOMAIN parts \/ (pc[t] = "part" /\ \E p : n = <<job[t].id, p>>)
  BY PartsGrow
<1>2. /\ PartsArePast /\ LakeOnDisk /\ OwnRequests /\ taken \in Nat /\ past \in Nat
      /\ (lake.there => Verifies(lake, parts))
  <2>1. taken \in 0 .. MaxRequests /\ past \in 0 .. taken /\ OwnRequests
    BY LocalIs DEF StateTypes
  <2> QED  BY <2>1, Constants DEF ExportsInv, ExportsReconcile
<1>3. pc[t] = "part" => job[t].id \in 1 .. taken
  BY <1>2 DEF OwnRequests, OwnRequest
<1>4. PartsArePast'
  <2> SUFFICES ASSUME NEW n \in DOMAIN parts'  PROVE n[1] \in 1 .. taken'
    BY DEF PartsArePast
  <2>1. n[1] \in 1 .. taken
    BY <1>1, <1>2, <1>3 DEF PartsArePast
  <2> QED  BY <1>2, <2>1
<1>5. LakeOnDisk'
  BY <1>1, <1>2 DEF LakeOnDisk
<1>6. (lake.there => Verifies(lake, parts))'
  <2> SUFFICES ASSUME lake.there  PROVE Verifies(lake, parts)'
    OBVIOUS
  <2>1. \A f \in lake.described : parts'[f.name] = parts[f.name]
    BY <1>1, <1>2 DEF LakeOnDisk
  <2> QED  BY <1>2, <2>1 DEF Verifies
<1> QED  BY <1>4, <1>5, <1>6

\* What the last export that ran alone has left.
SettledWell ==
    settled => /\ Verifies(manifest, files)
               /\ summary = Summary(manifest)
               /\ files["normalized"].ids = Ids({r \in exported : IsValid(r)})
               /\ files["quarantine"].ids = Ids({r \in exported : ~IsValid(r)})

LEMMA ExportsNext ==
    ASSUME \A t \in Threads : ExportInHand(t)' /\ ParquetInHand(t)',
           PartsArePast', LakeOnDisk', SettledWell', (lake.there => Verifies(lake, parts))'
    PROVE  ExportsInv'
BY DEF ExportsInv, ExportsReconcile, SettledWell

\* A step of a thread that does not export, or ends its export without a trace.
LEMMA ApartKeeps ==
    ASSUME IInv, ExportsInv, NEW t \in Threads, Undisturbed(t),
           pc'[t] \notin Stages.export, pc'[t] # "part", job'[t].kind # "export",
           UNCHANGED disk, taken' \in Nat, taken <= taken'
    PROVE  ExportsInv'
<1>1. /\ files' = files /\ parts' = parts /\ manifest' = manifest /\ summary' = summary
      /\ lake' = lake /\ settled' = settled /\ exported' = exported
  BY DEF disk
<1>2. DiskBy(t)
  BY <1>1 DEF DiskBy
<1>3. ASSUME NEW u \in Threads  PROVE ExportInHand(u)' /\ ParquetInHand(u)'
  <2>1. CASE u = t
    BY <2>1 DEF ExportInHand, ParquetInHand
  <2>2. CASE u # t
    BY <1>2, <2>2, OthersExport
  <2> QED  BY <2>1, <2>2
<1>4. PartsArePast' /\ LakeOnDisk' /\ (lake.there => Verifies(lake, parts))'
  BY <1>1, LakeStays
<1>5. SettledWell'
  BY <1>1 DEF ExportsInv, ExportsReconcile, SettledWell
<1> QED  BY <1>3, <1>4, <1>5, ExportsNext

\* A step of nobody's request.
LEMMA NobodyExports ==
    ASSUME IInv, ExportsInv, UNCHANGED disk, taken' = taken,
           \/ \A u \in Threads : pc'[u] = "idle"
           \/ \A u \in Threads :
                /\ pc'[u] = pc[u] /\ job'[u].id = job[u].id /\ job'[u].kind = job[u].kind
                /\ job'[u].rows = job[u].rows /\ job'[u].entries = job[u].entries
                /\ job'[u].made = job[u].made /\ job'[u].todo = job[u].todo
                /\ job'[u].alone = job[u].alone
    PROVE  ExportsInv'
<1>1. /\ files' = files /\ parts' = parts /\ manifest' = manifest /\ summary' = summary
      /\ lake' = lake /\ settled' = settled /\ exported' = exported
  BY DEF disk
<1>2. PartsArePast' /\ LakeOnDisk' /\ (lake.there => Verifies(lake, parts))'
  BY <1>1 DEF ExportsInv, ExportsReconcile, PartsArePast, LakeOnDisk, Verifies
<1>3. SettledWell'
  BY <1>1 DEF ExportsInv, ExportsReconcile, SettledWell
<1>4. CASE \A u \in Threads : pc'[u] = "idle"
  <2>1. \A u \in Threads : ExportInHand(u)' /\ ParquetInHand(u)'
    BY <1>4 DEF ExportInHand, ParquetInHand, Stages
  <2> QED  BY <1>2, <1>3, <2>1, ExportsNext
<1>5. CASE ~ \A u \in Threads : pc'[u] = "idle"
  <2>1. \A u \in Threads :
           /\ pc'[u] = pc[u] /\ job'[u].id = job[u].id /\ job'[u].kind = job[u].kind
           /\ job'[u].rows = job[u].rows /\ job'[u].entries = job[u].entries
           /\ job'[u].made = job[u].made /\ job'[u].todo = job[u].todo
           /\ job'[u].alone = job[u].alone
    BY <1>5
  <2>2. Exporting' = Exporting
    BY <2>1 DEF Exporting
  <2>3. ASSUME NEW u \in Threads  PROVE ExportInHand(u)'
    <3>1. ExportInHand(u)
      BY DEF ExportsInv
    <3>2. Described(u)' = Described(u) /\ FileName(u)' = FileName(u)
      BY <2>1 DEF Described, FileName
    <3>3. \A n : HoldsRecords(job[u].rows, n) => files'[n] = File(JsonlRecords(job'[u].rows, n))
      BY <1>1, <2>1 DEF HoldsRecords
    <3>4. pc[u] \in Stages.export /\ job[u].alone =>
             \A n \in Described(u)' : HoldsRecords(job[u].rows, n)'
      BY <3>1, <3>2, <3>3 DEF ExportInHand, HoldsRecords
    <3>5. ASSUME pc[u] = "describe", job[u].alone, NEW n, n = FileName(u)'
          PROVE  HoldsRecords(job[u].rows, n)'
      <4>1. n = FileName(u) /\ pc[u] \in Stages.export
        BY <3>2, <3>5 DEF Stages
      <4> QED  BY <3>1, <3>3, <3>5, <4>1 DEF ExportInHand, HoldsRecords
    <3>6. pc[u] = "describe" /\ job[u].alone => HoldsRecords(job[u].rows, FileName(u))'
      BY <3>5
    <3> QED  BY <1>1, <2>1, <2>2, <3>1, <3>2, <3>4, <3>6 DEF ExportInHand
  <2>4. ASSUME NEW u \in Threads  PROVE ParquetInHand(u)'
    <3>1. ParquetInHand(u)
      BY DEF ExportsInv
    <3> QED  BY <1>1, <2>1, <3>1 DEF ParquetInHand
  <2> QED  BY <1>2, <1>3, <2>3, <2>4, ExportsNext
<1> QED  BY <1>4, <1>5

\* An arrival that is no export; one that is; and a Parquet export.
LEMMA ArrivesKeeps ==
    ASSUME IInv, ExportsInv, NEW t \in Threads, Arrives(t)
    PROVE  ExportsInv'
<1>1. /\ StateTypes /\ JobTypes /\ StoredOnce /\ OwnRequests /\ pc \in [Threads -> Steps]
      /\ DOMAIN job = Threads /\ taken \in Nat /\ backend \in {"memory", "clickhouse"}
  <2>1. StateTypes /\ JobTypes /\ StoredOnce /\ OwnRequests
    BY LocalIs
  <2> QED  BY <2>1, Constants DEF StateTypes, JobTypes
<1>2. ASSUME NEW new, NEW step, Take(t, new, step)
      PROVE  /\ job'[t] = [new EXCEPT !.id = taken + 1] /\ pc'[t] = step /\ Undisturbed(t)
             /\ pc[t] = "idle" /\ taken' = taken + 1
  <2>1. /\ taken' = taken + 1 /\ job' = [job EXCEPT ![t] = [new EXCEPT !.id = taken + 1]]
        /\ pc' = [pc EXCEPT ![t] = step] /\ pc[t] = "idle"
    BY <1>2 DEF Take, Goes
  <2> QED  BY <1>1, <2>1 DEF Undisturbed
<1>3. taken + 1 \in Nat /\ taken <= taken + 1
  BY <1>1
<1>4. ASSUME NEW new, NEW step \in {"collect", "engine", "scan", "total"},
             Take(t, new, step), DOMAIN new = DOMAIN NoJob, new.kind # "export",
             UNCHANGED disk
      PROVE  ExportsInv'
  <2>1. /\ job'[t] = [new EXCEPT !.id = taken + 1] /\ pc'[t] = step /\ Undisturbed(t)
        /\ taken' = taken + 1
    BY <1>2, <1>4
  <2>2. job'[t].kind = new.kind
    BY <1>4, <2>1 DEF NoJob
  <2>3. step \notin Stages.export /\ step # "part"
    BY DEF Stages
  <2> QED  BY <1>3, <1>4, <2>1, <2>2, <2>3, ApartKeeps
<1>5. CASE PostEvent(t)
  BY <1>4, <1>5 DEF PostEvent, NoJob
<1>6. CASE PostParse(t)
  BY <1>4, <1>6 DEF PostParse, NoJob
<1>7. CASE PostReload(t)
  BY <1>4, <1>7 DEF PostReload, NoJob
<1>8. CASE GetAnalytics(t)
  BY <1>4, <1>8 DEF GetAnalytics, NoJob
<1>9. CASE PostExport(t)
  <2>1. PICK rows \in Newest(ExportLimit) :
          /\ pc[t] = "idle" /\ taken' = taken + 1
          /\ job' = [u \in Threads |->
               IF u = t THEN [NoJob EXCEPT !.kind = "export", !.id = taken + 1, !.rows = rows,
                                           !.entries = JsonlFiles, !.alone = Exporting = {}]
               ELSE IF u \in Exporting THEN [job[u] EXCEPT !.alone = FALSE] ELSE job[u]]
          /\ pc' = [pc EXCEPT ![t] = "write"] /\ settled' = FALSE
          /\ files' = files /\ parts' = parts /\ manifest' = manifest /\ lake' = lake
    BY <1>9, Zenon DEF PostExport, Goes
  <2>2. /\ pc'[t] = "write" /\ job'[t].kind = "export" /\ job'[t].rows = rows
        /\ job'[t].entries = JsonlFiles /\ job'[t].alone = (Exporting = {})
        /\ job'[t].made = {}
    BY <1>1, <2>1 DEF NoJob
  <2>3. ASSUME NEW u \in Threads \ {t}
        PROVE  /\ pc'[u] = pc[u] /\ job'[u].id = job[u].id /\ job'[u].kind = job[u].kind
               /\ job'[u].rows = job[u].rows /\ job'[u].entries = job[u].entries
               /\ job'[u].made = job[u].made /\ job'[u].todo = job[u].todo
               /\ (job'[u].alone => job[u].alone)
               /\ (u \in Exporting => ~job'[u].alone)
    <3>1. DOMAIN job[u] = DOMAIN NoJob
      BY <1>1 DEF JobTypes, IsJob
    <3>2. CASE u \in Exporting
      <4>1. job'[u] = [job[u] EXCEPT !.alone = FALSE]
        BY <2>1, <3>2
      <4> QED  BY <1>1, <2>1, <3>1, <4>1, Zenon DEF NoJob
    <3>3. CASE u \notin Exporting
      BY <1>1, <2>1, <3>3, Zenon
    <3> QED  BY <3>2, <3>3
  <2>4. Undisturbed(t) /\ DiskBy(t)
    BY <2>1, <2>3, Zenon DEF Undisturbed, DiskBy, Exporting
  <2>5. ExportInHand(t)'
    <3>1. IsFiniteSet(rows)
      BY <1>1, <2>1, NewestIs
    <3>2. Described(t)' = {}
      <4>1. Described(t)' = {"normalized", "quarantine"} \ {JsonlFiles[i] : i \in DOMAIN JsonlFiles}
        BY <2>2 DEF Described
      <4> QED  BY <4>1 DEF JsonlFiles
    <3>3. job[t].kind # "export"
      BY <1>1, <2>1, NoJobIs DEF OwnRequests, OwnRequest
    <3>4. Exporting = {} => Exporting' = {t}
      <4>1. \A u \in Threads : (job'[u].kind = "export") <=> (u = t \/ u \in Exporting)
        BY <2>2, <2>3 DEF Exporting
      <4> QED  BY <4>1 DEF Exporting
    <3> QED  BY <2>1, <2>2, <3>1, <3>2, <3>4, Zenon DEF ExportInHand
  <2>6. ParquetInHand(t)'
    BY <2>2 DEF ParquetInHand
  <2>7. \A u \in Threads : ExportInHand(u)' /\ ParquetInHand(u)'
    BY <2>4, <2>5, <2>6, OthersExport
  <2>8. PartsArePast' /\ LakeOnDisk' /\ (lake.there => Verifies(lake, parts))'
    BY <1>3, <2>1, LakeStays, Zenon
  <2>9. SettledWell'
    BY <2>1 DEF SettledWell
  <2> QED  BY <2>7, <2>8, <2>9, ExportsNext, Zenon
<1>10. CASE ExportParquet(t)
  <2> DEFINE new(rows) == [NoJob EXCEPT !.kind = "parquet", !.rows = rows,
                                        !.todo = Partitions(rows)]
  <2>1. PICK rows \in Newest(ExportLimit) : Take(t, new(rows), "part") /\ UNCHANGED disk
    BY <1>10 DEF ExportParquet
  <2>2. /\ job'[t] = [new(rows) EXCEPT !.id = taken + 1] /\ pc'[t] = "part" /\ Undisturbed(t)
        /\ taken' = taken + 1
    <3> HIDE DEF new
    <3> QED  BY <1>2, <2>1
  <2>3. /\ job'[t].id = taken + 1 /\ job'[t].kind = "parquet" /\ job'[t].rows = rows
        /\ job'[t].todo = Partitions(rows) /\ job'[t].made = {}
    BY <2>2 DEF NoJob
  <2>4. /\ files' = files /\ parts' = parts /\ manifest' = manifest /\ summary' = summary
        /\ lake' = lake /\ settled' = settled /\ exported' = exported
    BY <2>1 DEF disk
  <2>5. DiskBy(t)
    BY <2>3, <2>4 DEF DiskBy
  <2>6. ParquetInHand(t)'
    <3>1. IsFiniteSet(rows)
      BY <1>1, NewestIs
    <3>2. ASSUME NEW p  PROVE <<taken + 1, p>> \notin DOMAIN parts
      <4> DEFINE n == <<taken + 1, p>>
      <4>1. n[1] = taken + 1 /\ taken + 1 \notin 1 .. taken
        BY <1>1
      <4> HIDE DEF n
      <4>2. n \notin DOMAIN parts
        BY <4>1 DEF ExportsInv, PartsArePast
      <4> QED  BY <4>2 DEF n
    <3>3. job'[t].todo \subseteq Partitions(job'[t].rows)
          /\ Partitions(job'[t].rows) \ job'[t].todo = {}
      BY <2>3
    <3>4. \A p : <<job'[t].id, p>> \notin DOMAIN parts'
      BY <2>3, <2>4, <3>2
    <3> QED  BY <2>2, <2>3, <3>1, <3>3, <3>4 DEF ParquetInHand
  <2>7. ExportInHand(t)'
    BY <2>2 DEF ExportInHand, Stages
  <2>8. \A u \in Threads : ExportInHand(u)' /\ ParquetInHand(u)'
    BY <2>2, <2>5, <2>6, <2>7, OthersExport
  <2>9. PartsArePast' /\ LakeOnDisk' /\ (lake.there => Verifies(lake, parts))'
    BY <1>3, <2>2, <2>4, LakeStays
  <2>10. SettledWell'
    BY <2>4 DEF ExportsInv, ExportsReconcile, SettledWell
  <2> QED  BY <2>8, <2>9, <2>10, ExportsNext
<1> QED  BY <1>5, <1>6, <1>7, <1>8, <1>9, <1>10 DEF Arrives

\* What every thread's step starts from.
LEMMA ExportFacts ==
    ASSUME IInv, ExportsInv, NEW t \in Threads
    PROVE  /\ OwnRequests /\ taken \in Nat /\ pc \in [Threads -> Steps] /\ DOMAIN job = Threads
           /\ DOMAIN job[t] = DOMAIN NoJob /\ DOMAIN files = {"normalized", "quarantine"}
           /\ ExportInHand(t) /\ ParquetInHand(t) /\ Writing(t)
BY LocalIs, Constants DEF StateTypes, JobTypes, IsJob, ExportsInv, Local

\* The files an export has not written yet, by what is left of its list.
LEMMA DescribedIs ==
    ASSUME NEW t \in Threads
    PROVE  /\ job[t].entries = JsonlFiles => /\ Described(t) = {} /\ FileName(t) = "normalized"
                                             /\ Tail(job[t].entries) = <<"quarantine">>
                                             /\ Len(job[t].entries) = 2
           /\ job[t].entries = <<"quarantine">> => /\ Described(t) = {"normalized"}
                                                   /\ FileName(t) = "quarantine"
                                                   /\ Tail(job[t].entries) = <<>>
                                                   /\ Len(job[t].entries) = 1
           /\ job[t].entries = <<>> => Described(t) = {"normalized", "quarantine"}
<1>1. ASSUME job[t].entries = JsonlFiles
      PROVE  /\ Described(t) = {} /\ FileName(t) = "normalized"
             /\ Tail(job[t].entries) = <<"quarantine">> /\ Len(job[t].entries) = 2
  <2>1. {JsonlFiles[i] : i \in DOMAIN JsonlFiles} = {"normalized", "quarantine"}
    BY DEF JsonlFiles
  <2>2. /\ Head(JsonlFiles) = "normalized" /\ Tail(JsonlFiles) = <<"quarantine">>
        /\ Len(JsonlFiles) = 2
    BY DEF JsonlFiles
  <2> QED  BY <1>1, <2>1, <2>2 DEF Described, FileName
<1>2. ASSUME job[t].entries = <<"quarantine">>
      PROVE  /\ Described(t) = {"normalized"} /\ FileName(t) = "quarantine"
             /\ Tail(job[t].entries) = <<>> /\ Len(job[t].entries) = 1
  <2> DEFINE s == <<"quarantine">>
  <2>1. {s[i] : i \in DOMAIN s} = {"quarantine"}
    OBVIOUS
  <2>2. Head(s) = "quarantine" /\ Tail(s) = <<>> /\ Len(s) = 1
    OBVIOUS
  <2> HIDE DEF s
  <2>3. job[t].entries = s
    BY <1>2 DEF s
  <2> QED  BY <2>1, <2>2, <2>3 DEF Described, FileName
<1>3. ASSUME job[t].entries = <<>>  PROVE Described(t) = {"normalized", "quarantine"}
  BY <1>3 DEF Described
<1> QED  BY <1>1, <1>2, <1>3

\* A file of an export is written.
LEMMA WriteFileKeeps ==
    ASSUME IInv, ExportsInv, NEW t \in Threads, WriteFile(t)
    PROVE  ExportsInv'
<1> DEFINE name == FileName(t)
           rows == job[t].rows
<1>1. /\ OwnRequests /\ taken \in Nat /\ pc \in [Threads -> Steps] /\ DOMAIN job = Threads
      /\ DOMAIN files = {"normalized", "quarantine"} /\ ExportInHand(t) /\ Writing(t)
  BY ExportFacts
<1>2. /\ pc[t] = "write" /\ files' = [files EXCEPT ![name] = File(JsonlRecords(rows, name))]
      /\ pc' = [pc EXCEPT ![t] = "describe"] /\ job' = job /\ parts' = parts
      /\ manifest' = manifest /\ lake' = lake /\ settled' = settled /\ taken' = taken
  BY DEF WriteFile, Goes
<1>3. /\ job[t].kind = "export" /\ pc[t] \in Stages.export /\ ~settled /\ IsFiniteSet(rows)
  <2>1. pc[t] \in Stages.export /\ job[t].kind = "export"
    BY <1>1, <1>2, KindIs DEF Stages
  <2> QED  BY <1>1, <2>1 DEF ExportInHand
<1>4. name \in {"normalized", "quarantine"} /\ name \notin Described(t)
  <2>1. job[t].entries \in {JsonlFiles, <<"quarantine">>}
    BY <1>1, <1>2 DEF Writing
  <2> QED  BY <2>1, DescribedIs
<1>5. Undisturbed(t) /\ DiskBy(t)
  BY <1>1, <1>2, <1>3 DEF Undisturbed, DiskBy
<1>6. ExportInHand(t)'
  <2>1. pc'[t] = "describe"
    BY <1>1, <1>2
  <2>2. Described(t)' = Described(t) /\ FileName(t)' = name /\ Exporting' = Exporting
    BY <1>2 DEF Described, FileName, Exporting
  <2> HIDE DEF name
  <2>3. job[t].alone => /\ Exporting = {t}
                        /\ job[t].made = {FileRecord(rows, n) : n \in Described(t)}
                        /\ \A n \in Described(t) : HoldsRecords(rows, n)
    BY <1>1, <1>3 DEF ExportInHand
  <2>4. job[t].alone => \A n \in Described(t) : HoldsRecords(job[t].rows, n)'
    BY <1>1, <1>2, <1>4, <2>3 DEF HoldsRecords
  <2>5. ASSUME NEW n, n = FileName(t)'  PROVE HoldsRecords(job[t].rows, n)'
    BY <1>1, <1>2, <1>4, <2>2, <2>5 DEF HoldsRecords
  <2>6. HoldsRecords(job[t].rows, FileName(t))'
    BY <2>5
  <2> QED  BY <1>2, <1>3, <2>1, <2>2, <2>3, <2>4, <2>6 DEF ExportInHand
<1>7. ParquetInHand(t)'
  BY <1>1, <1>2 DEF ParquetInHand
<1>8. \A u \in Threads : ExportInHand(u)' /\ ParquetInHand(u)'
  BY <1>5, <1>6, <1>7, OthersExport
<1>9. PartsArePast' /\ LakeOnDisk' /\ (lake.there => Verifies(lake, parts))'
  BY <1>1, <1>2, LakeStays
<1>10. SettledWell'
  BY <1>2, <1>3 DEF SettledWell
<1> QED  BY <1>8, <1>9, <1>10, ExportsNext

\* A file is read back and described.
LEMMA DescribeKeeps ==
    ASSUME IInv, ExportsInv, NEW t \in Threads, DescribeFile(t)
    PROVE  ExportsInv'
<1> DEFINE name == FileName(t)
           rows == job[t].rows
           found == Describe(name, JsonlRecords(rows, name), files[name].ids,
                             name = "quarantine")
           made == job[t].made \cup {found}
           left == Tail(job[t].entries)
<1>1. /\ OwnRequests /\ taken \in Nat /\ pc \in [Threads -> Steps] /\ DOMAIN job = Threads
      /\ DOMAIN job[t] = DOMAIN NoJob /\ ExportInHand(t) /\ Writing(t)
  BY ExportFacts
<1>2. /\ pc[t] = "describe"
      /\ job' = [job EXCEPT ![t].made = made, ![t].entries = left]
      /\ pc' = [pc EXCEPT ![t] = IF Len(job[t].entries) > 1 THEN "write" ELSE "manifest"]
      /\ disk' = disk /\ taken' = taken
  BY DEF DescribeFile, Goes
<1>3. /\ files' = files /\ parts' = parts /\ manifest' = manifest /\ summary' = summary
      /\ lake' = lake /\ settled' = settled /\ exported' = exported
  BY <1>2 DEF disk
<1>4. /\ job[t].kind = "export" /\ pc[t] \in Stages.export /\ ~settled /\ IsFiniteSet(rows)
  <2>1. pc[t] \in Stages.export /\ job[t].kind = "export"
    BY <1>1, <1>2, KindIs DEF Stages
  <2> QED  BY <1>1, <2>1 DEF ExportInHand
<1>5. job[t].entries \in {JsonlFiles, <<"quarantine">>}
  BY <1>1, <1>2 DEF Writing
<1> HIDE DEF made, left
<1>6. /\ job'[t].made = made /\ job'[t].entries = left /\ job'[t].rows = rows
      /\ job'[t].alone = job[t].alone /\ job'[t].kind = "export"
      /\ \A u \in Threads \ {t} : job'[u] = job[u] /\ pc'[u] = pc[u]
  BY <1>1, <1>2, <1>4 DEF NoJob
<1>7. Undisturbed(t) /\ DiskBy(t)
  BY <1>3, <1>4, <1>6 DEF Undisturbed, DiskBy
<1>8. Described(t)' = Described(t) \cup {name}
      /\ pc'[t] \in {"write", "manifest"} /\ (pc'[t] = "manifest" => left = <<>>)
  <2>1. CASE job[t].entries = JsonlFiles
    <3>1. Described(t) = {} /\ name = "normalized"
      BY <2>1, DescribedIs
    <3>2. left = <<"quarantine">> /\ Len(job[t].entries) > 1
      BY <2>1 DEF left, JsonlFiles
    <3>3. pc'[t] = "write"
      BY <1>1, <1>2, <3>2
    <3>4. Described(t) = {} /\ name = "normalized" /\ left = <<"quarantine">> /\ pc'[t] = "write"
      BY <3>1, <3>2, <3>3
    <3>5. Described(t)' = {"normalized", "quarantine"} \ {left[i] : i \in DOMAIN left}
      BY <1>6 DEF Described
    <3>6. {left[i] : i \in DOMAIN left} = {"quarantine"}
      BY <3>4
    <3> QED  BY <3>4, <3>5, <3>6
  <2>2. CASE job[t].entries = <<"quarantine">>
    <3>1. Described(t) = {"normalized"} /\ name = "quarantine" /\ left = <<>>
          /\ pc'[t] = "manifest"
      BY <1>1, <1>2, <2>2, DescribedIs DEF left
    <3>2. Described(t)' = {"normalized", "quarantine"} \ {left[i] : i \in DOMAIN left}
      BY <1>6 DEF Described
    <3> QED  BY <3>1, <3>2
  <2> QED  BY <1>5, <2>1, <2>2
<1>9. ExportInHand(t)'
  <2> HIDE DEF name
  <2>1. Exporting' = Exporting
    BY <1>4, <1>6 DEF Exporting
  <2>2. job[t].alone => /\ Exporting = {t}
                        /\ job[t].made = {FileRecord(rows, n) : n \in Described(t)}
                        /\ \A n \in Described(t) : HoldsRecords(rows, n)
                        /\ HoldsRecords(rows, name)
    BY <1>1, <1>2, <1>4 DEF ExportInHand, name
  <2>3. job[t].alone => found = FileRecord(rows, name)
    BY <2>2 DEF HoldsRecords, FileRecord, File
  <2> HIDE DEF found
  <2>4. job[t].alone => made = {FileRecord(rows, n) : n \in Described(t)'}
    <3> DEFINE D == Described(t)
    <3>1. Described(t)' = D \cup {name}
      BY <1>8
    <3>2. made = job[t].made \cup {found}
      BY DEF made, found
    <3> HIDE DEF D
    <3> QED  BY <2>2, <2>3, <3>1, <3>2 DEF D
  <2>5. job[t].alone => \A n \in Described(t)' : HoldsRecords(job[t].rows, n)'
    BY <1>3, <1>6, <1>8, <2>2 DEF HoldsRecords
  <2> QED  BY <1>3, <1>4, <1>6, <1>8, <2>1, <2>2, <2>4, <2>5 DEF ExportInHand
<1>10. ParquetInHand(t)'
  BY <1>8 DEF ParquetInHand
<1>11. \A u \in Threads : ExportInHand(u)' /\ ParquetInHand(u)'
  BY <1>7, <1>9, <1>10, OthersExport
<1>12. PartsArePast' /\ LakeOnDisk' /\ (lake.there => Verifies(lake, parts))'
  BY <1>1, <1>2, <1>3, LakeStays
<1>13. SettledWell'
  BY <1>3, <1>4 DEF SettledWell
<1> QED  BY <1>11, <1>12, <1>13, ExportsNext

\* The manifest is written.
LEMMA ManifestKeeps ==
    ASSUME IInv, ExportsInv, NEW t \in Threads, WriteManifest(t)
    PROVE  ExportsInv'
<1>1. /\ OwnRequests /\ taken \in Nat /\ pc \in [Threads -> Steps] /\ DOMAIN job = Threads
      /\ ExportInHand(t)
  BY ExportFacts
<1>2. /\ pc[t] = "manifest" /\ manifest' = Manifest(job[t].rows, job[t].made)
      /\ pc' = [pc EXCEPT ![t] = "summary"] /\ job' = job /\ files' = files /\ parts' = parts
      /\ lake' = lake /\ settled' = settled /\ taken' = taken
  BY DEF WriteManifest, Goes
<1>3. /\ job[t].kind = "export" /\ pc[t] \in Stages.export /\ ~settled
      /\ IsFiniteSet(job[t].rows) /\ job[t].entries = <<>>
  <2>1. pc[t] \in Stages.export /\ job[t].kind = "export"
    BY <1>1, <1>2, KindIs DEF Stages
  <2> QED  BY <1>1, <1>2, <2>1 DEF ExportInHand
<1>4. pc'[t] = "summary" /\ Undisturbed(t) /\ DiskBy(t)
  BY <1>1, <1>2, <1>3 DEF Undisturbed, DiskBy
<1>5. ExportInHand(t)'
  <2>1. Described(t)' = Described(t) /\ Exporting' = Exporting
    BY <1>2 DEF Described, Exporting
  <2>2. job[t].alone => /\ Exporting = {t}
                        /\ job[t].made = {FileRecord(job[t].rows, n) : n \in Described(t)}
                        /\ \A n \in Described(t) : HoldsRecords(job[t].rows, n)
    BY <1>1, <1>3 DEF ExportInHand
  <2>3. job[t].alone => \A n \in Described(t) : HoldsRecords(job[t].rows, n)'
    BY <1>2, <2>2 DEF HoldsRecords
  <2> QED  BY <1>2, <1>3, <1>4, <2>1, <2>2, <2>3 DEF ExportInHand
<1>6. ParquetInHand(t)'
  BY <1>4 DEF ParquetInHand
<1>7. \A u \in Threads : ExportInHand(u)' /\ ParquetInHand(u)'
  BY <1>4, <1>5, <1>6, OthersExport
<1>8. PartsArePast' /\ LakeOnDisk' /\ (lake.there => Verifies(lake, parts))'
  BY <1>1, <1>2, LakeStays
<1>9. SettledWell'
  BY <1>2, <1>3 DEF SettledWell
<1> QED  BY <1>7, <1>8, <1>9, ExportsNext

\* The export ends: what it wrote balances if it ran alone, and nothing is claimed if not.
LEMMA SummaryKeeps ==
    ASSUME IInv, ExportsInv, NEW t \in Threads, WriteSummary(t)
    PROVE  ExportsInv'
<1> DEFINE rows == job[t].rows
<1>1. /\ OwnRequests /\ taken \in Nat /\ pc \in [Threads -> Steps] /\ DOMAIN job = Threads
      /\ ExportInHand(t)
  BY ExportFacts
<1>2. /\ pc[t] = "summary" /\ summary' = Summary(Manifest(rows, job[t].made))
      /\ settled' = job[t].alone /\ exported' = rows
      /\ pc' = [pc EXCEPT ![t] = "idle"] /\ job' = [job EXCEPT ![t] = NoJob]
      /\ files' = files /\ parts' = parts /\ manifest' = manifest /\ lake' = lake
      /\ taken' = taken
  BY DEF WriteSummary, Done, Goes
<1>3. /\ job[t].kind = "export" /\ pc[t] \in Stages.export /\ IsFiniteSet(rows)
      /\ job[t].entries = <<>>
  <2>1. pc[t] \in Stages.export /\ job[t].kind = "export"
    BY <1>1, <1>2, KindIs DEF Stages
  <2> QED  BY <1>1, <1>2, <2>1 DEF ExportInHand
<1>4. /\ pc'[t] = "idle" /\ job'[t] = NoJob
      /\ \A u \in Threads \ {t} : job'[u] = job[u] /\ pc'[u] = pc[u]
  BY <1>1, <1>2
<1>5. Undisturbed(t) /\ DiskBy(t)
  BY <1>2, <1>3, <1>4, NoJobIs DEF Undisturbed, DiskBy
<1>6. ExportInHand(t)' /\ ParquetInHand(t)'
  BY <1>4 DEF ExportInHand, ParquetInHand, Stages
<1>7. \A u \in Threads : ExportInHand(u)' /\ ParquetInHand(u)'
  BY <1>5, <1>6, OthersExport
<1>8. PartsArePast' /\ LakeOnDisk' /\ (lake.there => Verifies(lake, parts))'
  BY <1>1, <1>2, LakeStays
<1>9. SettledWell'
  <2> SUFFICES ASSUME job[t].alone  PROVE SettledWell'
    BY <1>2 DEF SettledWell
  <2> DEFINE N == {"normalized", "quarantine"}
             made == {FileRecord(rows, n) : n \in N}
  <2>1. Described(t) = N
    BY <1>3, DescribedIs
  <2>2. /\ job[t].made = made /\ manifest = Manifest(rows, job[t].made)
        /\ \A n \in N : files[n] = File(JsonlRecords(rows, n))
    BY <1>1, <1>2, <1>3, <2>1 DEF ExportInHand, HoldsRecords
  <2>3. /\ Verifies(Manifest(rows, made), files)
        /\ files["normalized"].ids = Ids({r \in rows : IsValid(r)})
        /\ files["quarantine"].ids = Ids({r \in rows : ~IsValid(r)})
    <3> HIDE DEF rows
    <3> QED  BY <1>3, <2>2, JsonlVerifies
  <2> HIDE DEF made, rows
  <2>4. Verifies(manifest, files)'
    BY <1>2, <2>2, <2>3 DEF Verifies
  <2> QED  BY <1>2, <2>2, <2>3, <2>4 DEF SettledWell
<1> QED  BY <1>7, <1>8, <1>9, ExportsNext

\* A partition is written.
LEMMA PartKeeps ==
    ASSUME IInv, ExportsInv, NEW t \in Threads, WritePart(t)
    PROVE  ExportsInv'
<1> DEFINE id == job[t].id
           rows == job[t].rows
<1>1. /\ OwnRequests /\ taken \in Nat /\ pc \in [Threads -> Steps] /\ DOMAIN job = Threads
      /\ DOMAIN job[t] = DOMAIN NoJob /\ ParquetInHand(t)
  BY ExportFacts
<1>2. PICK p \in job[t].todo :
        /\ pc[t] = "part"
        /\ parts' = [n \in DOMAIN parts \cup {<<id, p>>} |->
                       IF n = <<id, p>> THEN File(InPartition(rows, p)) ELSE parts[n]]
        /\ job' = [job EXCEPT ![t].todo = @ \ {p},
                              ![t].made = @ \cup {Describe(<<id, p>>, InPartition(rows, p),
                                                           Ids(InPartition(rows, p)),
                                                           p.quarantine)}]
        /\ pc' = pc /\ files' = files /\ manifest' = manifest /\ summary' = summary
        /\ lake' = lake /\ settled' = settled /\ exported' = exported /\ taken' = taken
  BY DEF WritePart
<1> DEFINE name == <<id, p>>
           todo == job[t].todo \ {p}
           made == job[t].made \cup {PartRecord(id, rows, p)}
           written == Partitions(rows) \ job[t].todo
<1>3. job' = [job EXCEPT ![t].todo = todo, ![t].made = made]
  BY <1>2 DEF PartRecord
<1>4. /\ IsFiniteSet(rows) /\ job[t].todo \subseteq Partitions(rows)
      /\ job[t].made = {PartRecord(id, rows, q) : q \in written}
      /\ \A q \in written : /\ <<id, q>> \in DOMAIN parts
                            /\ parts[<<id, q>>] = File(InPartition(rows, q))
      /\ \A q \in job[t].todo : <<id, q>> \notin DOMAIN parts
  BY <1>1, <1>2 DEF ParquetInHand
<1> HIDE DEF todo, made
<1>5. /\ job'[t].id = id /\ job'[t].rows = rows /\ job'[t].todo = todo /\ job'[t].made = made
      /\ job'[t].kind = job[t].kind
      /\ \A u \in Threads \ {t} : job'[u] = job[u]
  BY <1>1, <1>3 DEF NoJob
<1>6. job[t].kind = "parquet"
  BY <1>1, <1>2, KindIs
<1>7. Undisturbed(t) /\ DiskBy(t)
  BY <1>2, <1>5, <1>6 DEF Undisturbed, DiskBy
<1>8. ParquetInHand(t)'
  <2> HIDE DEF id, rows
  <2>1. Partitions(rows) \ todo = written \cup {p}
    BY <1>4 DEF todo
  <2>2. made = {PartRecord(id, rows, q) : q \in Partitions(rows) \ todo}
    <3> HIDE DEF written
    <3> QED  BY <1>4, <2>1 DEF made
  <2>3. ASSUME NEW q \in Partitions(rows) \ todo
        PROVE  /\ <<id, q>> \in DOMAIN parts'
               /\ parts'[<<id, q>>] = File(InPartition(rows, q))
    <3>1. CASE q = p
      <4>1. name \in DOMAIN parts' /\ parts'[name] = File(InPartition(rows, p))
        BY <1>2
      <4> QED  BY <3>1, <4>1
    <3>2. CASE q # p
      <4>1. q \in written
        BY <2>1, <3>2
      <4> DEFINE n == <<id, q>>
      <4>2. n \in DOMAIN parts /\ parts[n] = File(InPartition(rows, q)) /\ n # name
        BY <1>4, <3>2, <4>1
      <4>3. \A m \in DOMAIN parts : m # name => m \in DOMAIN parts' /\ parts'[m] = parts[m]
        BY <1>2
      <4> QED  BY <4>2, <4>3
    <3> QED  BY <3>1, <3>2
  <2>4. ASSUME NEW q \in todo  PROVE <<id, q>> \notin DOMAIN parts'
    <3> DEFINE n == <<id, q>>
    <3>1. q # p /\ q \in job[t].todo
      BY DEF todo
    <3>2. n \notin DOMAIN parts /\ n # name
      BY <1>4, <3>1
    <3>3. DOMAIN parts' = DOMAIN parts \cup {name}
      BY <1>2
    <3> QED  BY <3>2, <3>3
  <2>5. todo \subseteq Partitions(rows)
    BY <1>4 DEF todo
  <2> HIDE DEF written
  <2> QED  BY <1>4, <1>5, <2>2, <2>3, <2>4, <2>5 DEF ParquetInHand
<1>9. ExportInHand(t)'
  BY <1>2 DEF ExportInHand, Stages
<1>10. \A u \in Threads : ExportInHand(u)' /\ ParquetInHand(u)'
  BY <1>7, <1>8, <1>9, OthersExport
<1>11. PartsArePast' /\ LakeOnDisk' /\ (lake.there => Verifies(lake, parts))'
  BY <1>1, <1>2, LakeStays
<1>12. SettledWell'
  BY <1>2 DEF ExportsInv, ExportsReconcile, SettledWell
<1> QED  BY <1>10, <1>11, <1>12, ExportsNext

\* The manifest of a Parquet export is written when all its partitions are there.
LEMMA LakeKeeps ==
    ASSUME IInv, ExportsInv, NEW t \in Threads, WriteLakeManifest(t)
    PROVE  ExportsInv'
<1> DEFINE id == job[t].id
           rows == job[t].rows
           P == Partitions(rows)
           made == {PartRecord(id, rows, p) : p \in P}
<1>1. /\ OwnRequests /\ taken \in Nat /\ pc \in [Threads -> Steps] /\ DOMAIN job = Threads
      /\ ParquetInHand(t)
  BY ExportFacts
<1>2. /\ pc[t] = "part" /\ job[t].todo = {} /\ lake' = Manifest(rows, job[t].made)
      /\ pc' = [pc EXCEPT ![t] = "idle"] /\ job' = [job EXCEPT ![t] = NoJob]
      /\ files' = files /\ parts' = parts /\ manifest' = manifest /\ summary' = summary
      /\ settled' = settled /\ exported' = exported /\ taken' = taken
  BY DEF WriteLakeManifest, Done, Goes
<1>3. /\ IsFiniteSet(rows) /\ job[t].made = made
      /\ \A p \in P : /\ <<id, p>> \in DOMAIN parts
                      /\ parts[<<id, p>>] = File(InPartition(rows, p))
  <2>1. P \ job[t].todo = P
    BY <1>2
  <2> QED  BY <1>1, <1>2, <2>1 DEF ParquetInHand
<1>4. /\ pc'[t] = "idle" /\ job'[t] = NoJob
      /\ \A u \in Threads \ {t} : job'[u] = job[u] /\ pc'[u] = pc[u]
  BY <1>1, <1>2
<1>5. Undisturbed(t) /\ DiskBy(t)
  BY <1>2, <1>4, NoJobIs DEF Undisturbed, DiskBy
<1>6. ExportInHand(t)' /\ ParquetInHand(t)'
  BY <1>4 DEF ExportInHand, ParquetInHand, Stages
<1>7. \A u \in Threads : ExportInHand(u)' /\ ParquetInHand(u)'
  BY <1>5, <1>6, OthersExport
<1>8. PartsArePast'
  BY <1>2 DEF ExportsInv, PartsArePast
<1>9. Verifies(Manifest(rows, made), parts)
  <2> HIDE DEF id, rows
  <2> QED  BY <1>3, ParquetVerifies
<1>10. (lake.there => Verifies(lake, parts))'
  <2>1. lake' = Manifest(rows, made)
    BY <1>2, <1>3
  <2> HIDE DEF made, rows
  <2> QED  BY <1>2, <1>9, <2>1 DEF Verifies
<1>11. LakeOnDisk'
  <2>1. lake'.described = made
    BY <1>2, <1>3 DEF Manifest
  <2>2. ASSUME NEW f \in made  PROVE f.name \in DOMAIN parts'
    <3>1. PICK p \in P : f = PartRecord(id, rows, p)
      OBVIOUS
    <3>2. f.name = <<id, p>>
      BY <3>1 DEF PartRecord, Describe
    <3> QED  BY <1>2, <1>3, <3>2
  <2> HIDE DEF made
  <2> QED  BY <2>1, <2>2 DEF LakeOnDisk
<1>12. SettledWell'
  BY <1>2 DEF ExportsInv, ExportsReconcile, SettledWell
<1> QED  BY <1>7, <1>8, <1>10, <1>11, <1>12, ExportsNext

\* The steps of requests that do not export.
LEMMA NoExportKeeps ==
    ASSUME IInv, ExportsInv, NEW t \in Threads, Handles(t), UNCHANGED <<disk, taken>>,
           pc[t] \notin Stages.export, pc[t] # "part",
           \A u \in Threads \ {t} : job'[u] = job[u] /\ pc'[u] = pc[u]
    PROVE  ExportsInv'
<1>1. OwnRequests /\ taken \in Nat
  BY LocalIs, Constants DEF StateTypes
<1>2. Undisturbed(t)
  BY DEF Undisturbed
<1>3. pc'[t] \notin Stages.export /\ pc'[t] # "part" /\ job'[t].kind # "export"
  <2>1. CASE Moved(t)
    <3>1. pc[t] # "idle" /\ pc'[t] \in Stages[job[t].kind] /\ job'[t].kind = job[t].kind
      BY <2>1 DEF Moved
    <3>2. job[t].kind \in DOMAIN Stages /\ pc[t] \in Stages[job[t].kind]
      BY <1>1, <3>1, KindIs
    <3>3. job[t].kind \in {"event", "parse", "reload", "analytics"}
      BY <3>2 DEF Stages
    <3> QED  BY <3>1, <3>3 DEF Stages
  <2>2. CASE Ended(t)
    BY <2>2, NoJobIs DEF Ended, Stages
  <2> QED  BY <2>1, <2>2, Handled
<1>4. taken' \in Nat /\ taken <= taken'
  BY <1>1
<1> QED  BY <1>2, <1>3, <1>4, ApartKeeps

\* A request goes on with its export, or ends it.
LEMMA HandlesKeeps ==
    ASSUME IInv, ExportsInv, NEW t \in Threads, Handles(t)
    PROVE  ExportsInv'
<1>1. /\ OwnRequests /\ taken \in Nat /\ pc \in [Threads -> Steps] /\ DOMAIN job = Threads
      /\ DOMAIN job[t] = DOMAIN NoJob /\ DOMAIN files = {"normalized", "quarantine"}
      /\ ExportInHand(t) /\ ParquetInHand(t) /\ Writing(t)
  BY LocalIs, Constants DEF StateTypes, JobTypes, IsJob, ExportsInv, Local
<1>2. ASSUME NEW step, pc' = [pc EXCEPT ![t] = step] \/ pc' = pc,
             job' = job \/ \E j : job' = [job EXCEPT ![t] = j]
      PROVE  /\ \A u \in Threads \ {t} : job'[u] = job[u] /\ pc'[u] = pc[u]
             /\ Undisturbed(t)
  BY <1>1, <1>2 DEF Undisturbed
<1>3. ASSUME Done(t)
      PROVE  /\ pc'[t] = "idle" /\ job'[t] = NoJob /\ Undisturbed(t)
             /\ \A u \in Threads \ {t} : job'[u] = job[u] /\ pc'[u] = pc[u]
  <2>1. pc' = [pc EXCEPT ![t] = "idle"] /\ job' = [job EXCEPT ![t] = NoJob]
    BY <1>3 DEF Done, Goes
  <2> QED  BY <1>1, <1>2, <2>1
\* The requests that do not export.
<1>4. CASE Collect(t) \/ BeginMatch(t) \/ TakeTotal(t) \/ CountGroups(t)
  <2>1. /\ UNCHANGED <<disk, taken>> /\ pc[t] \in {"collect", "engine", "total", "count"}
        /\ \A u \in Threads \ {t} : job'[u] = job[u] /\ pc'[u] = pc[u]
    BY <1>1, <1>4 DEF Collect, BeginMatch, TakeTotal, CountGroups, Goes
  <2> QED  BY <2>1, NoExportKeeps DEF Stages
<1>5. CASE CollectUnfit(t) \/ CollectFails(t) \/ NormalizeRaises(t) \/ Store(t)
             \/ PublishPacks(t) \/ AnswerAnalytics(t)
  <2>1. Done(t) /\ UNCHANGED <<disk, taken>> /\ pc[t] \in {"collect", "store", "scan", "counted"}
    BY <1>5 DEF CollectUnfit, CollectFails, NormalizeRaises, Store, PublishPacks, AnswerAnalytics
  <2> QED  BY <1>3, <2>1, NoExportKeeps DEF Stages
<1>6. CASE AskPack(t)
  <2>1. /\ UNCHANGED <<disk, taken>> /\ pc[t] = "match"
        /\ \/ \E pack : Matched(t, pack)
           \/ job' = [job EXCEPT ![t].next = @ + 1] /\ pc' = pc
    BY <1>6 DEF AskPack
  <2>2. \A u \in Threads \ {t} : job'[u] = job[u] /\ pc'[u] = pc[u]
    <3>1. ASSUME NEW pack, Matched(t, pack)
          PROVE  \A u \in Threads \ {t} : job'[u] = job[u] /\ pc'[u] = pc[u]
      BY <1>1, <3>1 DEF Matched, Done, Goes
    <3> QED  BY <1>1, <2>1, <3>1
  <2> QED  BY <2>1, <2>2, NoExportKeeps DEF Stages
<1>7. CASE ScanEntry(t) \/ RereadEntry(t)
  <2>1. PICK result \in {"loaded", "refused", "again", "escapes"} :
          Outcome(t, result) /\ UNCHANGED <<disk, taken>> /\ pc[t] \in {"scan", "reread"}
    <3>1. CASE ScanEntry(t)
      BY <3>1, LoadIs DEF ScanEntry
    <3>2. CASE RereadEntry(t)
      BY <3>2, LoadIs DEF RereadEntry
    <3> QED  BY <1>7, <3>1, <3>2
  <2>2. \A u \in Threads \ {t} : job'[u] = job[u] /\ pc'[u] = pc[u]
    <3>1. CASE result = "loaded"
      BY <1>1, <2>1, <3>1 DEF Outcome, LoadedEntry, Goes
    <3>2. CASE result = "refused"
      BY <1>1, <2>1, <3>2 DEF Outcome, Passed, Goes
    <3>3. CASE result = "again"
      BY <1>1, <2>1, <3>3 DEF Outcome, Goes
    <3>4. CASE result = "escapes"
      BY <1>1, <2>1, <3>4 DEF Outcome, Escapes, Done, Goes
    <3> QED  BY <3>1, <3>2, <3>3, <3>4
  <2> QED  BY <2>1, <2>2, NoExportKeeps DEF Stages
\* A write fails.
<1>8. CASE ExportFails(t)
  <2>1. Done(t) /\ UNCHANGED <<disk, taken>>
    BY <1>8 DEF ExportFails
  <2>2. pc'[t] = "idle" /\ job'[t] = NoJob /\ Undisturbed(t)
    BY <1>3, <2>1
  <2>3. taken' \in Nat /\ taken <= taken'
    BY <1>1, <2>1
  <2> QED  BY <2>1, <2>2, <2>3, NoJobIs, ApartKeeps DEF Stages
\* The steps of a JSON-Lines export.
<1>9. CASE WriteFile(t)
  BY <1>9, WriteFileKeeps
<1>10. CASE DescribeFile(t)
  BY <1>10, DescribeKeeps
<1>11. CASE WriteManifest(t)
  BY <1>11, ManifestKeeps
<1>12. CASE WriteSummary(t)
  BY <1>12, SummaryKeeps
\* The steps of a Parquet export.
<1>13. CASE WritePart(t)
  BY <1>13, PartKeeps
<1>14. CASE WriteLakeManifest(t)
  BY <1>14, LakeKeeps
<1> QED  BY <1>4, <1>5, <1>6, <1>7, <1>8, <1>9, <1>10, <1>11, <1>12, <1>13, <1>14 DEF Handles

LEMMA NextExports == IInv /\ ExportsInv /\ [Next]_vars => ExportsInv'
<1> SUFFICES ASSUME IInv, ExportsInv, [Next]_vars  PROVE ExportsInv'
  OBVIOUS
<1>1. ASSUME NEW t \in Threads, Arrives(t)  PROVE ExportsInv'
  BY <1>1, ArrivesKeeps
<1>2. ASSUME NEW t \in Threads, Handles(t)  PROVE ExportsInv'
  BY <1>2, HandlesKeeps
<1>3. ASSUME NEW c \in Edits, Edit(c[1], c[2])  PROVE ExportsInv'
  <2> DEFINE e == c[1]
  <2>1. /\ UNCHANGED disk /\ taken' = taken /\ pc' = pc
        /\ job' = [t \in Threads |-> IF job[t].kind # "reload" THEN job[t]
                                    ELSE [job[t] EXCEPT !.touched = @ \cup {e}]]
    BY <1>3 DEF Edit
  <2>2. ASSUME NEW u \in Threads
        PROVE  /\ pc'[u] = pc[u] /\ job'[u].id = job[u].id /\ job'[u].kind = job[u].kind
               /\ job'[u].rows = job[u].rows /\ job'[u].entries = job[u].entries
               /\ job'[u].made = job[u].made /\ job'[u].todo = job[u].todo
               /\ job'[u].alone = job[u].alone
    <3> DEFINE more == job[u].touched \cup {e}
    <3>1. DOMAIN job[u] = DOMAIN NoJob
      BY LocalIs DEF JobTypes, IsJob
    <3>2. job'[u] = job[u] \/ job'[u] = [job[u] EXCEPT !.touched = more]
      BY <2>1
    <3> HIDE DEF more
    <3> QED  BY <2>1, <3>1, <3>2 DEF NoJob
  <2> QED  BY <2>1, <2>2, NobodyExports
<1>4. CASE Crash
  <2>1. UNCHANGED disk /\ taken' = taken /\ \A u \in Threads : pc'[u] = "idle"
    BY <1>4 DEF Crash
  <2> QED  BY <2>1, NobodyExports
<1>5. CASE Restart \/ UNCHANGED vars
  <2>1. UNCHANGED disk /\ taken' = taken /\ pc' = pc /\ job' = job
    BY <1>5 DEF Restart, vars
  <2> QED  BY <2>1, NobodyExports
<1> QED  BY <1>1, <1>2, <1>3, <1>4, <1>5 DEF Next

LEMMA InitExports == Init => ExportsInv
<1> SUFFICES ASSUME Init  PROVE ExportsInv
  OBVIOUS
<1>1. /\ pc = [t \in Threads |-> "idle"] /\ parts = <<>> /\ settled = FALSE
      /\ lake = NoManifest
  BY DEF Init
<1>2. \A t \in Threads : pc[t] = "idle"
  BY <1>1
<1>3. \A t \in Threads : ExportInHand(t) /\ ParquetInHand(t)
  BY <1>2 DEF ExportInHand, ParquetInHand, Stages
<1>4. ~lake.there /\ DOMAIN parts = {}
  BY <1>1 DEF NoManifest
<1> QED  BY <1>1, <1>3, <1>4 DEF ExportsInv, PartsArePast, LakeOnDisk, ExportsReconcile

\* Every event of an export is in exactly one of its files and the manifest tells what is on
\* disk: for JSON lines from the end of an export that no other overlapped until the next one
\* begins, for Parquet as soon as there is a manifest, whatever requests, edits, faults and
\* crashes come between (export_jsonl, DataLakeExporter.export).
THEOREM ExportsBalance == Spec => []ExportsReconcile
<1>1. ExportsInv => ExportsReconcile
  BY DEF ExportsInv
<1> QED  BY <1>1, InitIInv, NextIInv, InitExports, NextExports, PTL DEF Spec

\* While the Cisco pack is listed both routes make the same event of a line with the full
\* ASA tag, and the older loses none with a bare tag, whatever lines are sampled.
THEOREM LegacyRouteAgrees == Spec => []LegacyAgrees
<1>1. LegacyAgrees
  BY RoutesAgree DEF LegacyAgrees
<1> QED  BY <1>1, PTL

\* What the memory store answers is what ClickHouse would, and what the quarantined events
\* and the replaced deliveries come to, whichever lines are sampled.
THEOREM StoresReconcileAlways == Spec => []StoresReconcile
<1>1. StoresReconcile
  BY NothingUnreconciled DEF StoresReconcile
<1> QED  BY <1>1, PTL
=============================================================================
