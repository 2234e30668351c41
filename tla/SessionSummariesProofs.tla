------------------------ MODULE SessionSummariesProofs -------------------------
(***************************************************************************)
(* Proofs about SessionSummaries, for any runs, readers, budgets and       *)
(* bounds.                                                                 *)
(***************************************************************************)
EXTENDS SessionSummaries, FiniteSetTheorems, WellFoundedInduction, TLAPS

-------------------------------------------------------------------------------
\* What the definitions of SummarySpans give for every table of rows.

LEMMA LeastNatural ==
  ASSUME NEW S \in SUBSET Nat, S # {}
  PROVE  \E m \in S : \A n \in S : m <= n
<1>1. PICK m \in S : \A n \in S : ~(<<n, m>> \in OpToRel(<, Nat))
  BY NatLessThanWellFounded, WFMin
<1>2. \A n \in S : ~(n < m)
  BY <1>1 DEF OpToRel
<1> QED
  BY <1>2

LEMMA GreatestNatural ==
  ASSUME NEW top \in Nat, NEW S \in SUBSET (0 .. top), S # {}
  PROVE  \E m \in S : \A n \in S : n <= m
<1> DEFINE Below == {top - n : n \in S}
<1>1. Below \in SUBSET Nat /\ Below # {}
  <2>1. \A n \in S : top - n \in Nat
    OBVIOUS
  <2> QED
    BY <2>1
<1>2. PICK d \in Below : \A e \in Below : d <= e
  BY <1>1, LeastNatural
<1>3. PICK m \in S : d = top - m
  OBVIOUS
<1>4. \A n \in S : top - n \in Below
  OBVIOUS
<1>5. \A n \in S : n <= m
  <2> HIDE DEF Below
  <2> TAKE n \in S
  <2>1. top - m <= top - n
    BY <1>2, <1>3, <1>4
  <2> QED
    BY <2>1
<1> QED
  BY <1>5

\* Rows with ids and ends up to top, as a database has them.
Stored(table, F, top) ==
  /\ top \in Nat
  /\ F \subseteq 0 .. top
  /\ \A i \in F : table[i].first \in 0 .. top /\ table[i].last \in 0 .. top

LEMMA StoredNat ==
  ASSUME NEW table, NEW F, NEW top, Stored(table, F, top)
  PROVE  /\ top \in Nat
         /\ \A i \in F : i \in Nat /\ table[i].first \in Nat /\ table[i].last \in Nat
<1>1. top \in Nat /\ F \subseteq 0 .. top
  BY DEF Stored
<1>2. ASSUME NEW i \in F
      PROVE  i \in Nat /\ table[i].first \in Nat /\ table[i].last \in Nat
  <2>1. table[i].first \in 0 .. top /\ table[i].last \in 0 .. top
    BY DEF Stored
  <2> QED
    BY <1>1, <2>1
<1> QED
  BY <1>1, <1>2

-------------------------------------------------------------------------------
\* The order of the query.

LEMMA BeforeTransitive ==
  ASSUME NEW table, NEW F, NEW top, Stored(table, F, top),
         NEW i \in F, NEW j \in F, NEW k \in F,
         Before(table, i, j), Before(table, j, k)
  PROVE  Before(table, i, k)
<1>1. i \in Nat /\ j \in Nat /\ k \in Nat
  BY StoredNat
<1>2. /\ table[i].first \in Nat /\ table[i].last \in Nat
      /\ table[j].first \in Nat /\ table[j].last \in Nat
      /\ table[k].first \in Nat /\ table[k].last \in Nat
  BY StoredNat
<1> QED
  BY <1>1, <1>2 DEF Before

LEMMA BeforeTotal ==
  ASSUME NEW table, NEW F, NEW top, Stored(table, F, top), NEW i \in F, NEW j \in F
  PROVE  /\ i = j \/ Before(table, i, j) \/ Before(table, j, i)
         /\ ~(Before(table, i, j) /\ Before(table, j, i))
         /\ ~Before(table, i, i)
<1>1. i \in Nat /\ j \in Nat
  BY StoredNat
<1>2. /\ table[i].first \in Nat /\ table[i].last \in Nat
      /\ table[j].first \in Nat /\ table[j].last \in Nat
  BY StoredNat
<1> QED
  BY <1>1, <1>2 DEF Before

LEMMA BeforeStarts ==
  ASSUME NEW table, NEW F, NEW top, Stored(table, F, top), NEW i \in F, NEW j \in F,
         Before(table, i, j)
  PROVE  table[i].first <= table[j].first
<1>1. table[i].first \in Nat /\ table[j].first \in Nat
  BY StoredNat
<1> QED
  BY <1>1 DEF Before

\* Any rows have a first one,
LEMMA HasOldest ==
  ASSUME NEW table, NEW F, NEW top, Stored(table, F, top), F # {}
  PROVE  \E i \in F : \A j \in F \ {i} : Before(table, i, j)
<1>0. \A i \in F : i \in Nat /\ table[i].first \in Nat /\ table[i].last \in Nat
  BY StoredNat
<1> DEFINE Starts == {table[i].first : i \in F}
<1>1. PICK s \in Starts : \A n \in Starts : s <= n
  <2>1. Starts \in SUBSET Nat /\ Starts # {}
    BY <1>0
  <2> QED
    BY <2>1, LeastNatural
<1> DEFINE F1 == {i \in F : table[i].first = s}
           Ends == {table[i].last : i \in F1}
<1>2. PICK e \in Ends : \A n \in Ends : e <= n
  <2>1. Ends \in SUBSET Nat /\ Ends # {}
    BY <1>0
  <2> QED
    BY <2>1, LeastNatural
<1> DEFINE F2 == {i \in F1 : table[i].last = e}
<1>3. PICK i \in F2 : \A n \in F2 : i <= n
  <2>1. F2 \in SUBSET Nat /\ F2 # {}
    BY <1>0
  <2> QED
    BY <2>1, LeastNatural
<1>4. ASSUME NEW j \in F \ {i} PROVE Before(table, i, j)
  <2>1. /\ table[i].first = s /\ table[i].last = e /\ i \in F /\ i \in Nat /\ j \in Nat
        /\ table[j].first \in Nat /\ table[j].last \in Nat /\ s \in Nat /\ e \in Nat
    BY <1>0
  <2>2. s <= table[j].first
    BY <1>1
  <2>3. table[j].first = s => e <= table[j].last
    BY <1>2
  <2>4. table[j].first = s /\ table[j].last = e => i <= j
    BY <1>3
  <2> HIDE DEF Starts, F1, Ends, F2
  <2> QED
    BY <2>1, <2>2, <2>3, <2>4 DEF Before
<1> QED
  BY <1>4

\* and a last one.
LEMMA HasNewest ==
  ASSUME NEW table, NEW F, NEW top, Stored(table, F, top), F # {}
  PROVE  \E i \in F : \A j \in F \ {i} : Before(table, j, i)
<1>0. top \in Nat /\ \A i \in F : i \in Nat /\ table[i].first \in Nat /\ table[i].last \in Nat
  BY StoredNat
<1>range. \A i \in F : i \in 0 .. top /\ table[i].first \in 0 .. top /\ table[i].last \in 0 .. top
  BY DEF Stored
<1> DEFINE Starts == {table[i].first : i \in F}
<1>1. PICK s \in Starts : \A n \in Starts : n <= s
  <2>1. Starts \in SUBSET (0 .. top) /\ Starts # {}
    BY <1>range
  <2> QED
    BY <1>0, <2>1, GreatestNatural
<1> DEFINE F1 == {i \in F : table[i].first = s}
           Ends == {table[i].last : i \in F1}
<1>2. PICK e \in Ends : \A n \in Ends : n <= e
  <2>1. Ends \in SUBSET (0 .. top) /\ Ends # {}
    BY <1>range
  <2> QED
    BY <1>0, <2>1, GreatestNatural
<1> DEFINE F2 == {i \in F1 : table[i].last = e}
<1>3. PICK i \in F2 : \A n \in F2 : n <= i
  <2>1. F2 \in SUBSET (0 .. top) /\ F2 # {}
    BY <1>range
  <2> QED
    BY <1>0, <2>1, GreatestNatural
<1>4. ASSUME NEW j \in F \ {i} PROVE Before(table, j, i)
  <2>1. /\ table[i].first = s /\ table[i].last = e /\ i \in F /\ i \in Nat /\ j \in Nat
        /\ table[j].first \in Nat /\ table[j].last \in Nat /\ s \in Nat /\ e \in Nat
    BY <1>0
  <2>2. table[j].first <= s
    BY <1>1
  <2>3. table[j].first = s => table[j].last <= e
    BY <1>2
  <2>4. table[j].first = s /\ table[j].last = e => j <= i
    BY <1>3
  <2> HIDE DEF Starts, F1, Ends, F2
  <2> QED
    BY <2>1, <2>2, <2>3, <2>4 DEF Before
<1> QED
  BY <1>4

LEMMA OldestIs ==
  ASSUME NEW table, NEW F, NEW top, Stored(table, F, top), F # {}
  PROVE  /\ Oldest(table, F) \in F
         /\ \A j \in F \ {Oldest(table, F)} : Before(table, Oldest(table, F), j)
BY HasOldest DEF Oldest

LEMMA NewestIs ==
  ASSUME NEW table, NEW F, NEW top, Stored(table, F, top), F # {}
  PROVE  /\ Newest(table, F) \in F
         /\ \A j \in F \ {Newest(table, F)} : Before(table, j, Newest(table, F))
BY HasNewest DEF Newest

\* A row that is not the last has a next one.
LEMMA HasNext ==
  ASSUME NEW table, NEW F, NEW top, Stored(table, F, top), NEW i \in F, NEW j \in F,
         Before(table, i, j)
  PROVE  \E k \in F : Follows(table, F, i, k) /\ (k = j \/ Before(table, k, j))
<1> DEFINE After == {k \in F : Before(table, i, k)}
<1>1. Stored(table, After, top) /\ After # {}
  BY DEF Stored
<1>2. PICK k \in After : \A l \in After \ {k} : Before(table, k, l)
  <2> HIDE DEF After
  <2> QED
    BY <1>1, HasOldest
<1>3. ~\E l \in F : Before(table, i, l) /\ Before(table, l, k)
  <2> SUFFICES ASSUME NEW l \in F, Before(table, i, l), Before(table, l, k) PROVE FALSE
    OBVIOUS
  <2>1. l = k \/ Before(table, k, l)
    BY <1>2
  <2> QED
    BY <2>1, BeforeTotal
<1> QED
  BY <1>2, <1>3 DEF Follows

-------------------------------------------------------------------------------
\* What is covered.

LEMMA InSpan ==
  ASSUME NEW table, NEW F, NEW top, Stored(table, F, top), NEW x
  PROVE  x \in CoveredBy(table, F)
           <=> x \in Nat /\ \E i \in F : table[i].first <= x /\ x <= table[i].last
<1>1. \A i \in F : table[i].first \in Nat /\ table[i].last \in Nat
  BY StoredNat
<1>2. \A i \in F : x \in Span(table[i])
                     <=> x \in Nat /\ table[i].first <= x /\ x <= table[i].last
  BY <1>1 DEF Span
<1> QED
  BY <1>2 DEF CoveredBy

LEMMA CoveredMonotone ==
  ASSUME NEW table, NEW F, NEW G, F \subseteq G
  PROVE  CoveredBy(table, F) \subseteq CoveredBy(table, G)
BY DEF CoveredBy

\* The prefix ends where the scan stops: at a message that no row covers.
LEMMA PrefixIs ==
  ASSUME NEW table, NEW F, NEW top, Stored(table, F, top), NEW first \in Nat \ {0}
  PROVE  LET n == CoveredPrefix(table, F, first) IN
         /\ n \in {first - 1} \cup {table[i].last : i \in F}
         /\ n \in Nat /\ first <= n + 1
         /\ first .. n \subseteq CoveredBy(table, F)
         /\ n + 1 \notin CoveredBy(table, F)
<1>0. top \in Nat /\ first \in Nat /\ first - 1 \in Nat
  BY StoredNat
<1> DEFINE Open == {n \in Nat : first <= n + 1 /\ n + 1 \notin CoveredBy(table, F)}
<1>1. Open # {}
  <2>1. \A i \in F : table[i].last \in Nat /\ table[i].last <= top
    <3>1. \A i \in F : table[i].last \in 0 .. top
      BY DEF Stored
    <3> QED
      BY <1>0, <3>1
  <2>2. ~(top + first + 1 <= top)
    BY <1>0
  <2>3. top + first + 1 \notin CoveredBy(table, F)
    <3> SUFFICES ASSUME top + first + 1 \in CoveredBy(table, F) PROVE FALSE
      OBVIOUS
    <3>1. PICK i \in F : top + first + 1 <= table[i].last
      BY InSpan
    <3> QED
      BY <1>0, <2>1, <2>2, <3>1
  <2>4. top + first \in Nat /\ first <= (top + first) + 1
    BY <1>0
  <2> QED
    BY <2>3, <2>4
<1>2. PICK n \in Open : \A m \in Open : n <= m
  BY <1>1, LeastNatural
<1>3. n \in Nat /\ first <= n + 1 /\ n + 1 \notin CoveredBy(table, F)
  OBVIOUS
<1>4. \A x \in first .. n : x \in CoveredBy(table, F)
  <2> TAKE x \in first .. n
  <2>1. x \in Nat /\ x - 1 \in Nat /\ first <= (x - 1) + 1 /\ x = (x - 1) + 1 /\ ~(n <= x - 1)
    BY <1>0, <1>3
  <2>2. x - 1 \notin Open
    BY <1>2, <2>1
  <2> QED
    BY <2>1, <2>2
<1>5. n \in {first - 1} \cup {table[i].last : i \in F}
  <2>1. CASE n < first
    BY <1>0, <1>3, <2>1
  <2>2. CASE first <= n
    <3>1. PICK i \in F : table[i].first <= n /\ n <= table[i].last
      BY <1>0, <1>3, <1>4, <2>2, InSpan
    <3>2. table[i].first \in Nat /\ table[i].last \in Nat
      BY StoredNat
    <3>3. ~(n + 1 <= table[i].last)
      BY <1>3, <3>1, <3>2, InSpan
    <3>4. n = table[i].last
      BY <1>3, <3>1, <3>2, <3>3
    <3> QED
      BY <3>4
  <2> QED
    BY <1>0, <1>3, <2>1, <2>2
<1> DEFINE Is(m) == /\ first <= m + 1
                    /\ first .. m \subseteq CoveredBy(table, F)
                    /\ m + 1 \notin CoveredBy(table, F)
<1>6. Is(n)
  BY <1>3, <1>4
<1>7. \A m \in {first - 1} \cup {table[i].last : i \in F} : m \in Nat
  BY <1>0, StoredNat
<1>8. CoveredPrefix(table, F, first)
        = CHOOSE m \in {first - 1} \cup {table[i].last : i \in F} : Is(m)
  BY DEF CoveredPrefix
<1> HIDE DEF Is
<1>9. /\ CoveredPrefix(table, F, first) \in {first - 1} \cup {table[i].last : i \in F}
      /\ Is(CoveredPrefix(table, F, first))
  BY <1>5, <1>6, <1>8
<1> QED
  BY <1>7, <1>9 DEF Is

\* If rows cover from first on without a gap, they cover nothing after the prefix.
LEMMA PrefixIsAll ==
  ASSUME NEW table, NEW F, NEW top, Stored(table, F, top), NEW first \in Nat \ {0},
         \A x \in CoveredBy(table, F) : first .. x \subseteq CoveredBy(table, F)
  PROVE  \A x \in CoveredBy(table, F) : x <= CoveredPrefix(table, F, first)
<1> DEFINE n == CoveredPrefix(table, F, first)
<1>1. n \in Nat /\ first <= n + 1 /\ n + 1 \notin CoveredBy(table, F)
  BY PrefixIs
<1> HIDE DEF n
<1>2. ASSUME NEW x \in CoveredBy(table, F) PROVE x <= n
  <2>1. x \in Nat
    BY InSpan
  <2>2. n + 1 \notin first .. x
    BY <1>1
  <2> QED
    BY <1>1, <2>1, <2>2
<1> QED
  BY <1>2 DEF n

-------------------------------------------------------------------------------
\* The oldest run.

LEMMA RunIsPrefix ==
  ASSUME NEW table, NEW F, NEW top, Stored(table, F, top),
         NEW i \in F, NEW j \in OldestRun(table, F), Before(table, i, j)
  PROVE  i \in OldestRun(table, F)
<1>1. j \in F
  BY DEF OldestRun
<1>2. ASSUME NEW k \in F, NEW h \in F, k = i \/ Before(table, k, i), Follows(table, F, h, k)
      PROVE  table[k].first = table[h].last + 1
  <2>1. Before(table, k, j)
    BY <1>1, <1>2, BeforeTransitive
  <2> QED
    BY <1>2, <2>1 DEF OldestRun
<1> QED
  BY <1>2 DEF OldestRun

LEMMA RunHasOldest ==
  ASSUME NEW table, NEW F, NEW top, Stored(table, F, top), F # {}
  PROVE  Oldest(table, F) \in OldestRun(table, F)
<1> DEFINE o == Oldest(table, F)
<1>1. o \in F /\ \A j \in F \ {o} : Before(table, o, j)
  BY OldestIs
<1> HIDE DEF o
<1>2. \A k \in F : ~Before(table, k, o)
  BY <1>1, BeforeTotal
<1>3. \A h \in F : ~Follows(table, F, h, o)
  BY <1>2 DEF Follows
<1>4. o \in OldestRun(table, F)
  BY <1>1, <1>2, <1>3 DEF OldestRun
<1> QED
  BY <1>4 DEF o

LEMMA RunStored ==
  ASSUME NEW table, NEW F, NEW top, Stored(table, F, top)
  PROVE  Stored(table, OldestRun(table, F), top) /\ OldestRun(table, F) \subseteq F
BY DEF Stored, OldestRun

\* Within the run every row but the newest ends where another one begins.
LEMMA RunGoesOn ==
  ASSUME NEW table, NEW F, NEW top, Stored(table, F, top),
         NEW i \in OldestRun(table, F), i # Newest(table, OldestRun(table, F))
  PROVE  \E k \in OldestRun(table, F) :
           /\ Before(table, i, k)
           /\ table[k].first = table[i].last + 1
<1> DEFINE R == OldestRun(table, F)
           n == Newest(table, R)
<1>1. n \in R /\ \A j \in R \ {n} : Before(table, j, n)
  BY RunStored, NewestIs
<1>2. i \in R /\ Before(table, i, n) /\ i \in F /\ n \in F
  BY <1>1, RunStored
<1>3. PICK k \in F : Follows(table, F, i, k) /\ (k = n \/ Before(table, k, n))
  BY <1>2, HasNext
<1>4. table[k].first = table[i].last + 1
  BY <1>1, <1>2, <1>3 DEF OldestRun
<1>5. k \in R
  BY <1>1, <1>3, RunIsPrefix
<1>6. Before(table, i, k)
  BY <1>3 DEF Follows
<1> QED
  BY <1>4, <1>5, <1>6

\* The rows of the run cover exactly what lies between the ends of the row that
\* replaces them (summarize.py 207-209, 224-228).
THEOREM RunIsWhole ==
  ASSUME NEW table, NEW F, NEW top, Stored(table, F, top), F # {},
         \A i \in F : table[i].first <= table[i].last
  PROVE  LET OldRun == OldestRun(table, F) IN
         CoveredBy(table, OldRun)
           = table[Oldest(table, OldRun)].first .. table[Newest(table, OldRun)].last
<1> DEFINE R == OldestRun(table, F)
           o == Oldest(table, R)
           n == Newest(table, R)
<1>1. Stored(table, R, top) /\ R \subseteq F /\ R # {}
  BY RunStored, RunHasOldest
<1>2. /\ o \in R /\ \A j \in R \ {o} : Before(table, o, j)
      /\ n \in R /\ \A j \in R \ {n} : Before(table, j, n)
  BY <1>1, OldestIs, NewestIs
<1>3. \A i \in R : i # n => \E k \in R : /\ Before(table, i, k)
                                         /\ table[k].first = table[i].last + 1
  BY RunGoesOn
<1>4. \A i \in R : /\ i \in Nat /\ table[i].first \in Nat /\ table[i].last \in Nat
                   /\ table[i].first <= table[i].last
  <2>1. \A i \in R : i \in Nat /\ table[i].first \in Nat /\ table[i].last \in Nat
    BY <1>1, StoredNat
  <2> QED
    BY <1>1, <2>1
<1> HIDE DEF R, o, n
<1>5. \A i \in R : table[o].first <= table[i].first /\ table[i].first <= table[n].first
  BY <1>1, <1>2, <1>4, BeforeStarts
<1>6. ASSUME NEW i \in R PROVE table[i].last <= table[n].last
  <2>1. CASE i = n
    BY <2>1, <1>4
  <2>2. CASE i # n
    <3>1. PICK k \in R : table[k].first = table[i].last + 1
      BY <1>3, <2>2
    <3>2. table[k].first <= table[n].first /\ table[n].first <= table[n].last
      BY <1>2, <1>4, <1>5
    <3> QED
      BY <1>2, <1>4, <3>1, <3>2
  <2> QED
    BY <2>1, <2>2
<1>7. ASSUME NEW x \in table[o].first .. table[n].last
      PROVE  \E i \in R : table[i].first <= x /\ x <= table[i].last
  <2>0. x \in Nat
    BY <1>2, <1>4
  <2> DEFINE Begun == {i \in R : table[i].first <= x}
  <2>1. Stored(table, Begun, top) /\ Begun # {} /\ Begun \subseteq R
    <3>1. o \in Begun
      BY <1>2, <1>4
    <3>2. Stored(table, Begun, top)
      BY <1>1 DEF Stored
    <3> QED
      BY <3>1, <3>2
  <2>2. PICK j \in Begun : \A i \in Begun \ {j} : Before(table, i, j)
    <3> HIDE DEF Begun
    <3> QED
      BY <2>1, HasNewest
  <2>3. j \in R /\ table[j].first <= x
    OBVIOUS
  <2>4. CASE x <= table[j].last
    BY <2>3, <2>4
  <2>5. CASE table[j].last < x
    <3>1. j # n
      BY <1>2, <1>4, <2>0, <2>5
    <3>2. PICK k \in R : Before(table, j, k) /\ table[k].first = table[j].last + 1
      BY <1>3, <2>3, <3>1
    <3>3. table[k].first <= x
      BY <1>4, <2>0, <2>3, <2>5, <3>2
    <3>4. k = j \/ Before(table, k, j)
      BY <2>2, <3>3
    <3> QED
      BY <1>1, <2>3, <3>2, <3>4, BeforeTotal
  <2> QED
    BY <1>4, <2>0, <2>3, <2>4, <2>5
<1>8. \A x : x \in CoveredBy(table, R) => x \in table[o].first .. table[n].last
  <2> SUFFICES ASSUME NEW x, x \in CoveredBy(table, R)
               PROVE  x \in table[o].first .. table[n].last
    OBVIOUS
  <2>1. PICK i \in R : x \in Nat /\ table[i].first <= x /\ x <= table[i].last
    BY <1>1, InSpan
  <2> QED
    BY <1>2, <1>4, <1>5, <1>6, <2>1
<1>9. \A x : x \in table[o].first .. table[n].last => x \in CoveredBy(table, R)
  <2> SUFFICES ASSUME NEW x \in table[o].first .. table[n].last
               PROVE  x \in CoveredBy(table, R)
    OBVIOUS
  <2>1. x \in Nat
    BY <1>2, <1>4
  <2> QED
    BY <1>1, <1>7, <2>1, InSpan
<1>10. CoveredBy(table, R) = table[o].first .. table[n].last
  BY <1>8, <1>9
<1> QED
  BY <1>10 DEF R, o, n

LEMMA OneRowRun ==
  ASSUME NEW table, NEW w, NEW top, Stored(table, {w}, top)
  PROVE  OldestRun(table, {w}) = {w}
<1>1. ~Before(table, w, w)
  BY BeforeTotal
<1> QED
  BY <1>1 DEF OldestRun, Follows

\* A row over what follows the covered prefix lengthens a chain.
THEOREM RunGrows ==
  ASSUME NEW table, NEW F, NEW top, NEW w, w \notin F, Stored(table, F \cup {w}, top),
         NEW first \in Nat \ {0},
         \A i \in F : first <= table[i].first /\ table[i].first <= table[i].last,
         \A x \in CoveredBy(table, F) : first .. x \subseteq CoveredBy(table, F),
         OldestRun(table, F) = F,
         table[w].first = CoveredPrefix(table, F, first) + 1
  PROVE  OldestRun(table, F \cup {w}) = F \cup {w}
<1> DEFINE G == F \cup {w}
           p == CoveredPrefix(table, F, first)
<1>1. Stored(table, F, top) /\ Stored(table, G, top)
  BY DEF Stored
<1>2. /\ p \in {first - 1} \cup {table[i].last : i \in F} /\ p \in Nat
      /\ \A x \in CoveredBy(table, F) : x <= p
  BY <1>1, PrefixIs, PrefixIsAll
<1>3. \A i \in F : table[i].first \in Nat /\ table[i].last \in Nat
  BY <1>1, StoredNat
<1>4. table[w].first = p + 1
  OBVIOUS
<1> HIDE DEF p
<1>5. ASSUME NEW i \in F PROVE table[i].first <= p /\ table[i].last <= p
  <2>1. table[i].last \in CoveredBy(table, F)
    BY <1>1, <1>3, InSpan
  <2> QED
    BY <1>2, <1>3, <2>1
<1>6. \A i \in F : Before(table, i, w)
  <2> TAKE i \in F
  <2>1. table[i].first < table[w].first
    BY <1>2, <1>3, <1>4, <1>5
  <2> QED
    BY <2>1 DEF Before
<1>7. ASSUME NEW h \in G, NEW k \in G, Follows(table, G, h, k)
      PROVE  table[k].first = table[h].last + 1
  <2>0. Before(table, h, k)
    BY <1>7 DEF Follows
  <2>1. h \in F
    <3> SUFFICES ASSUME h = w PROVE FALSE
      OBVIOUS
    <3>1. k \in G /\ h \in G /\ (k = h \/ Before(table, k, h))
      BY <1>6
    <3> HIDE DEF G
    <3> QED
      BY <1>1, <2>0, <3>1, BeforeTotal
  <2>2. CASE k \in F
    <3>1. Follows(table, F, h, k)
      BY <1>7 DEF Follows
    <3> QED
      BY <2>1, <2>2, <3>1 DEF OldestRun
  <2>3. CASE k = w
    <3>1. \A l \in F : ~Before(table, h, l)
      BY <1>6, <1>7, <2>3 DEF Follows
    <3>2. \A j \in F : j # h => Before(table, j, h)
      BY <1>1, <2>1, <3>1, BeforeTotal
    <3>3. p # first - 1
      BY <1>2, <1>3, <1>5, <2>1
    <3>4. PICK j \in F : p = table[j].last
      BY <1>2, <3>3
    <3>5. j = h
      <4> SUFFICES ASSUME j # h PROVE FALSE
        OBVIOUS
      <4>0. Before(table, j, h)
        BY <3>2
      <4>1. Newest(table, F) \in F /\ \A l \in F \ {Newest(table, F)} : Before(table, l, Newest(table, F))
        BY <1>1, NewestIs
      <4>2. j # Newest(table, F)
        BY <1>1, <2>1, <4>0, <4>1, BeforeTotal
      <4>3. PICK l \in F : table[l].first = table[j].last + 1
        BY <1>1, <4>2, RunGoesOn
      <4>4. table[l].first <= p
        BY <1>5
      <4> QED
        BY <1>2, <3>4, <4>3, <4>4
    <3> QED
      BY <1>4, <2>3, <3>4, <3>5
  <2> QED
    BY <2>2, <2>3
<1>8. OldestRun(table, G) = G
  <2> HIDE DEF G
  <2> QED
    BY <1>7 DEF OldestRun
<1> QED
  BY <1>8

\* All this depends on the rows in F only.
LEMMA SameRows ==
  ASSUME NEW table, NEW other, NEW F, \A i \in F : table[i] = other[i]
  PROVE  /\ CoveredBy(table, F) = CoveredBy(other, F)
         /\ \A first : CoveredPrefix(table, F, first) = CoveredPrefix(other, F, first)
         /\ OldestRun(table, F) = OldestRun(other, F)
<1>1. CoveredBy(table, F) = CoveredBy(other, F)
  BY DEF CoveredBy
<1>2. {table[i].last : i \in F} = {other[i].last : i \in F}
  OBVIOUS
<1>3. \A first : CoveredPrefix(table, F, first) = CoveredPrefix(other, F, first)
  BY <1>1, <1>2 DEF CoveredPrefix
<1>4. \A i, j \in F : Before(table, i, j) <=> Before(other, i, j)
  BY DEF Before
<1>5. \A i, j \in F : Follows(table, F, i, j) <=> Follows(other, F, i, j)
  BY <1>4 DEF Follows
<1>6. OldestRun(table, F) = OldestRun(other, F)
  BY <1>4, <1>5 DEF OldestRun
<1> QED
  BY <1>1, <1>3, <1>6

-------------------------------------------------------------------------------
\* The specification.

RunPlaces == {"idle", "leaf", "span", "leafAsked", "condense", "found", "condenseAsked"}

\* A bound on every number in a row.
Top == MaxMessages + MaxSummaries + 1

\* A run is only in progress in a session with messages, and a row replaces
\* rows that were there before it.
InProgress ==
  \A r \in Runs : /\ run[r].pc # "idle" => own # {}
                  /\ run[r].row.replaces \subseteq Recorded

TypeInv == TypeOK /\ InProgress

-------------------------------------------------------------------------------
\* What the parts of a state are.

LEMMA Constants ==
  /\ MaxFrontier \in Nat /\ Budget \in Nat /\ MaxMessages \in Nat
  /\ MaxSummaries \in Nat /\ MaxDay \in Nat /\ Top \in Nat
BY SummariesAssumption DEF Top

LEMMA TableStored ==
  ASSUME NEW table \in [Sums -> Row], NEW F \in SUBSET Sums
  PROVE  Stored(table, F, Top)
<1>1. Top \in Nat /\ MaxMessages \in Nat /\ MaxSummaries \in Nat
  BY Constants
<1>2. F \subseteq 0 .. Top
  BY <1>1 DEF Sums, Top
<1>3. ASSUME NEW i \in F
      PROVE  table[i].first \in 0 .. MaxMessages + 1 /\ table[i].last \in 0 .. MaxMessages
  BY DEF Row
<1>4. \A i \in F : table[i].first \in 0 .. Top /\ table[i].last \in 0 .. Top
  BY <1>1, <1>3 DEF Top
<1> QED
  BY <1>1, <1>2, <1>4 DEF Stored

LEMMA RowsStored ==
  ASSUME TypeOK, NEW F \in SUBSET Recorded
  PROVE  Stored(rows, F, Top)
<1>1. F \in SUBSET Sums
  BY Constants DEF TypeOK, Recorded, Sums
<1> QED
  BY <1>1, TableStored DEF TypeOK

LEMMA FrontierRecorded == Frontier \subseteq Recorded /\ Chain \subseteq Frontier
BY DEF Frontier, Chain, OldestRun

LEMMA FirstIs ==
  ASSUME TypeOK, own # {}
  PROVE  /\ First \in own /\ First \in Nat \ {0} /\ First \in 1 .. MaxMessages
         /\ \A m \in own : m \in Nat /\ First <= m
<1>1. own \in SUBSET Nat /\ issued \in 0 .. MaxMessages /\ MaxMessages \in Nat
      /\ own \subseteq 1 .. issued
  BY Constants DEF TypeOK
<1>2. \E m \in own : \A n \in own : m <= n
  BY <1>1, LeastNatural
<1>3. First \in own /\ \A m \in own : First <= m
  BY <1>2 DEF First
<1> QED
  BY <1>1, <1>3

LEMMA UpToIs ==
  ASSUME TypeOK, own # {}, NEW F \in SUBSET Recorded
  PROVE  /\ UpTo(F) \in {First - 1} \cup {rows[i].last : i \in F}
         /\ UpTo(F) \in 0 .. MaxMessages /\ First <= UpTo(F) + 1
         /\ First .. UpTo(F) \subseteq CoveredBy(rows, F)
         /\ UpTo(F) + 1 \notin CoveredBy(rows, F)
<1>1. First \in Nat \ {0} /\ First \in 1 .. MaxMessages /\ MaxMessages \in Nat
  BY FirstIs, Constants
<1>2. /\ UpTo(F) \in {First - 1} \cup {rows[i].last : i \in F}
      /\ UpTo(F) \in Nat /\ First <= UpTo(F) + 1
      /\ First .. UpTo(F) \subseteq CoveredBy(rows, F)
      /\ UpTo(F) + 1 \notin CoveredBy(rows, F)
  BY <1>1, RowsStored, PrefixIs DEF UpTo
<1>3. \A i \in F : rows[i].last \in 0 .. MaxMessages
  <2>1. F \subseteq Sums
    BY Constants DEF Recorded, Sums, TypeOK
  <2> QED
    BY <2>1 DEF TypeOK, Row
<1>4. First - 1 \in 0 .. MaxMessages
  BY <1>1
<1> QED
  BY <1>2, <1>3, <1>4

LEMMA OwnTyped == ASSUME TypeOK PROVE own \in SUBSET Ids /\ Ids \subseteq Nat
<1>1. own \subseteq 1 .. issued /\ issued \in 0 .. MaxMessages /\ MaxMessages \in Nat
  BY Constants DEF TypeOK
<1>2. 1 .. issued \subseteq Ids
  BY <1>1 DEF Ids
<1> QED
  BY <1>1, <1>2 DEF Ids

LEMMA TurnTyped ==
  ASSUME TypeOK, NEW r \in Runs, NEW pc \in RunPlaces, NEW row \in Row, Turn(r, pc, row)
  PROVE  run' \in [Runs -> RunCall]
<1>1. [pc |-> pc, row |-> row] \in RunCall
  BY DEF RunCall, RunPlaces
<1> QED
  BY <1>1 DEF Turn, TypeOK

LEMMA AnswerTyped ==
  ASSUME TypeOK, NEW q \in Readers, NEW call \in ReaderCall, Answer(q, call)
  PROVE  reader' \in [Readers -> ReaderCall]
BY DEF Answer, TypeOK

LEMMA RowTyped == ASSUME TypeOK, NEW r \in Runs
                  PROVE  run[r].row \in Row /\ run[r].pc \in RunPlaces
BY DEF TypeOK, RunCall, RunPlaces

LEMMA NoRowTyped == NoRow \in Row /\ NoRow.replaces = {}
<1>1. 0 \in 0 .. MaxMessages + 1 /\ 0 \in 0 .. MaxMessages /\ 0 \in 0 .. MaxDay
  BY Constants
<1> QED
  BY <1>1 DEF NoRow, Row

LEMMA DayTyped == ASSUME TypeOK, NEW r \in Runs
                  PROVE  /\ Day(r) \in Row /\ Day(r).replaces = {}
                         /\ Day(r).day = run[r].row.day
BY RowTyped, NoRowTyped DEF Day, Row, NoRow

LEMMA RowMade ==
  ASSUME TypeOK, NEW r \in Runs, NEW first \in 0 .. MaxMessages + 1, NEW last \in 0 .. MaxMessages
  PROVE  LET row == [Day(r) EXCEPT !.first = first, !.last = last] IN
         /\ row \in Row /\ row.first = first /\ row.last = last /\ row.replaces = {}
         /\ row.day = run[r].row.day
<1>1. Day(r) \in Row /\ Day(r).replaces = {} /\ Day(r).day = run[r].row.day
  BY DayTyped
<1> QED
  BY <1>1 DEF Row

LEMMA ChainIs ==
  ASSUME TypeOK, Frontier # {}
  PROVE  /\ Oldest(rows, Chain) \in Chain /\ Newest(rows, Chain) \in Chain
         /\ Chain \subseteq Recorded /\ Chain \subseteq Sums
         /\ UNION {rows[i].about : i \in Chain} \in SUBSET Ids
<1>1. Chain \subseteq Recorded /\ Recorded \subseteq Sums /\ Chain \subseteq Frontier
  BY FrontierRecorded, Constants DEF TypeOK, Recorded, Sums
<1>2. Stored(rows, Frontier, Top) /\ Stored(rows, Chain, Top)
  BY <1>1, FrontierRecorded, RowsStored
<1>3. Chain # {}
  BY <1>2, RunHasOldest DEF Chain
<1>4. Oldest(rows, Chain) \in Chain /\ Newest(rows, Chain) \in Chain
  BY <1>2, <1>3, OldestIs, NewestIs
<1>5. \A i \in Chain : rows[i].about \in SUBSET Ids
  BY <1>1 DEF TypeOK, Row
<1> QED
  BY <1>1, <1>4, <1>5

LEMMA CondensedMade ==
  ASSUME TypeOK, Frontier # {}, NEW r \in Runs
  PROVE  LET row == [Day(r) EXCEPT !.first = rows[Oldest(rows, Chain)].first,
                                   !.last = rows[Newest(rows, Chain)].last,
                                   !.about = UNION {rows[i].about : i \in Chain},
                                   !.replaces = Chain]
         IN  /\ row \in Row
             /\ row.first = rows[Oldest(rows, Chain)].first
             /\ row.last = rows[Newest(rows, Chain)].last
             /\ row.about = UNION {rows[i].about : i \in Chain}
             /\ row.replaces = Chain
             /\ row.day = run[r].row.day
<1> DEFINE f == rows[Oldest(rows, Chain)].first
           l == rows[Newest(rows, Chain)].last
           a == UNION {rows[i].about : i \in Chain}
<1>1. Day(r) \in Row /\ Day(r).day = run[r].row.day
  BY DayTyped
<1>2. f \in 0 .. MaxMessages + 1 /\ l \in 0 .. MaxMessages
  <2>1. Oldest(rows, Chain) \in Sums /\ Newest(rows, Chain) \in Sums
    BY ChainIs
  <2> QED
    BY <2>1 DEF TypeOK, Row
<1>3. a \in SUBSET Ids /\ Chain \in SUBSET Sums
  BY ChainIs
<1> HIDE DEF f, l, a
<1>4. LET row == [Day(r) EXCEPT !.first = f, !.last = l, !.about = a, !.replaces = Chain]
      IN  /\ row \in Row /\ row.first = f /\ row.last = l /\ row.about = a
          /\ row.replaces = Chain /\ row.day = run[r].row.day
  BY <1>1, <1>2, <1>3 DEF Row
<1> QED
  BY <1>4 DEF f, l, a

-------------------------------------------------------------------------------
\* Types.

\* What a recorded row does to the table.
LEMMA RecordIs ==
  ASSUME TypeInv, NEW r \in Runs, Record(run[r].row)
  PROVE  /\ recorded \in Nat /\ recorded + 1 \in Sums /\ recorded' = recorded + 1
         /\ Recorded' = Recorded \cup {recorded + 1} /\ recorded + 1 \notin Recorded
         /\ rows' \in [Sums -> Row] /\ rows'[recorded + 1] = run[r].row
         /\ \A i \in Recorded : rows'[i] = rows[i]
         /\ Recorded \subseteq Sums /\ recorded' \in 0 .. MaxSummaries
<1>1. /\ recorded \in 0 .. MaxSummaries /\ recorded < MaxSummaries /\ MaxSummaries \in Nat
      /\ recorded' = recorded + 1 /\ rows' = [rows EXCEPT ![recorded + 1] = run[r].row]
      /\ rows \in [Sums -> Row] /\ run[r].row \in Row
  BY Constants, RowTyped DEF TypeInv, TypeOK, Record
<1>2. recorded + 1 \in Sums /\ Recorded \subseteq Sums /\ recorded + 1 \notin Recorded
      /\ Recorded' = Recorded \cup {recorded + 1}
  BY <1>1 DEF Sums, Recorded
<1> QED
  BY <1>1, <1>2

LEMMA RecordTyped ==
  ASSUME TypeInv, NEW r \in Runs, Record(run[r].row)
  PROVE  /\ recorded' \in 0 .. MaxSummaries /\ rows' \in [Sums -> Row]
         /\ \A i \in 1 .. recorded' : rows'[i].replaces \subseteq 1 .. (i - 1)
<1>1. \A i \in Recorded : rows[i].replaces \subseteq 1 .. (i - 1)
  BY DEF TypeInv, TypeOK, Recorded
<1>2. run[r].row.replaces \subseteq Recorded
  BY DEF TypeInv, InProgress
<1>3. \A i \in Recorded' : rows'[i].replaces \subseteq 1 .. (i - 1)
  <2> TAKE i \in Recorded'
  <2>1. CASE i \in Recorded
    BY <1>1, <2>1, RecordIs
  <2>2. CASE i = recorded + 1
    <3>1. (recorded + 1) - 1 = recorded
      BY RecordIs
    <3> QED
      BY <1>2, <2>2, <3>1, RecordIs DEF Recorded
  <2> QED
    BY <2>1, <2>2, RecordIs
<1> QED
  BY <1>3, RecordIs DEF Recorded

LEMMA TypeInit == Init => TypeInv
<1> SUFFICES ASSUME Init PROVE TypeInv
  OBVIOUS
<1>1. NoRow \in Row /\ NoRow.replaces = {}
  BY NoRowTyped
<1>2. NoRun \in RunCall /\ NoRun.pc = "idle" /\ NoRun.row = NoRow
  BY <1>1 DEF NoRun, RunCall
<1>3. NoReader \in ReaderCall
  BY Constants DEF NoReader, ReaderCall
<1>4. 0 \in 0 .. MaxMessages /\ 0 \in 0 .. MaxSummaries /\ 0 \in 0 .. MaxDay /\ 1 .. 0 = {}
  BY Constants
<1> QED
  BY <1>1, <1>2, <1>3, <1>4 DEF Init, TypeInv, TypeOK, InProgress

\* A run's step: another place and row, and the table grown or not.
LEMMA RunStepTyped ==
  ASSUME TypeInv, NEW r \in Runs, RunStep(r)
  PROVE  TypeInv'
<1>0. TypeOK /\ InProgress
  BY DEF TypeInv
<1> USE <1>0
<1>1. Recorded \subseteq Recorded' /\ recorded \in 0 .. MaxSummaries /\ own' = own
  BY Constants, RecordIs DEF RunStep, Start, FindSpan, AskLeaf, RecordLeaf, ReadFrontier,
     AskCondense, RecordCondensed, RunFails, Recorded, TypeOK, transcript, summaries
<1>2. ASSUME NEW pc \in RunPlaces, NEW row \in Row, Turn(r, pc, row),
             pc # "idle" => own # {}, row.replaces \subseteq Recorded
      PROVE  run' \in [Runs -> RunCall] /\ InProgress'
  <2>1. run' \in [Runs -> RunCall]
    BY <1>2, TurnTyped
  <2>2. run' = [run EXCEPT ![r] = [pc |-> pc, row |-> row]] /\ run \in [Runs -> RunCall]
    BY <1>2 DEF Turn, TypeOK
  <2>3. ASSUME NEW s \in Runs
        PROVE  (run'[s].pc # "idle" => own' # {}) /\ run'[s].row.replaces \subseteq Recorded'
    <3>1. CASE s = r
      BY <1>1, <1>2, <2>2, <3>1
    <3>2. CASE s # r
      BY <1>1, <2>2, <3>2 DEF InProgress
    <3> QED
      BY <3>1, <3>2
  <2> QED
    BY <2>1, <2>3 DEF InProgress
<1>3. ASSUME run' \in [Runs -> RunCall] /\ InProgress', UNCHANGED <<summaries, transcript, today, reader>>,
             overlapped' \in BOOLEAN
      PROVE  TypeInv'
  BY <1>3 DEF TypeInv, TypeOK, summaries, transcript
<1>4. ASSUME run' \in [Runs -> RunCall] /\ InProgress', Record(run[r].row),
             UNCHANGED <<transcript, today, reader, overlapped>>
      PROVE  TypeInv'
  BY <1>4, RecordTyped DEF TypeInv, TypeOK, transcript
<1>5. /\ NoRow \in Row /\ NoRow.replaces = {} /\ Day(r) \in Row /\ Day(r).replaces = {}
      /\ run[r].row \in Row /\ run[r].row.replaces \subseteq Recorded
      /\ overlapped \in BOOLEAN
  BY NoRowTyped, DayTyped, RowTyped DEF TypeOK, InProgress
<1>6. run[r].pc # "idle" => own # {}
  BY DEF InProgress
<1>7. CASE Start(r)
  <2>1. [NoRow EXCEPT !.day = today] \in Row /\ [NoRow EXCEPT !.day = today].replaces = {}
    <3>1. today \in 0 .. MaxDay
      BY DEF TypeOK
    <3> QED
      BY <3>1, <1>5 DEF Row, NoRow
  <2>2. overlapped' \in BOOLEAN
    BY <1>5, <1>7 DEF Start
  <2> QED
    BY <1>2, <1>3, <1>7, <2>1, <2>2 DEF Start, RunPlaces
<1>8. CASE FindSpan(r)
  <2>1. CASE Turn(r, "condense", Day(r))
    BY <1>2, <1>3, <1>5, <1>6, <1>8, <2>1 DEF FindSpan, RunPlaces
  <2>2. ASSUME NEW last \in own,
               Turn(r, "span", [Day(r) EXCEPT !.first = NextUncovered, !.last = last])
        PROVE  TypeInv'
    <3>1. last \in 0 .. MaxMessages
      BY Constants DEF TypeOK
    <3>2. UpTo(Frontier) \in 0 .. MaxMessages /\ MaxMessages \in Nat
      BY UpToIs, FrontierRecorded, Constants
    <3>3. NextUncovered \in 0 .. MaxMessages + 1
      BY <3>2 DEF NextUncovered
    <3> DEFINE row == [Day(r) EXCEPT !.first = NextUncovered, !.last = last]
    <3>4. row \in Row /\ row.replaces = {}
      BY <3>1, <3>3, RowMade
    <3> HIDE DEF row
    <3>5. Turn(r, "span", row)
      BY <2>2 DEF row
    <3> QED
      BY <1>2, <1>3, <1>5, <1>6, <1>8, <3>4, <3>5 DEF FindSpan, RunPlaces
  <2> QED
    BY <1>8, <2>1, <2>2 DEF FindSpan
<1>9. CASE AskLeaf(r)
  <2> DEFINE row == [run[r].row EXCEPT !.about = own \cap Span(run[r].row)]
  <2>1. row \in Row /\ row.replaces = run[r].row.replaces
    <3>1. own \cap Span(run[r].row) \in SUBSET Ids
      BY OwnTyped
    <3> QED
      BY <1>5, <3>1 DEF Row
  <2> HIDE DEF row
  <2>2. Turn(r, "condense", Day(r)) \/ Turn(r, "leafAsked", row)
    BY <1>9 DEF AskLeaf, row
  <2> QED
    BY <1>2, <1>3, <1>5, <1>6, <1>9, <2>1, <2>2 DEF AskLeaf, RunPlaces
<1>10. CASE RecordLeaf(r)
  BY <1>2, <1>4, <1>5, <1>6, <1>10 DEF RecordLeaf, RunPlaces
<1>11. CASE ReadFrontier(r)
  <2>1. CASE Turn(r, "idle", NoRow)
    BY <1>2, <1>3, <1>5, <1>11, <2>1 DEF ReadFrontier, RunPlaces
  <2>2. CASE Frontier # {} /\ ~Turn(r, "idle", NoRow)
    <3> DEFINE row == [Day(r) EXCEPT !.first = rows[Oldest(rows, Chain)].first,
                                     !.last = rows[Newest(rows, Chain)].last,
                                     !.about = UNION {rows[i].about : i \in Chain},
                                     !.replaces = Chain]
    <3>1. row \in Row /\ row.replaces = Chain
      BY <2>2, CondensedMade
    <3>2. Chain \subseteq Recorded
      BY FrontierRecorded
    <3> HIDE DEF row
    <3>3. Turn(r, "found", row)
      BY <1>11, <2>2 DEF ReadFrontier, row
    <3> QED
      BY <1>2, <1>3, <1>5, <1>6, <1>11, <3>1, <3>2, <3>3 DEF ReadFrontier, RunPlaces
  <2> QED
    BY <1>11, <2>1, <2>2 DEF ReadFrontier
<1>12. CASE AskCondense(r)
  BY <1>2, <1>3, <1>5, <1>6, <1>12 DEF AskCondense, RunPlaces
<1>13. CASE RecordCondensed(r)
  BY <1>2, <1>4, <1>5, <1>13 DEF RecordCondensed, RunPlaces
<1>14. CASE RunFails(r)
  BY <1>2, <1>3, <1>5, <1>14 DEF RunFails, RunPlaces
<1> QED
  BY <1>7, <1>8, <1>9, <1>10, <1>11, <1>12, <1>13, <1>14 DEF RunStep

LEMMA ReadStepTyped ==
  ASSUME TypeInv, NEW q \in Readers, ReadStep(q)
  PROVE  TypeInv'
<1>0. TypeOK
  BY DEF TypeInv
<1>1. ASSUME NEW call \in ReaderCall, Answer(q, call) PROVE TypeInv'
  BY <1>0, <1>1, AnswerTyped
     DEF TypeInv, TypeOK, InProgress, Answer, transcript, summaries, Recorded
<1>2. /\ own \in SUBSET Ids /\ Frontier \in SUBSET Sums /\ Ids \subseteq Nat
      /\ 0 \in 0 .. MaxMessages /\ own \in SUBSET (0 .. MaxMessages)
  <2>1. Recorded \subseteq Sums
    BY <1>0, Constants DEF Recorded, Sums, TypeOK
  <2> QED
    BY <1>0, <2>1, OwnTyped, FrontierRecorded, Constants DEF Ids
<1>3. reader[q] \in ReaderCall
  BY <1>0 DEF TypeOK
<1>4. NoReader \in ReaderCall
  BY <1>2 DEF NoReader, ReaderCall
<1>5. \A some \in SUBSET Ids : NewestOf(some) \subseteq SUBSET Ids
  BY DEF NewestOf
<1>6. CASE ReadFresh(q)
  <2>1. [NoReader EXCEPT !.pc = "fresh", !.asked = own, !.recap = Frontier] \in ReaderCall
    BY <1>2, <1>4 DEF NoReader, ReaderCall
  <2> QED
    BY <1>1, <1>6, <2>1 DEF ReadFresh
<1>7. CASE FreshTail(q)
  <2>1. CASE Answer(q, [reader[q] EXCEPT !.pc = "done"])
    <3>1. [reader[q] EXCEPT !.pc = "done"] \in ReaderCall
      BY <1>3 DEF ReaderCall
    <3> QED
      BY <1>1, <2>1, <3>1
  <2>2. CASE \E kept \in SUBSET reader[q].recap, tail \in SUBSET Ids : \E rest :
               Answer(q, [reader[q] EXCEPT !.pc = "done", !.given = tail, !.recap = kept,
                                           !.whole = (tail = rest),
                                           !.apart = (kept = reader[q].recap)])
    <3>a. PICK kept \in SUBSET reader[q].recap, tail \in SUBSET Ids :
            \E rest : Answer(q, [reader[q] EXCEPT !.pc = "done", !.given = tail, !.recap = kept,
                                                  !.whole = (tail = rest),
                                                  !.apart = (kept = reader[q].recap)])
      BY <2>2
    <3>0. PICK rest :
            Answer(q, [reader[q] EXCEPT !.pc = "done", !.given = tail, !.recap = kept,
                                        !.whole = (tail = rest),
                                        !.apart = (kept = reader[q].recap)])
      BY <3>a
    <3>1. reader[q].recap \in SUBSET Sums
      BY <1>3 DEF ReaderCall
    <3>2. (tail = rest) \in BOOLEAN /\ (kept = reader[q].recap) \in BOOLEAN
      OBVIOUS
    <3>3. ASSUME NEW w \in BOOLEAN, NEW a \in BOOLEAN
          PROVE  [reader[q] EXCEPT !.pc = "done", !.given = tail, !.recap = kept,
                                   !.whole = w, !.apart = a] \in ReaderCall
      BY <1>3, <3>1 DEF ReaderCall
    <3> QED
      BY <1>1, <3>0, <3>2, <3>3
  <2>3. CASE own # {}
    <3>1. PICK kept \in SUBSET reader[q].recap :
            LET rest == {m \in own : m > (IF kept = {} THEN 0 ELSE UpTo(kept))} IN
            \E tail \in NewestOf(rest) :
              Answer(q, [reader[q] EXCEPT !.pc = "done", !.given = tail, !.recap = kept,
                                          !.whole = (tail = rest),
                                          !.apart = (kept = reader[q].recap)])
      BY <1>7, <2>3 DEF FreshTail
    <3> DEFINE rest == {m \in own : m > (IF kept = {} THEN 0 ELSE UpTo(kept))}
    <3>2. rest \in SUBSET Ids
      BY <1>2
    <3>3. PICK tail \in NewestOf(rest) :
            Answer(q, [reader[q] EXCEPT !.pc = "done", !.given = tail, !.recap = kept,
                                        !.whole = (tail = rest),
                                        !.apart = (kept = reader[q].recap)])
      BY <3>1
    <3> HIDE DEF rest
    <3>4. tail \in SUBSET Ids
      BY <3>2, <3>3, <1>5
    <3> QED
      BY <2>2, <3>3, <3>4
  <2> QED
    BY <1>7, <2>1, <2>3 DEF FreshTail
<1>8. CASE ReadTail(q)
  <2>1. PICK tail \in NewestOf(own), b \in {0} \cup own :
          Answer(q, [NoReader EXCEPT !.pc = IF b = 0 THEN "recap" ELSE "boundary",
                                     !.asked = own, !.given = tail, !.boundary = b,
                                     !.whole = (tail = own)])
    BY <1>8 DEF ReadTail
  <2>2. tail \in SUBSET Ids /\ b \in 0 .. MaxMessages /\ (tail = own) \in BOOLEAN
    BY <1>2, <1>5
  <2>3. ASSUME NEW pc \in {"recap", "boundary"}, NEW w \in BOOLEAN
        PROVE  [NoReader EXCEPT !.pc = pc, !.asked = own, !.given = tail, !.boundary = b,
                                !.whole = w] \in ReaderCall
    BY <1>2, <1>4, <2>2 DEF ReaderCall
  <2>4. (IF b = 0 THEN "recap" ELSE "boundary") \in {"recap", "boundary"}
    OBVIOUS
  <2> QED
    BY <1>1, <2>1, <2>2, <2>3, <2>4
<1>9. CASE CheckBoundary(q)
  <2>1. ASSUME NEW pc \in {"covered", "recap"} PROVE [reader[q] EXCEPT !.pc = pc] \in ReaderCall
    BY <1>3 DEF ReaderCall
  <2>2. (IF CoversUpTo(reader[q].boundary) THEN "covered" ELSE "recap") \in {"covered", "recap"}
    OBVIOUS
  <2> QED
    BY <1>1, <1>9, <2>1, <2>2 DEF CheckBoundary
<1>10. CASE ReadAfterBoundary(q)
  <2> DEFINE rest == {m \in own : m > reader[q].boundary}
  <2>1. PICK tail \in NewestOf(rest) :
          Answer(q, [reader[q] EXCEPT !.pc = "recap", !.given = tail, !.whole = (tail = rest)])
    BY <1>10 DEF ReadAfterBoundary
  <2>2. tail \in SUBSET Ids /\ (tail = rest) \in BOOLEAN
    <3>1. rest \in SUBSET Ids
      BY <1>2
    <3> QED
      BY <1>5, <3>1
  <2>3. ASSUME NEW w \in BOOLEAN
        PROVE  [reader[q] EXCEPT !.pc = "recap", !.given = tail, !.whole = w] \in ReaderCall
    BY <1>3, <2>2 DEF ReaderCall
  <2> QED
    BY <1>1, <2>1, <2>2, <2>3
<1>11. CASE ReadRecap(q)
  <2>1. [reader[q] EXCEPT !.pc = "done", !.recap = Frontier] \in ReaderCall
    BY <1>2, <1>3 DEF ReaderCall
  <2>2. [reader[q] EXCEPT !.pc = "done", !.whole = FALSE] \in ReaderCall
    BY <1>3 DEF ReaderCall
  <2> QED
    BY <1>1, <1>11, <2>1, <2>2 DEF ReadRecap
<1>12. CASE EndRead(q)
  BY <1>1, <1>4, <1>12 DEF EndRead
<1> QED
  BY <1>6, <1>7, <1>8, <1>9, <1>10, <1>11, <1>12 DEF ReadStep

LEMMA AppendTyped == TypeInv /\ AppendMessage => TypeInv'
<1> SUFFICES ASSUME TypeInv, AppendMessage PROVE TypeInv'
  OBVIOUS
<1>1. /\ issued \in 0 .. MaxMessages /\ own \subseteq 1 .. issued /\ MaxMessages \in Nat
      /\ issued < MaxMessages /\ issued' = issued + 1
      /\ own' = own \/ own' = own \cup {issued + 1}
  BY Constants DEF TypeInv, TypeOK, AppendMessage, NextMessage
<1>2. issued' \in 0 .. MaxMessages /\ own' \subseteq 1 .. issued' /\ (own # {} => own' # {})
  <2>1. issued' \in 0 .. MaxMessages /\ 1 .. issued \subseteq 1 .. issued' /\ issued + 1 \in 1 .. issued'
    BY <1>1
  <2> QED
    BY <1>1, <2>1
<1>3. UNCHANGED <<summaries, today, run, reader, overlapped>>
  BY DEF AppendMessage
<1> QED
  BY <1>2, <1>3 DEF TypeInv, TypeOK, InProgress, summaries, Recorded

LEMMA TypeStep == TypeInv /\ [Next]_vars => TypeInv'
<1> SUFFICES ASSUME TypeInv, [Next]_vars PROVE TypeInv'
  OBVIOUS
<1>1. CASE NewDay
  <2>1. today' \in 0 .. MaxDay
    BY <1>1, Constants DEF NewDay, TypeInv, TypeOK
  <2> QED
    BY <1>1, <2>1 DEF NewDay, TypeInv, TypeOK, InProgress, summaries, transcript, Recorded
<1>2. CASE UNCHANGED vars
  BY <1>2 DEF vars, TypeInv, TypeOK, InProgress, summaries, transcript, Recorded
<1> QED
  BY <1>1, <1>2, AppendTyped, RunStepTyped, ReadStepTyped DEF Next

\* Every variable keeps its type.
THEOREM TypeCorrect == Spec => []TypeOK
<1>1. TypeInv => TypeOK
  BY DEF TypeInv
<1> QED
  BY <1>1, TypeInit, TypeStep, PTL DEF Spec

-------------------------------------------------------------------------------
\* Ranges: what rows, and the rows that runs are about to record, stand for.

\* It begins at or after the session's first message and ends in the transcript.
Sound(row) ==
  /\ own # {} /\ First <= row.first
  /\ row.first <= row.last /\ row.last <= issued

Tells(row) == row.about = own \cap Span(row)

GapFree(F) == \A x \in CoveredBy(rows, F) : First .. x \subseteq CoveredBy(rows, F)

\* What a run holds starts where something covered ended, and covers the rows it
\* replaces.
RunSound(r) ==
  /\ run[r].pc \in {"span", "leafAsked", "found", "condenseAsked"} =>
       Sound(run[r].row) /\ First .. (run[r].row.first - 1) \subseteq Covered
  /\ run[r].pc \in {"leafAsked", "found", "condenseAsked"} => Tells(run[r].row)
  /\ \A k \in run[r].row.replaces : Span(rows[k]) \subseteq Span(run[r].row)

RangeInv ==
  /\ \A i \in Recorded : Sound(rows[i]) /\ Tells(rows[i])
  /\ GapFree(Frontier)
  /\ \A r \in Runs : RunSound(r)

LEMMA RangeInit == Init => RangeInv
<1> SUFFICES ASSUME Init PROVE RangeInv
  OBVIOUS
<1>1. Recorded = {} /\ Frontier = {}
  BY DEF Init, Recorded, Frontier
<1>2. GapFree(Frontier)
  BY <1>1 DEF GapFree, CoveredBy
<1>3. \A r \in Runs : RunSound(r)
  BY DEF Init, RunSound, NoRun, NoRow
<1> QED
  BY <1>1, <1>2, <1>3 DEF RangeInv

LEMMA NothingRecorded ==
  ASSUME UNCHANGED summaries
  PROVE  /\ Recorded' = Recorded /\ Frontier' = Frontier /\ Covered' = Covered
         /\ Chain' = Chain /\ rows' = rows
BY DEF summaries, Recorded, Frontier, Covered, Chain

LEMMA NothingSaid == ASSUME UNCHANGED transcript PROVE First' = First /\ own' = own /\ issued' = issued
BY DEF transcript, First

\* A new message is the last: the first one stays.
LEMMA Said ==
  ASSUME TypeOK, AppendMessage
  PROVE  /\ issued' = issued + 1 /\ issued \in Nat
         /\ own \subseteq own' /\ own' \subseteq own \cup {issued + 1}
         /\ own # {} => First' = First /\ own' # {}
<1>1. /\ issued \in Nat /\ issued' = issued + 1 /\ own \subseteq 1 .. issued
      /\ own' = own \/ own' = own \cup {issued + 1}
  BY Constants DEF TypeOK, AppendMessage, NextMessage
<1>2. ASSUME own # {} PROVE First' = First
  <2>1. First \in own /\ First \in Nat /\ \A m \in own : First <= m
    BY <1>2, FirstIs
  <2>0. own' \subseteq Nat
    <3>1. 1 .. issued \subseteq Nat /\ issued + 1 \in Nat
      BY <1>1
    <3> QED
      BY <1>1, <3>1
  <2>2. First \in own' /\ \A m \in own' : First <= m
    <3>1. First <= issued + 1
      BY <1>1, <2>1
    <3> QED
      BY <1>1, <2>1, <3>1
  <2>3. \A f \in own' : (\A m \in own' : f <= m) => f = First
    BY <2>0, <2>2
  <2>4. First' = CHOOSE m \in own' : \A n \in own' : m <= n
    BY DEF First
  <2> QED
    BY <2>2, <2>3, <2>4
<1> QED
  BY <1>1, <1>2

\* so what a row stands for and tells of is the same.
LEMMA RowStays ==
  ASSUME TypeOK, AppendMessage, NEW row, Sound(row), row.first \in Nat, row.last \in Nat
  PROVE  /\ own' # {} /\ First' <= row.first /\ row.first <= row.last /\ row.last <= issued'
         /\ own' \cap Span(row) = own \cap Span(row)
<1>1. own # {} /\ First <= row.first /\ row.first <= row.last /\ row.last <= issued
  BY DEF Sound
<1>2. issued' = issued + 1 /\ issued \in Nat /\ own \subseteq own' /\ own' \subseteq own \cup {issued + 1}
      /\ First' = First /\ own' # {}
  BY <1>1, Said
<1>3. issued + 1 \notin Span(row)
  BY <1>1, <1>2 DEF Span
<1> QED
  BY <1>1, <1>2, <1>3

LEMMA RecordedTyped ==
  ASSUME TypeOK
  PROVE  /\ \A i \in Recorded : rows[i].first \in Nat /\ rows[i].last \in Nat
         /\ \A r \in Runs : run[r].row.first \in Nat /\ run[r].row.last \in Nat
         /\ issued \in Nat
<1>1. Recorded \subseteq Sums
  BY Constants DEF TypeOK, Recorded, Sums
<1>2. \A i \in Recorded : rows[i].first \in 0 .. MaxMessages + 1 /\ rows[i].last \in 0 .. MaxMessages
  BY <1>1 DEF TypeOK, Row
<1>3. \A r \in Runs : run[r].row.first \in 0 .. MaxMessages + 1 /\ run[r].row.last \in 0 .. MaxMessages
  BY RowTyped DEF Row
<1> QED
  BY <1>2, <1>3 DEF TypeOK

LEMMA RangeAppend == TypeOK /\ RangeInv /\ AppendMessage => RangeInv'
<1> SUFFICES ASSUME TypeOK, RangeInv, AppendMessage PROVE RangeInv'
  OBVIOUS
<1>1. /\ Recorded' = Recorded /\ Frontier' = Frontier /\ Covered' = Covered
      /\ rows' = rows /\ run' = run
  BY NothingRecorded DEF AppendMessage
<1>2. ASSUME NEW i \in Recorded PROVE (Sound(rows[i]) /\ Tells(rows[i]))'
  <2>1. Sound(rows[i]) /\ Tells(rows[i]) /\ rows[i].first \in Nat /\ rows[i].last \in Nat
    BY RecordedTyped DEF RangeInv
  <2> QED
    BY <1>1, <2>1, RowStays DEF Sound, Tells
<1>3. GapFree(Frontier)'
  <2> SUFFICES ASSUME NEW x \in Covered PROVE First' .. x \subseteq Covered
    BY <1>1 DEF GapFree, Covered
  <2>1. PICK i \in Frontier : x \in Span(rows[i])
    BY DEF Covered, CoveredBy
  <2>2. own # {}
    BY <2>1, FrontierRecorded DEF RangeInv, Sound
  <2> QED
    BY <2>2, Said DEF RangeInv, GapFree, Covered
<1>4. ASSUME NEW r \in Runs PROVE RunSound(r)'
  <2>1. run[r].row.first \in Nat /\ run[r].row.last \in Nat /\ RunSound(r)
    BY RecordedTyped DEF RangeInv
  <2>2. ASSUME Sound(run[r].row)
        PROVE  /\ Sound(run[r].row)' /\ First' = First
               /\ own' \cap Span(run[r].row) = own \cap Span(run[r].row)
    BY <1>1, <2>1, <2>2, RowStays, Said DEF Sound
  <2> QED
    BY <1>1, <2>1, <2>2 DEF RunSound, Tells
<1> QED
  BY <1>1, <1>2, <1>3, <1>4 DEF RangeInv

\* A run that moves without recording.
LEMMA RangeTurn ==
  ASSUME TypeOK, RangeInv, NEW r \in Runs, NEW pc, NEW row, Turn(r, pc, row),
         UNCHANGED <<transcript, summaries>>,
         /\ pc \in {"span", "leafAsked", "found", "condenseAsked"} =>
              Sound(row) /\ First .. (row.first - 1) \subseteq Covered
         /\ pc \in {"leafAsked", "found", "condenseAsked"} => Tells(row)
         /\ \A k \in row.replaces : Span(rows[k]) \subseteq Span(row)
  PROVE  RangeInv'
<1>1. /\ Recorded' = Recorded /\ Frontier' = Frontier /\ Covered' = Covered /\ rows' = rows
      /\ First' = First /\ own' = own /\ issued' = issued
  BY NothingRecorded, NothingSaid
<1>2. run' = [run EXCEPT ![r] = [pc |-> pc, row |-> row]] /\ run \in [Runs -> RunCall]
  BY DEF Turn, TypeOK
<1>3. ASSUME NEW s \in Runs PROVE RunSound(s)'
  <2>1. CASE s = r
    BY <1>1, <1>2, <2>1 DEF RunSound, Sound, Tells
  <2>2. CASE s # r
    <3>1. run'[s] = run[s] /\ RunSound(s)
      BY <1>2, <2>2 DEF RangeInv
    <3> QED
      BY <1>1, <3>1 DEF RunSound, Sound, Tells
  <2> QED
    BY <2>1, <2>2
<1> QED
  BY <1>1, <1>3 DEF RangeInv, Sound, Tells, GapFree

\* What a recorded row does to the frontier: it hides what it replaces, and
\* covers all that and its own range.
LEMMA Grown ==
  ASSUME TypeInv, RangeInv, NEW r \in Runs, Record(run[r].row)
  PROVE  /\ Frontier' = (Frontier \ run[r].row.replaces) \cup {recorded + 1}
         /\ Covered' = Covered \cup Span(run[r].row)
<1> DEFINE new == recorded + 1
           row == run[r].row
<1>1. /\ Recorded' = Recorded \cup {new} /\ new \notin Recorded /\ rows'[new] = row
      /\ \A i \in Recorded : rows'[i] = rows[i]
  BY RecordIs
<1>2. row.replaces \subseteq Recorded /\ \A i \in Recorded : rows[i].replaces \subseteq Recorded
  <2>1. row.replaces \subseteq Recorded
    BY DEF TypeInv, InProgress
  <2>2. ASSUME NEW i \in Recorded PROVE rows[i].replaces \subseteq Recorded
    <3>1. rows[i].replaces \subseteq 1 .. (i - 1) /\ recorded \in Nat /\ i \in 1 .. recorded
      BY RecordIs DEF TypeInv, TypeOK, Recorded
    <3>2. 1 .. (i - 1) \subseteq 1 .. recorded
      BY <3>1
    <3> QED
      BY <3>1, <3>2 DEF Recorded
  <2> QED
    BY <2>1, <2>2
<1>3. \A k \in row.replaces : Span(rows[k]) \subseteq Span(row)
  BY DEF RangeInv, RunSound
<1> HIDE DEF new, row
<1>4. Frontier' = {i \in Recorded' : \A j \in Recorded' : i \notin rows'[j].replaces}
  BY DEF Frontier
<1>5. Frontier' = (Frontier \ row.replaces) \cup {new}
  BY <1>1, <1>2, <1>4 DEF Frontier
<1>6. Covered' = UNION {Span(rows'[i]) : i \in Frontier'}
  BY DEF Covered, CoveredBy
<1>7. ASSUME NEW x \in Covered' PROVE x \in Covered \cup Span(row)
  <2>1. PICK i \in Frontier' : x \in Span(rows'[i])
    BY <1>6
  <2>2. CASE i = new
    BY <1>1, <2>1, <2>2
  <2>3. CASE i \in Frontier
    BY <1>1, <2>1, <2>3, FrontierRecorded DEF Covered, CoveredBy
  <2> QED
    BY <1>5, <2>2, <2>3
<1>8. ASSUME NEW x \in Span(row) PROVE x \in Covered'
  BY <1>1, <1>5, <1>6
<1>9. ASSUME NEW x \in Covered PROVE x \in Covered'
  <2>1. PICK i \in Frontier : x \in Span(rows[i])
    BY DEF Covered, CoveredBy
  <2>2. CASE i \in row.replaces
    BY <1>3, <1>8, <2>1, <2>2
  <2>3. CASE i \notin row.replaces
    BY <1>1, <1>5, <1>6, <2>1, <2>3, FrontierRecorded
  <2> QED
    BY <2>2, <2>3
<1> QED
  BY <1>5, <1>7, <1>8, <1>9 DEF row, new

LEMMA RangeRecord ==
  ASSUME TypeInv, RangeInv, NEW r \in Runs, Record(run[r].row), UNCHANGED transcript,
         run[r].pc \in {"leafAsked", "condenseAsked"},
         NEW pc \in {"leaf", "idle"}, NEW row, row.replaces = {}, Turn(r, pc, row)
  PROVE  RangeInv'
<1> DEFINE new == recorded + 1
<1>0. TypeOK
  BY DEF TypeInv
<1>1. /\ Recorded' = Recorded \cup {new} /\ new \notin Recorded /\ rows'[new] = run[r].row
      /\ \A i \in Recorded : rows'[i] = rows[i]
  BY RecordIs
<1>2. First' = First /\ own' = own /\ issued' = issued
  BY NothingSaid
<1>3. Sound(run[r].row) /\ Tells(run[r].row) /\ First .. (run[r].row.first - 1) \subseteq Covered
  BY DEF RangeInv, RunSound
<1>4. Covered' = Covered \cup Span(run[r].row)
  BY Grown
<1>5. ASSUME NEW i \in Recorded' PROVE (Sound(rows[i]) /\ Tells(rows[i]))'
  <2>1. CASE i = new
    BY <1>1, <1>2, <1>3, <2>1 DEF Sound, Tells
  <2>2. CASE i \in Recorded
    <3>1. Sound(rows[i]) /\ Tells(rows[i])
      BY <2>2 DEF RangeInv
    <3> QED
      BY <1>1, <1>2, <2>2, <3>1 DEF Sound, Tells
  <2> QED
    BY <1>1, <2>1, <2>2
<1>6. GapFree(Frontier)'
  <2> SUFFICES ASSUME NEW x \in Covered' PROVE First .. x \subseteq Covered'
    BY <1>2 DEF GapFree, Covered
  <2>1. CASE x \in Covered
    BY <1>4, <2>1 DEF RangeInv, GapFree, Covered
  <2>2. CASE x \in Span(run[r].row)
    <3> DEFINE f == run[r].row.first
               l == run[r].row.last
    <3>1. f \in Nat /\ l \in Nat /\ x \in f .. l /\ First \in Nat
      BY <1>0, <1>3, <2>2, RecordedTyped, FirstIs DEF Span, Sound
    <3>2. First .. (f - 1) \subseteq Covered /\ f .. l \subseteq Covered'
      BY <1>3, <1>4 DEF Span
    <3> HIDE DEF f, l
    <3>3. ASSUME NEW y \in First .. x PROVE y \in Covered'
      <4>1. y \in First .. (f - 1) \/ y \in f .. l
        BY <3>1
      <4> QED
        BY <1>4, <3>2, <4>1
    <3> QED
      BY <3>3
  <2> QED
    BY <1>4, <2>1, <2>2
<1>7. run' = [run EXCEPT ![r] = [pc |-> pc, row |-> row]] /\ run \in [Runs -> RunCall]
  BY <1>0 DEF Turn, TypeOK
<1>8. ASSUME NEW s \in Runs PROVE RunSound(s)'
  <2>1. CASE s = r
    BY <1>7, <2>1 DEF RunSound
  <2>2. CASE s # r
    <3>1. run'[s] = run[s] /\ RunSound(s) /\ run[s].row.replaces \subseteq Recorded
      BY <1>7, <2>2 DEF RangeInv, TypeInv, InProgress
    <3> QED
      BY <1>1, <1>2, <1>4, <3>1 DEF RunSound, Sound, Tells
  <2> QED
    BY <2>1, <2>2
<1> QED
  BY <1>5, <1>6, <1>8 DEF RangeInv

\* The next leaf begins where the covered prefix ends.
LEMMA LeafFound ==
  ASSUME TypeOK, RangeInv, NEW last \in own, last >= NextUncovered, NEW row,
         row.first = NextUncovered, row.last = last
  PROVE  Sound(row) /\ First .. (row.first - 1) \subseteq Covered
<1>1. /\ UpTo(Frontier) \in 0 .. MaxMessages /\ First <= UpTo(Frontier) + 1
      /\ First .. UpTo(Frontier) \subseteq Covered
  BY UpToIs, FrontierRecorded DEF Covered
<1>2. (UpTo(Frontier) + 1) - 1 = UpTo(Frontier)
  BY <1>1, Constants
<1>3. last <= issued
  BY DEF TypeOK
<1> QED
  BY <1>1, <1>2, <1>3 DEF Sound, NextUncovered

\* The oldest run of the frontier is told of by one row from its first to its
\* last message.
LEMMA ChainFound ==
  ASSUME TypeOK, RangeInv, Frontier # {}, NEW row,
         row.first = rows[Oldest(rows, Chain)].first,
         row.last = rows[Newest(rows, Chain)].last,
         row.about = UNION {rows[i].about : i \in Chain},
         row.replaces = Chain
  PROVE  /\ Sound(row) /\ First .. (row.first - 1) \subseteq Covered /\ Tells(row)
         /\ \A k \in row.replaces : Span(rows[k]) \subseteq Span(row)
<1>1. /\ Oldest(rows, Chain) \in Chain /\ Newest(rows, Chain) \in Chain
      /\ Chain \subseteq Recorded /\ Chain \subseteq Frontier
  BY ChainIs, FrontierRecorded
<1>2. \A i \in Recorded : /\ Sound(rows[i]) /\ Tells(rows[i])
                          /\ rows[i].first \in Nat /\ rows[i].last \in Nat
  BY RecordedTyped DEF RangeInv
<1>3. CoveredBy(rows, Chain) = Span(row)
  <2>1. Stored(rows, Frontier, Top) /\ \A i \in Frontier : rows[i].first <= rows[i].last
    BY <1>2, FrontierRecorded, RowsStored DEF Sound
  <2> QED
    BY <2>1, RunIsWhole DEF Chain, Span
<1>4. \A k \in Chain : Span(rows[k]) \subseteq Span(row)
  BY <1>3 DEF CoveredBy
<1>5. Tells(row)
  <2>1. \A i \in Chain : rows[i].about = own \cap Span(rows[i])
    BY <1>1, <1>2 DEF Tells
  <2> QED
    BY <1>3, <2>1 DEF Tells, CoveredBy
<1>6. /\ row.first \in Nat /\ row.last \in Nat /\ own # {} /\ First <= row.first
      /\ row.last <= issued /\ First \in Nat
  BY <1>1, <1>2, FirstIs DEF Sound
<1>7. row.first \in Span(row) /\ row.first <= row.last
  <2>1. rows[Oldest(rows, Chain)].first \in Span(rows[Oldest(rows, Chain)])
    BY <1>1, <1>2 DEF Span, Sound
  <2>2. row.first \in Span(row)
    BY <1>1, <1>4, <2>1
  <2> QED
    BY <1>6, <2>2 DEF Span
<1>8. First .. (row.first - 1) \subseteq Covered
  <2>1. row.first \in Covered
    BY <1>1, <1>3, <1>7 DEF Covered, CoveredBy
  <2>2. First .. row.first \subseteq Covered
    BY <2>1 DEF RangeInv, GapFree, Covered
  <2>3. First .. (row.first - 1) \subseteq First .. row.first
    BY <1>6
  <2> QED
    BY <2>2, <2>3
<1> QED
  BY <1>4, <1>5, <1>6, <1>7, <1>8 DEF Sound

LEMMA RangeRun ==
  ASSUME TypeInv, RangeInv, NEW r \in Runs, RunStep(r)
  PROVE  RangeInv'
<1>0. TypeOK /\ RunSound(r)
  BY DEF TypeInv, RangeInv
<1> USE <1>0
<1>1. NoRow.replaces = {} /\ Day(r).replaces = {}
  BY NoRowTyped, DayTyped
<1>2. ASSUME NEW pc \in {"idle", "leaf", "condense"}, NEW row, row.replaces = {}, Turn(r, pc, row),
             UNCHANGED <<transcript, summaries>>
      PROVE  RangeInv'
  BY <1>2, RangeTurn
<1>3. CASE Start(r)
  <2>1. [NoRow EXCEPT !.day = today].replaces = {}
    BY DEF NoRow
  <2> QED
    BY <1>2, <1>3, <2>1 DEF Start
<1>4. CASE FindSpan(r)
  <2>1. ASSUME NEW last \in own, last >= NextUncovered,
               Turn(r, "span", [Day(r) EXCEPT !.first = NextUncovered, !.last = last])
        PROVE  RangeInv'
    <3> DEFINE row == [Day(r) EXCEPT !.first = NextUncovered, !.last = last]
    <3>1. row.first = NextUncovered /\ row.last = last /\ row.replaces = {}
      <4>1. Day(r) \in Row
        BY DayTyped
      <4> QED
        BY <1>1, <4>1 DEF Row
    <3>2. Turn(r, "span", row)
      BY <2>1
    <3> HIDE DEF row
    <3>3. Sound(row) /\ First .. (row.first - 1) \subseteq Covered
      BY <2>1, <3>1, LeafFound
    <3> QED
      BY <1>4, <3>1, <3>2, <3>3, RangeTurn DEF FindSpan
  <2> QED
    BY <1>1, <1>2, <1>4, <2>1 DEF FindSpan
<1>5. CASE AskLeaf(r)
  <2>1. CASE Turn(r, "condense", Day(r))
    BY <1>1, <1>2, <1>5, <2>1 DEF AskLeaf
  <2>2. CASE ~Turn(r, "condense", Day(r))
    <3> DEFINE row == [run[r].row EXCEPT !.about = own \cap Span(run[r].row)]
    <3>1. /\ row.first = run[r].row.first /\ row.last = run[r].row.last
          /\ row.replaces = run[r].row.replaces /\ row.about = own \cap Span(run[r].row)
      <4>1. run[r].row \in Row
        BY RowTyped
      <4> QED
        BY <4>1 DEF Row
    <3>2. Turn(r, "leafAsked", row)
      BY <1>5, <2>2 DEF AskLeaf
    <3>3. Sound(run[r].row) /\ First .. (run[r].row.first - 1) \subseteq Covered
      BY <1>5 DEF AskLeaf, RunSound
    <3> HIDE DEF row
    <3>4. Sound(row) /\ Tells(row) /\ Span(row) = Span(run[r].row)
      BY <3>1, <3>3 DEF Sound, Tells, Span
    <3> QED
      BY <1>5, <3>1, <3>2, <3>3, <3>4, RangeTurn DEF AskLeaf, RunSound
  <2> QED
    BY <2>1, <2>2
<1>6. CASE RecordLeaf(r)
  BY <1>1, <1>6, RangeRecord DEF RecordLeaf
<1>7. CASE ReadFrontier(r)
  <2>1. CASE Turn(r, "idle", NoRow)
    BY <1>1, <1>2, <1>7, <2>1 DEF ReadFrontier
  <2>2. CASE Frontier # {} /\ ~Turn(r, "idle", NoRow)
    <3> DEFINE row == [Day(r) EXCEPT !.first = rows[Oldest(rows, Chain)].first,
                                     !.last = rows[Newest(rows, Chain)].last,
                                     !.about = UNION {rows[i].about : i \in Chain},
                                     !.replaces = Chain]
    <3>1. /\ row.first = rows[Oldest(rows, Chain)].first
          /\ row.last = rows[Newest(rows, Chain)].last
          /\ row.about = UNION {rows[i].about : i \in Chain} /\ row.replaces = Chain
      BY <2>2, CondensedMade
    <3>2. Turn(r, "found", row)
      BY <1>7, <2>2 DEF ReadFrontier
    <3> HIDE DEF row
    <3>3. /\ Sound(row) /\ First .. (row.first - 1) \subseteq Covered /\ Tells(row)
          /\ \A k \in row.replaces : Span(rows[k]) \subseteq Span(row)
      BY <2>2, <3>1, ChainFound
    <3> QED
      BY <1>7, <3>2, <3>3, RangeTurn DEF ReadFrontier
  <2> QED
    BY <1>7, <2>1, <2>2 DEF ReadFrontier
<1>8. CASE AskCondense(r)
  <2>1. CASE Turn(r, "idle", NoRow)
    BY <1>1, <1>2, <1>8, <2>1 DEF AskCondense
  <2>2. CASE Turn(r, "condenseAsked", run[r].row)
    BY <1>8, <2>2, RangeTurn DEF AskCondense, RunSound
  <2> QED
    BY <1>8, <2>1, <2>2 DEF AskCondense
<1>9. CASE RecordCondensed(r)
  BY <1>1, <1>9, RangeRecord DEF RecordCondensed
<1>10. CASE RunFails(r)
  BY <1>1, <1>2, <1>10 DEF RunFails
<1> QED
  BY <1>3, <1>4, <1>5, <1>6, <1>7, <1>8, <1>9, <1>10 DEF RunStep

LEMMA RangeUnmoved ==
  RangeInv /\ UNCHANGED <<transcript, summaries, run>> => RangeInv'
<1> SUFFICES ASSUME RangeInv, UNCHANGED <<transcript, summaries, run>> PROVE RangeInv'
  OBVIOUS
<1>1. /\ Recorded' = Recorded /\ Frontier' = Frontier /\ Covered' = Covered /\ rows' = rows
      /\ First' = First /\ own' = own /\ issued' = issued /\ run' = run
  BY NothingRecorded, NothingSaid
<1>2. \A r \in Runs : RunSound(r)' <=> RunSound(r)
  BY <1>1 DEF RunSound, Sound, Tells
<1>3. (\A i \in Recorded : Sound(rows[i]) /\ Tells(rows[i]))'
  BY <1>1 DEF RangeInv, Sound, Tells
<1>4. GapFree(Frontier)'
  BY <1>1 DEF RangeInv, GapFree
<1>5. \A r \in Runs : RunSound(r)
  BY DEF RangeInv
<1>6. \A r \in Runs : RunSound(r)'
  BY <1>2, <1>5
<1> QED
  BY <1>3, <1>4, <1>6 DEF RangeInv

LEMMA ReadersOnlyRead ==
  ASSUME NEW q \in Readers, ReadStep(q)
  PROVE  UNCHANGED <<transcript, summaries, today, run, overlapped>>
BY DEF ReadStep, ReadFresh, FreshTail, ReadTail, CheckBoundary, ReadAfterBoundary,
       ReadRecap, EndRead, Answer

LEMMA RangeStep == TypeInv /\ RangeInv /\ [Next]_vars => RangeInv'
<1> SUFFICES ASSUME TypeInv, RangeInv, [Next]_vars PROVE RangeInv'
  OBVIOUS
<1>1. CASE AppendMessage
  BY <1>1, RangeAppend DEF TypeInv
<1>2. CASE NewDay
  BY <1>2, RangeUnmoved DEF NewDay
<1>3. CASE UNCHANGED vars
  BY <1>3, RangeUnmoved DEF vars
<1>4. ASSUME NEW r \in Runs, RunStep(r) PROVE RangeInv'
  BY <1>4, RangeRun
<1>5. ASSUME NEW q \in Readers, ReadStep(q) PROVE RangeInv'
  BY <1>5, ReadersOnlyRead, RangeUnmoved
<1> QED
  BY <1>1, <1>2, <1>3, <1>4, <1>5 DEF Next

\* A summary tells of exactly the messages of the session in its range, through
\* every condensation (record_session_summary, _run_condense_pass).
THEOREM EachTellsItsRange == Spec => []TellsItsRange
<1>1. RangeInv => TellsItsRange
  BY DEF RangeInv, TellsItsRange, Tells
<1> QED
  BY <1>1, TypeInit, RangeInit, TypeStep, RangeStep, PTL DEF Spec

LEMMA CoveredKept == TypeInv /\ RangeInv /\ [Next]_vars => Covered \subseteq Covered'
<1> SUFFICES ASSUME TypeInv, RangeInv, [Next]_vars PROVE Covered \subseteq Covered'
  OBVIOUS
<1>1. ASSUME NEW r \in Runs, Record(run[r].row) PROVE Covered \subseteq Covered'
  BY <1>1, Grown
<1>2. CASE UNCHANGED summaries
  BY <1>2, NothingRecorded
<1>3. ASSUME NEW r \in Runs, RunStep(r) PROVE UNCHANGED summaries \/ Record(run[r].row)
  BY <1>3 DEF RunStep, Start, FindSpan, AskLeaf, RecordLeaf, ReadFrontier, AskCondense,
     RecordCondensed, RunFails
<1>4. UNCHANGED summaries \/ \E r \in Runs : Record(run[r].row)
  BY <1>3, ReadersOnlyRead DEF Next, AppendMessage, NewDay, vars
<1> QED
  BY <1>1, <1>2, <1>4

\* What is covered stays covered and never has a gap (find_session_compaction_span,
\* _run_leaf_pass, _run_condense_pass), with any number of overlapping runs.
THEOREM CoverageOnlyGrows == Spec => CoverageGrows
<1>1. TypeInv /\ RangeInv /\ TypeInv' /\ RangeInv' /\ [Next]_vars =>
        [/\ Covered \subseteq Covered'
         /\ \A x \in Covered' : First' .. x \subseteq Covered']_vars
  BY CoveredKept DEF RangeInv, GapFree, Covered
<1> QED
  BY <1>1, TypeInit, RangeInit, TypeStep, RangeStep, PTL DEF Spec, CoverageGrows

-------------------------------------------------------------------------------
\* Readers.

\* What a reader holds between its connections, as far as it goes on using it.
CallSound(call) ==
  /\ call.asked \subseteq own /\ call.recap \subseteq Recorded
  /\ call.pc = "fresh" => GapFree(call.recap)
  /\ call.pc = "boundary" =>
       call.boundary \in own /\ (call.whole => call.asked \subseteq call.given)
  /\ call.pc = "covered" => call.boundary \in own /\ First .. call.boundary \subseteq Covered
  /\ call.pc = "recap" => (call.whole => call.asked \subseteq call.given \cup Covered)
  /\ call.pc \in {"boundary", "covered", "recap"} => ~call.apart
  /\ call.pc = "done" =>
       /\ call.whole => call.asked \subseteq call.given \cup CoveredBy(rows, call.recap)
       /\ call.apart => call.given \cap CoveredBy(rows, call.recap) = {}

ReadInv == \A q \in Readers : CallSound(reader[q])

LEMMA ReadInit == Init => ReadInv
BY DEF Init, ReadInv, CallSound, NoReader

\* What the rest of the system does meanwhile: what was there is still there.
LEMMA WorldStays ==
  ASSUME TypeInv, RangeInv, [Next]_vars
  PROVE  /\ Recorded \subseteq Recorded' /\ own \subseteq own' /\ Covered \subseteq Covered'
         /\ own # {} => First' = First
         /\ \A i \in Recorded : rows'[i] = rows[i]
<1>0. TypeOK
  BY DEF TypeInv
<1>1. Recorded \subseteq Recorded' /\ \A i \in Recorded : rows'[i] = rows[i]
  <2>1. ASSUME NEW r \in Runs, RunStep(r) PROVE UNCHANGED summaries \/ Record(run[r].row)
    BY <2>1 DEF RunStep, Start, FindSpan, AskLeaf, RecordLeaf, ReadFrontier, AskCondense,
       RecordCondensed, RunFails
  <2>2. UNCHANGED summaries \/ \E r \in Runs : Record(run[r].row)
    BY <2>1, ReadersOnlyRead DEF Next, AppendMessage, NewDay, vars
  <2>3. CASE UNCHANGED summaries
    BY <2>3, NothingRecorded
  <2>4. ASSUME NEW r \in Runs, Record(run[r].row)
        PROVE  Recorded \subseteq Recorded' /\ \A i \in Recorded : rows'[i] = rows[i]
    BY <2>4, RecordIs
  <2> QED
    BY <2>2, <2>3, <2>4
<1>2. own \subseteq own' /\ (own # {} => First' = First)
  <2>1. ASSUME NEW r \in Runs, RunStep(r) PROVE UNCHANGED transcript
    BY <2>1 DEF RunStep, Start, FindSpan, AskLeaf, RecordLeaf, ReadFrontier, AskCondense,
       RecordCondensed, RunFails
  <2>2. UNCHANGED transcript \/ AppendMessage
    BY <2>1, ReadersOnlyRead DEF Next, NewDay, vars
  <2>3. CASE UNCHANGED transcript
    BY <2>3, NothingSaid
  <2>4. CASE AppendMessage
    BY <1>0, <2>4, Said
  <2> QED
    BY <2>2, <2>3, <2>4
<1> QED
  BY <1>1, <1>2, CoveredKept

LEMMA SpansStay ==
  ASSUME TypeInv, RangeInv, [Next]_vars, NEW F \in SUBSET Recorded
  PROVE  CoveredBy(rows', F) = CoveredBy(rows, F)
BY WorldStays DEF CoveredBy

\* Rows exist only in a session with messages.
LEMMA CoveredHasOwn ==
  ASSUME RangeInv, NEW F \in SUBSET Recorded, CoveredBy(rows, F) # {}
  PROVE  own # {}
BY DEF RangeInv, Sound, CoveredBy

\* A reader that does not move keeps what it knows.
LEMMA ReaderWaits ==
  ASSUME TypeInv, RangeInv, [Next]_vars, NEW q \in Readers, CallSound(reader[q]),
         reader'[q] = reader[q]
  PROVE  CallSound(reader[q])'
<1> DEFINE call == reader[q]
<1>1. call.asked \subseteq own /\ call.recap \subseteq Recorded
  BY DEF CallSound
<1>2. /\ Recorded \subseteq Recorded' /\ own \subseteq own' /\ Covered \subseteq Covered'
      /\ own # {} => First' = First
  BY WorldStays
<1>3. CoveredBy(rows', call.recap) = CoveredBy(rows, call.recap)
  BY <1>1, SpansStay
<1>4. GapFree(call.recap) => GapFree(call.recap)'
  <2> SUFFICES ASSUME GapFree(call.recap), NEW x \in CoveredBy(rows, call.recap)
               PROVE  First' .. x \subseteq CoveredBy(rows, call.recap)
    BY <1>3 DEF GapFree
  <2>1. First' = First
    BY <1>1, <1>2, CoveredHasOwn
  <2> QED
    BY <2>1 DEF GapFree
<1> QED
  BY <1>1, <1>2, <1>3, <1>4 DEF CallSound

\* The newest of some messages, when it is all of them.
LEMMA FreshDone ==
  ASSUME TypeOK, RangeInv, own # {},
         NEW recap \in SUBSET Recorded, GapFree(recap), NEW kept \in SUBSET recap,
         NEW asked \in SUBSET own, NEW rest, NEW tail \in SUBSET rest,
         rest = {m \in own : m > (IF kept = {} THEN 0 ELSE UpTo(kept))}
  PROVE  /\ tail = rest => asked \subseteq tail \cup CoveredBy(rows, kept)
         /\ kept = recap => tail \cap CoveredBy(rows, kept) = {}
<1>0. /\ First \in Nat \ {0} /\ \A m \in own : m \in Nat /\ First <= m
  BY FirstIs
<1>1. CASE kept = {}
  <2>1. CoveredBy(rows, kept) = {} /\ rest = own
    BY <1>0, <1>1 DEF CoveredBy
  <2> QED
    BY <2>1
<1>2. CASE kept # {}
  <2>1. kept \in SUBSET Recorded
    OBVIOUS
  <2>2. UpTo(kept) \in 0 .. MaxMessages /\ First .. UpTo(kept) \subseteq CoveredBy(rows, kept)
    BY <2>1, UpToIs
  <2>3. ASSUME NEW m \in own, m \notin rest PROVE m \in CoveredBy(rows, kept)
    BY <1>0, <1>2, <2>2, <2>3, Constants
  <2>4. ASSUME kept = recap, NEW m \in rest PROVE m \notin CoveredBy(rows, kept)
    <3>1. Stored(rows, kept, Top)
      BY <2>1, RowsStored
    <3>2. \A x \in CoveredBy(rows, kept) : First .. x \subseteq CoveredBy(rows, kept)
      BY <2>4 DEF GapFree
    <3>3. \A x \in CoveredBy(rows, kept) : x <= UpTo(kept)
      BY <1>0, <3>1, <3>2, PrefixIsAll DEF UpTo
    <3>4. m \in Nat /\ ~(m <= UpTo(kept))
      BY <1>0, <1>2, <2>2, Constants
    <3> QED
      BY <3>3, <3>4
  <2> QED
    BY <2>3, <2>4
<1> QED
  BY <1>1, <1>2

LEMMA Answered ==
  ASSUME TypeOK, NEW q \in Readers, NEW call, CallSound(call), Answer(q, call)
  PROVE  CallSound(reader[q])'
<1>1. reader'[q] = call
  BY DEF Answer, TypeOK
<1>2. /\ Recorded' = Recorded /\ Frontier' = Frontier /\ Covered' = Covered /\ rows' = rows
      /\ First' = First /\ own' = own
  BY NothingRecorded, NothingSaid DEF Answer
<1> QED
  BY <1>1, <1>2 DEF CallSound, GapFree

LEMMA ReaderMoves ==
  ASSUME TypeInv, RangeInv, NEW q \in Readers, CallSound(reader[q]), ReadStep(q)
  PROVE  CallSound(reader[q])'
<1> DEFINE call == reader[q]
<1>0. TypeOK /\ Frontier \in SUBSET Recorded /\ GapFree(Frontier)
  BY FrontierRecorded DEF TypeInv, RangeInv
<1>1. call \in ReaderCall
  BY <1>0 DEF TypeOK
<1>2. call.asked \subseteq own /\ call.recap \subseteq Recorded
  BY DEF CallSound
<1>3. CASE ReadFresh(q)
  <2>1. CallSound([NoReader EXCEPT !.pc = "fresh", !.asked = own, !.recap = Frontier])
    BY <1>0 DEF CallSound, NoReader
  <2> QED
    BY <1>0, <1>3, <2>1, Answered DEF ReadFresh
<1>4. CASE FreshTail(q)
  <2>1. GapFree(call.recap)
    BY <1>4 DEF CallSound, FreshTail
  <2>2. CASE own = {} /\ Answer(q, [call EXCEPT !.pc = "done"])
    <3>1. CoveredBy(rows, call.recap) = {}
      BY <1>2, <2>2, CoveredHasOwn
    <3>2. CallSound([call EXCEPT !.pc = "done"])
      BY <1>1, <1>2, <2>2, <3>1 DEF CallSound, ReaderCall
    <3> QED
      BY <1>0, <2>2, <3>2, Answered
  <2>3. CASE own # {}
    <3>1. PICK kept \in SUBSET call.recap :
            LET rest == {m \in own : m > (IF kept = {} THEN 0 ELSE UpTo(kept))} IN
            \E tail \in NewestOf(rest) :
              Answer(q, [call EXCEPT !.pc = "done", !.given = tail, !.recap = kept,
                                     !.whole = (tail = rest),
                                     !.apart = (kept = call.recap)])
      BY <1>4, <2>3 DEF FreshTail
    <3> DEFINE rest == {m \in own : m > (IF kept = {} THEN 0 ELSE UpTo(kept))}
    <3>2. PICK tail \in SUBSET rest :
            Answer(q, [call EXCEPT !.pc = "done", !.given = tail, !.recap = kept,
                                   !.whole = (tail = rest),
                                   !.apart = (kept = call.recap)])
      BY <3>1 DEF NewestOf
    <3>3. /\ tail = rest => call.asked \subseteq tail \cup CoveredBy(rows, kept)
          /\ kept = call.recap => tail \cap CoveredBy(rows, kept) = {}
      <4>1. rest = {m \in own : m > (IF kept = {} THEN 0 ELSE UpTo(kept))}
        OBVIOUS
      <4>2. tail \in SUBSET rest
        BY <3>2
      <4> HIDE DEF rest
      <4>3. call.recap \in SUBSET Recorded /\ call.asked \in SUBSET own
        BY <1>2
      <4> HIDE DEF call
      <4> QED
        BY <1>0, <2>1, <2>3, <4>1, <4>2, <4>3, FreshDone
    <3> HIDE DEF rest
    <3> DEFINE w == (tail = rest)
               a == (kept = call.recap)
    <3>4. /\ w => call.asked \subseteq tail \cup CoveredBy(rows, kept)
          /\ a => tail \cap CoveredBy(rows, kept) = {}
      BY <3>3
    <3>5. kept \subseteq Recorded
      BY <1>2
    <3>6. Answer(q, [call EXCEPT !.pc = "done", !.given = tail, !.recap = kept,
                                 !.whole = w, !.apart = a])
      BY <3>2
    <3> HIDE DEF w, a
    <3>7. CallSound([call EXCEPT !.pc = "done", !.given = tail, !.recap = kept,
                                 !.whole = w, !.apart = a])
      BY <1>1, <1>2, <3>4, <3>5 DEF CallSound, ReaderCall
    <3> QED
      BY <1>0, <3>6, <3>7, Answered
  <2> QED
    BY <1>4, <2>2, <2>3 DEF FreshTail
<1>5. CASE ReadTail(q)
  <2>1. PICK tail \in NewestOf(own), b \in {0} \cup own :
          Answer(q, [NoReader EXCEPT !.pc = IF b = 0 THEN "recap" ELSE "boundary",
                                     !.asked = own, !.given = tail, !.boundary = b,
                                     !.whole = (tail = own)])
    BY <1>5 DEF ReadTail
  <2> DEFINE w == (tail = own)
             pc == IF b = 0 THEN "recap" ELSE "boundary"
  <2>2. /\ pc \in {"recap", "boundary"} /\ (pc = "boundary" => b \in own)
        /\ w => own \subseteq tail
    OBVIOUS
  <2>3. Answer(q, [NoReader EXCEPT !.pc = pc, !.asked = own, !.given = tail, !.boundary = b,
                                   !.whole = w])
    BY <2>1
  <2> HIDE DEF w, pc
  <2>4. CallSound([NoReader EXCEPT !.pc = pc, !.asked = own, !.given = tail, !.boundary = b,
                                   !.whole = w])
    BY <2>2 DEF CallSound, NoReader
  <2> QED
    BY <1>0, <2>3, <2>4, Answered
<1>6. CASE CheckBoundary(q)
  <2>1. /\ call.boundary \in own /\ (call.whole => call.asked \subseteq call.given) /\ ~call.apart
    BY <1>6 DEF CheckBoundary, CallSound
  <2>2. CoversUpTo(call.boundary) => First .. call.boundary \subseteq Covered
    BY DEF CoversUpTo, Covers, Covered
  <2>3. CASE CoversUpTo(call.boundary)
    <3>1. CallSound([call EXCEPT !.pc = "covered"])
      BY <1>1, <1>2, <2>1, <2>2, <2>3 DEF CallSound, ReaderCall
    <3> QED
      BY <1>0, <1>6, <2>3, <3>1, Answered DEF CheckBoundary
  <2>4. CASE ~CoversUpTo(call.boundary)
    <3>1. CallSound([call EXCEPT !.pc = "recap"])
      BY <1>1, <1>2, <2>1 DEF CallSound, ReaderCall
    <3> QED
      BY <1>0, <1>6, <2>4, <3>1, Answered DEF CheckBoundary
  <2> QED
    BY <2>3, <2>4
<1>7. CASE ReadAfterBoundary(q)
  <2> DEFINE rest == {m \in own : m > call.boundary}
  <2>1. PICK tail \in NewestOf(rest) :
          Answer(q, [call EXCEPT !.pc = "recap", !.given = tail, !.whole = (tail = rest)])
    BY <1>7 DEF ReadAfterBoundary
  <2>2. /\ call.boundary \in own /\ First .. call.boundary \subseteq Covered /\ ~call.apart
    BY <1>7 DEF ReadAfterBoundary, CallSound
  <2>3. own \subseteq rest \cup Covered
    <3>1. \A m \in own : m \in Nat /\ First <= m /\ First \in Nat
      BY <1>0, <2>2, FirstIs
    <3> QED
      BY <2>2, <3>1
  <2> HIDE DEF rest
  <2> DEFINE w == (tail = rest)
  <2>4. w => call.asked \subseteq tail \cup Covered
    BY <1>2, <2>3
  <2>5. Answer(q, [call EXCEPT !.pc = "recap", !.given = tail, !.whole = w])
    BY <2>1
  <2> HIDE DEF w
  <2>6. CallSound([call EXCEPT !.pc = "recap", !.given = tail, !.whole = w])
    BY <1>1, <1>2, <2>2, <2>4 DEF CallSound, ReaderCall
  <2> QED
    BY <1>0, <2>5, <2>6, Answered
<1>8. CASE ReadRecap(q)
  <2>1. (call.whole => call.asked \subseteq call.given \cup Covered) /\ ~call.apart
    BY <1>8 DEF ReadRecap, CallSound
  <2>2. CallSound([call EXCEPT !.pc = "done", !.recap = Frontier])
    BY <1>0, <1>1, <1>2, <2>1 DEF CallSound, ReaderCall, Covered
  <2>3. CallSound([call EXCEPT !.pc = "done", !.whole = FALSE])
    BY <1>1, <1>2, <2>1 DEF CallSound, ReaderCall
  <2> QED
    BY <1>0, <1>8, <2>2, <2>3, Answered DEF ReadRecap
<1>9. CASE EndRead(q)
  <2>1. CallSound(NoReader)
    BY DEF CallSound, NoReader
  <2> QED
    BY <1>0, <1>9, <2>1, Answered DEF EndRead
<1> QED
  BY <1>3, <1>4, <1>5, <1>6, <1>7, <1>8, <1>9 DEF ReadStep

LEMMA ReadInvStep == TypeInv /\ RangeInv /\ ReadInv /\ [Next]_vars => ReadInv'
<1> SUFFICES ASSUME TypeInv, RangeInv, ReadInv, [Next]_vars, NEW q \in Readers
             PROVE  CallSound(reader[q])'
  BY DEF ReadInv
<1>0. CallSound(reader[q]) /\ reader \in [Readers -> ReaderCall]
  BY DEF ReadInv, TypeInv, TypeOK
<1>1. CASE ReadStep(q)
  BY <1>0, <1>1, ReaderMoves
<1>2. CASE ~ReadStep(q)
  <2>1. ASSUME NEW p \in Readers, ReadStep(p), p # q PROVE reader'[q] = reader[q]
    BY <1>0, <2>1 DEF ReadStep, ReadFresh, FreshTail, ReadTail, CheckBoundary,
       ReadAfterBoundary, ReadRecap, EndRead, Answer
  <2>2. ASSUME NEW r \in Runs, RunStep(r) PROVE reader' = reader
    BY <2>2 DEF RunStep, Start, FindSpan, AskLeaf, RecordLeaf, ReadFrontier, AskCondense,
       RecordCondensed, RunFails
  <2>3. reader'[q] = reader[q]
    BY <1>2, <2>1, <2>2 DEF Next, AppendMessage, NewDay, vars
  <2> QED
    BY <1>0, <2>3, ReaderWaits
<1> QED
  BY <1>1, <1>2

\* What rows tell of is what they cover of the session.
LEMMA RecapTells ==
  ASSUME RangeInv, NEW F \in SUBSET Recorded
  PROVE  UNION {rows[i].about : i \in F} = own \cap CoveredBy(rows, F)
BY DEF RangeInv, Tells, CoveredBy

\* Between its connections a reader loses no message it was asked for
\* (load_active_context_messages with render_session_recap, load_fresh_context_rows).
LEMMA ContextComplete == Spec => []NothingLost
<1>1. TypeInv /\ RangeInv /\ ReadInv => NothingLost
  <2> SUFFICES ASSUME RangeInv, ReadInv, NEW q \in Readers,
                      reader[q].pc = "done", reader[q].whole
               PROVE  reader[q].asked \subseteq reader[q].given
                                               \cup UNION {rows[i].about : i \in reader[q].recap}
    BY DEF NothingLost
  <2>1. /\ reader[q].asked \subseteq own /\ reader[q].recap \in SUBSET Recorded
        /\ reader[q].asked \subseteq reader[q].given \cup CoveredBy(rows, reader[q].recap)
    BY DEF ReadInv, CallSound
  <2> QED
    BY <2>1, RecapTells
<1> QED
  BY <1>1, TypeInit, RangeInit, ReadInit, TypeStep, RangeStep, ReadInvStep, PTL DEF Spec

\* Fresh context with all its summaries repeats no message raw (load_fresh_context_rows).
LEMMA ContextApart == Spec => []NothingTwice
<1>1. TypeInv /\ RangeInv /\ ReadInv => NothingTwice
  <2> SUFFICES ASSUME RangeInv, ReadInv, NEW q \in Readers,
                      reader[q].pc = "done", reader[q].apart
               PROVE  reader[q].given \cap UNION {rows[i].about : i \in reader[q].recap} = {}
    BY DEF NothingTwice
  <2>1. /\ reader[q].recap \in SUBSET Recorded
        /\ reader[q].given \cap CoveredBy(rows, reader[q].recap) = {}
    BY DEF ReadInv, CallSound
  <2> QED
    BY <2>1, RecapTells
<1> QED
  BY <1>1, TypeInit, RangeInit, ReadInit, TypeStep, RangeStep, ReadInvStep, PTL DEF Spec

\* The context is whole, whatever falls between a reader's connections
\* (load_active_context_messages with render_session_recap, load_fresh_context_rows).
THEOREM ContextIsWhole == Spec => []ContextWhole
<1>1. NothingLost /\ NothingTwice => ContextWhole
  BY DEF ContextWhole
<1> QED
  BY <1>1, ContextComplete, ContextApart, PTL

-------------------------------------------------------------------------------
\* One run at a time.

AloneInv ==
  ~overlapped =>
    /\ \A r, s \in Runs : run[r].pc # "idle" /\ run[s].pc # "idle" => r = s
    /\ Chain = Frontier
    /\ \A r \in Runs :
         /\ run[r].pc \in {"span", "leafAsked"} =>
              run[r].row.first = UpTo(Frontier) + 1 /\ run[r].row.replaces = {}
         /\ run[r].pc \in {"found", "condenseAsked"} => run[r].row.replaces = Frontier

LEMMA AloneInit == Init => AloneInv
<1> SUFFICES ASSUME Init PROVE AloneInv
  OBVIOUS
<1>1. Frontier = {} /\ Chain = {}
  BY DEF Init, Recorded, Frontier, Chain, OldestRun
<1> QED
  BY <1>1 DEF Init, AloneInv, NoRun

\* A run moves without recording: it is the one, and holds what it must.
LEMMA AloneTurn ==
  ASSUME TypeOK, AloneInv, NEW r \in Runs, NEW pc, NEW row, Turn(r, pc, row),
         UNCHANGED <<transcript, summaries>>,
         overlapped' = (overlapped \/ (run[r].pc = "idle" /\ \E s \in Runs : run[s].pc # "idle")),
         pc \in {"span", "leafAsked"} => row.first = UpTo(Frontier) + 1 /\ row.replaces = {},
         pc \in {"found", "condenseAsked"} /\ ~overlapped => row.replaces = Frontier
  PROVE  AloneInv'
<1> SUFFICES ASSUME ~overlapped' PROVE AloneInv'
  BY DEF AloneInv
<1>1. ~overlapped /\ (run[r].pc = "idle" => \A s \in Runs : run[s].pc = "idle")
  OBVIOUS
<1>2. /\ Frontier' = Frontier /\ Chain' = Chain /\ UpTo(Frontier)' = UpTo(Frontier)
  BY NothingRecorded, NothingSaid DEF UpTo
<1>3. run' = [run EXCEPT ![r] = [pc |-> pc, row |-> row]] /\ run \in [Runs -> RunCall]
  BY DEF Turn, TypeOK
<1>4. \A s \in Runs : s # r => run'[s] = run[s] /\ run[s].pc = "idle"
  BY <1>1, <1>3 DEF AloneInv
<1>5. run'[r].pc = pc /\ run'[r].row = row
  BY <1>3
<1> QED
  BY <1>1, <1>2, <1>4, <1>5 DEF AloneInv

LEMMA AloneRecord ==
  ASSUME TypeInv, RangeInv, AloneInv, NEW r \in Runs, Record(run[r].row),
         UNCHANGED <<transcript, overlapped>>,
         run[r].pc \in {"leafAsked", "condenseAsked"},
         NEW pc \in {"leaf", "idle"}, NEW row, Turn(r, pc, row)
  PROVE  AloneInv'
<1> SUFFICES ASSUME ~overlapped PROVE AloneInv'
  BY DEF AloneInv
<1> DEFINE new == recorded + 1
<1>0. TypeOK
  BY DEF TypeInv
<1>1. /\ \A s \in Runs : s # r => run[s].pc = "idle"
      /\ OldestRun(rows, Frontier) = Frontier
  BY DEF AloneInv, Chain
<1>2. run' = [run EXCEPT ![r] = [pc |-> pc, row |-> row]] /\ run \in [Runs -> RunCall]
  BY <1>0 DEF Turn, TypeOK
<1>3. \A s \in Runs : run'[s].pc \in {"leaf", "idle"} /\ (s # r => run'[s].pc = "idle")
  BY <1>1, <1>2
<1>4. /\ rows' \in [Sums -> Row] /\ rows'[new] = run[r].row /\ new \in Sums /\ new \notin Recorded
      /\ Recorded \subseteq Sums /\ Frontier \subseteq Recorded
      /\ \A i \in Frontier : rows[i] = rows'[i]
  BY RecordIs, FrontierRecorded
<1>5. Frontier' = (Frontier \ run[r].row.replaces) \cup {new}
  BY Grown
<1> HIDE DEF new
<1>6. CASE run[r].pc = "leafAsked"
  <2>1. run[r].row.first = UpTo(Frontier) + 1 /\ run[r].row.replaces = {}
    BY <1>6 DEF AloneInv
  <2>2. own # {} /\ First \in Nat \ {0}
    BY <1>0, <1>6, FirstIs DEF RangeInv, RunSound, Sound
  <2>3. \A i \in Frontier : First <= rows'[i].first /\ rows'[i].first <= rows'[i].last
    BY <1>4 DEF RangeInv, Sound
  <2>4. \A x \in CoveredBy(rows', Frontier) : First .. x \subseteq CoveredBy(rows', Frontier)
    BY <1>4, SameRows DEF RangeInv, GapFree
  <2>5. OldestRun(rows', Frontier) = Frontier
    BY <1>1, <1>4, SameRows
  <2>6. CoveredPrefix(rows', Frontier, First) = UpTo(Frontier)
    BY <1>4, SameRows DEF UpTo
  <2>7. Stored(rows', Frontier \cup {new}, Top) /\ new \notin Frontier
    BY <1>4, TableStored
  <2>8. rows'[new].first = CoveredPrefix(rows', Frontier, First) + 1
    BY <1>4, <2>1, <2>6
  <2>9. OldestRun(rows', Frontier \cup {new}) = Frontier \cup {new}
    BY <2>2, <2>3, <2>4, <2>5, <2>7, <2>8, RunGrows
  <2>10. Chain' = Frontier'
    BY <1>5, <2>1, <2>9 DEF Chain
  <2> QED
    BY <1>3, <2>10 DEF AloneInv
<1>7. CASE run[r].pc = "condenseAsked"
  <2>1. Frontier' = {new}
    BY <1>5, <1>7 DEF AloneInv
  <2>2. OldestRun(rows', {new}) = {new}
    BY <1>4, TableStored, OneRowRun
  <2> QED
    BY <1>3, <2>1, <2>2 DEF AloneInv, Chain
<1> QED
  BY <1>6, <1>7

LEMMA AloneRun ==
  ASSUME TypeInv, RangeInv, AloneInv, NEW r \in Runs, RunStep(r)
  PROVE  AloneInv'
<1>0. TypeOK /\ overlapped \in BOOLEAN
  BY DEF TypeInv, TypeOK
<1> USE <1>0
<1>1. ASSUME NEW pc \in {"idle", "leaf", "condense"}, NEW row, Turn(r, pc, row),
             UNCHANGED <<transcript, summaries, overlapped>>, run[r].pc # "idle"
      PROVE  AloneInv'
  BY <1>1, AloneTurn
<1>2. CASE Start(r)
  BY <1>2, AloneTurn DEF Start
<1>3. CASE FindSpan(r)
  <2>1. ASSUME NEW last \in own,
               Turn(r, "span", [Day(r) EXCEPT !.first = NextUncovered, !.last = last])
        PROVE  AloneInv'
    <3> DEFINE row == [Day(r) EXCEPT !.first = NextUncovered, !.last = last]
    <3>1. row.first = UpTo(Frontier) + 1 /\ row.replaces = {}
      <4>1. Day(r) \in Row /\ Day(r).replaces = {}
        BY DayTyped
      <4> QED
        BY <4>1 DEF Row, NextUncovered
    <3>2. Turn(r, "span", row)
      BY <2>1
    <3> HIDE DEF row
    <3> QED
      BY <1>3, <3>1, <3>2, AloneTurn DEF FindSpan
  <2> QED
    BY <1>1, <1>3, <2>1 DEF FindSpan
<1>4. CASE AskLeaf(r)
  <2>1. CASE Turn(r, "condense", Day(r))
    BY <1>1, <1>4, <2>1 DEF AskLeaf
  <2>2. CASE ~Turn(r, "condense", Day(r))
    <3> DEFINE row == [run[r].row EXCEPT !.about = own \cap Span(run[r].row)]
    <3>1. row.first = run[r].row.first /\ row.replaces = run[r].row.replaces
      <4>1. run[r].row \in Row
        BY RowTyped
      <4> QED
        BY <4>1 DEF Row
    <3>2. Turn(r, "leafAsked", row)
      BY <1>4, <2>2 DEF AskLeaf
    <3> HIDE DEF row
    <3>3. CASE overlapped
      BY <1>4, <3>3 DEF AskLeaf, AloneInv
    <3>4. CASE ~overlapped
      <4>1. row.first = UpTo(Frontier) + 1 /\ row.replaces = {}
        BY <1>4, <3>1, <3>4 DEF AskLeaf, AloneInv
      <4> QED
        BY <1>4, <3>2, <4>1, AloneTurn DEF AskLeaf
    <3> QED
      BY <3>3, <3>4
  <2> QED
    BY <2>1, <2>2
<1>5. CASE RecordLeaf(r)
  BY <1>5, AloneRecord DEF RecordLeaf
<1>6. CASE ReadFrontier(r)
  <2>1. CASE Turn(r, "idle", NoRow)
    BY <1>1, <1>6, <2>1 DEF ReadFrontier
  <2>2. CASE Frontier # {} /\ ~Turn(r, "idle", NoRow)
    <3> DEFINE row == [Day(r) EXCEPT !.first = rows[Oldest(rows, Chain)].first,
                                     !.last = rows[Newest(rows, Chain)].last,
                                     !.about = UNION {rows[i].about : i \in Chain},
                                     !.replaces = Chain]
    <3>1. row.replaces = Chain
      BY <2>2, CondensedMade
    <3>2. Turn(r, "found", row)
      BY <1>6, <2>2 DEF ReadFrontier
    <3> HIDE DEF row
    <3>3. ~overlapped => row.replaces = Frontier
      BY <3>1 DEF AloneInv
    <3> QED
      BY <1>6, <3>2, <3>3, AloneTurn DEF ReadFrontier
  <2> QED
    BY <1>6, <2>1, <2>2 DEF ReadFrontier
<1>7. CASE AskCondense(r)
  <2>1. CASE Turn(r, "idle", NoRow)
    BY <1>1, <1>7, <2>1 DEF AskCondense
  <2>2. CASE Turn(r, "condenseAsked", run[r].row)
    <3>1. ~overlapped => run[r].row.replaces = Frontier
      BY <1>7 DEF AskCondense, AloneInv
    <3> QED
      BY <1>7, <2>2, <3>1, AloneTurn DEF AskCondense
  <2> QED
    BY <1>7, <2>1, <2>2 DEF AskCondense
<1>8. CASE RecordCondensed(r)
  BY <1>8, AloneRecord DEF RecordCondensed
<1>9. CASE RunFails(r)
  BY <1>1, <1>9 DEF RunFails
<1> QED
  BY <1>2, <1>3, <1>4, <1>5, <1>6, <1>7, <1>8, <1>9 DEF RunStep

LEMMA AloneStep == TypeInv /\ RangeInv /\ AloneInv /\ [Next]_vars => AloneInv'
<1> SUFFICES ASSUME TypeInv, RangeInv, AloneInv, [Next]_vars PROVE AloneInv'
  OBVIOUS
<1>1. ASSUME UNCHANGED <<summaries, run, overlapped>>, own # {} => First' = First
      PROVE  AloneInv'
  <2>1. Frontier' = Frontier /\ Chain' = Chain /\ rows' = rows /\ run' = run /\ overlapped' = overlapped
    BY <1>1, NothingRecorded
  <2>2. ASSUME NEW r \in Runs, run[r].pc \in {"span", "leafAsked"}
        PROVE  UpTo(Frontier)' = UpTo(Frontier)
    <3>1. own # {}
      BY <2>2 DEF TypeInv, InProgress
    <3> QED
      BY <1>1, <2>1, <3>1 DEF UpTo
  <2> QED
    BY <2>1, <2>2 DEF AloneInv
<1>2. own # {} => First' = First
  BY WorldStays
<1>3. ASSUME NEW r \in Runs, RunStep(r) PROVE AloneInv'
  BY <1>3, AloneRun
<1>4. ASSUME NEW q \in Readers, ReadStep(q) PROVE AloneInv'
  BY <1>1, <1>2, <1>4, ReadersOnlyRead
<1> QED
  BY <1>1, <1>2, <1>3, <1>4 DEF Next, AppendMessage, NewDay, vars

\* A session that one run at a time summarizes keeps a frontier that condenses to
\* a single row (_run_condense_pass, _oldest_contiguous_run).
THEOREM FrontierIsChain == Spec => []OneChain
<1>1. AloneInv => OneChain
  BY DEF AloneInv, OneChain
<1> QED
  BY <1>1, TypeInit, RangeInit, AloneInit, TypeStep, RangeStep, AloneStep, PTL DEF Spec

-------------------------------------------------------------------------------
\* The budget: what is recorded of a day and what is being asked for it.

On(day) == {i \in Recorded : rows[i].day = day}
Asked(day) == {r \in Runs : /\ run[r].pc \in {"leafAsked", "condenseAsked"}
                            /\ run[r].row.day = day}

Limit == IF overlapped THEN Budget + Cardinality(Runs) - 1 ELSE Budget

BudgetInv ==
  \A day \in 0 .. MaxDay : Cardinality(On(day)) + Cardinality(Asked(day)) <= Limit

LEMMA Finite ==
  ASSUME TypeOK, NEW S \in SUBSET Recorded
  PROVE  IsFiniteSet(S) /\ Cardinality(S) \in Nat
<1>1. IsFiniteSet(Recorded)
  BY FS_Interval, Constants DEF TypeOK, Recorded
<1> QED
  BY <1>1, FS_Subset, FS_CardinalityType

LEMMA FiniteRuns ==
  ASSUME NEW S \in SUBSET Runs
  PROVE  /\ IsFiniteSet(S) /\ Cardinality(S) \in Nat /\ Cardinality(Runs) \in Nat
         /\ Cardinality(S) <= Cardinality(Runs)
BY SummariesAssumption, FS_Subset, FS_CardinalityType

LEMMA SizesNatural ==
  ASSUME TypeOK
  PROVE  /\ \A day : /\ IsFiniteSet(On(day)) /\ Cardinality(On(day)) \in Nat
                     /\ IsFiniteSet(Asked(day)) /\ Cardinality(Asked(day)) \in Nat
         /\ Limit \in Int /\ Budget \in Nat /\ Cardinality(Runs) \in Nat
<1>1. ASSUME NEW day
      PROVE  /\ IsFiniteSet(On(day)) /\ Cardinality(On(day)) \in Nat
             /\ IsFiniteSet(Asked(day)) /\ Cardinality(Asked(day)) \in Nat
  <2>1. On(day) \in SUBSET Recorded /\ Asked(day) \in SUBSET Runs
    BY DEF On, Asked
  <2> QED
    BY <2>1, Finite, FiniteRuns
<1>2. Budget \in Nat /\ Cardinality(Runs) \in Nat
  BY Constants, FiniteRuns
<1> QED
  BY <1>1, <1>2 DEF Limit

LEMMA BudgetInit == Init => BudgetInv
<1> SUFFICES ASSUME Init, NEW day \in 0 .. MaxDay
             PROVE  Cardinality(On(day)) + Cardinality(Asked(day)) <= Limit
  BY DEF BudgetInv
<1>1. On(day) = {} /\ Asked(day) = {} /\ Limit = Budget
  BY DEF Init, On, Asked, Recorded, NoRun, Limit
<1> QED
  BY <1>1, FS_EmptySet, Constants

\* Nothing recorded and nobody new asking.
LEMMA BudgetQuiet ==
  ASSUME TypeOK, TypeOK', BudgetInv, UNCHANGED summaries, Limit <= Limit',
         \A day \in 0 .. MaxDay : Asked(day)' \subseteq Asked(day)
  PROVE  BudgetInv'
<1> SUFFICES ASSUME NEW day \in 0 .. MaxDay
             PROVE  Cardinality(On(day)') + Cardinality(Asked(day)') <= Limit'
  BY DEF BudgetInv
<1>1. On(day)' = On(day)
  BY NothingRecorded DEF On
<1>2. Cardinality(Asked(day)') \in Nat /\ Cardinality(Asked(day)') <= Cardinality(Asked(day))
  BY SizesNatural, FS_Subset, FS_CardinalityType
<1>3. Cardinality(On(day)) + Cardinality(Asked(day)) <= Limit
  BY DEF BudgetInv
<1>4. /\ Cardinality(On(day)) \in Nat /\ Cardinality(Asked(day)) \in Nat
      /\ Limit \in Int
  BY SizesNatural
<1>5. Limit' \in Int
  <2>1. Budget \in Nat /\ Cardinality(Runs) \in Nat
    BY SizesNatural
  <2> QED
    BY <2>1 DEF Limit
<1> QED
  BY <1>1, <1>2, <1>3, <1>4, <1>5

\* A run asks: one row less than the budget, and every other run may be asking.
LEMMA BudgetAsk ==
  ASSUME TypeOK, AloneInv, BudgetInv, NEW r \in Runs, ~BudgetReached(r),
         run[r].pc \in {"span", "found"},
         UNCHANGED <<summaries, overlapped>>,
         NEW pc \in {"leafAsked", "condenseAsked"}, NEW row, row.day = run[r].row.day,
         Turn(r, pc, row)
  PROVE  BudgetInv'
<1> SUFFICES ASSUME NEW day \in 0 .. MaxDay
             PROVE  Cardinality(On(day)') + Cardinality(Asked(day)') <= Limit'
  BY DEF BudgetInv
<1>1. On(day)' = On(day) /\ Limit' = Limit
  BY NothingRecorded DEF On, Limit
<1>2. run' = [run EXCEPT ![r] = [pc |-> pc, row |-> row]] /\ run \in [Runs -> RunCall]
  BY DEF Turn, TypeOK
<1>3. run'[r].pc = pc /\ run'[r].row = row /\ \A s \in Runs : s # r => run'[s] = run[s]
  BY <1>2
<1>4. CASE day # run[r].row.day
  <2>1. Asked(day)' = Asked(day)
    BY <1>3, <1>4 DEF Asked
  <2> QED
    BY <1>1, <2>1 DEF BudgetInv
<1>5. CASE day = run[r].row.day
  <2> DEFINE since == {i \in Recorded : rows[i].day >= day}
  <2>1. Cardinality(since) \in Nat /\ IsFiniteSet(since)
    BY Finite
  <2>2. ~(Cardinality(since) >= Budget)
    BY <1>5 DEF BudgetReached, Spent
  <2>3. Cardinality(On(day)) <= Cardinality(since)
    <3>1. day \in Nat
      BY Constants
    <3>2. On(day) \subseteq since
      BY <3>1 DEF On
    <3> QED
      BY <2>1, <3>2, FS_Subset
  <2> HIDE DEF since
  <2>4. Asked(day)' \in SUBSET Runs
    BY DEF Asked
  <2>5. /\ Cardinality(Asked(day)') \in Nat /\ Cardinality(Asked(day)') <= Cardinality(Runs)
        /\ Cardinality(Runs) \in Nat /\ Budget \in Nat /\ Cardinality(On(day)) \in Nat
    BY <2>4, FiniteRuns, SizesNatural
  <2>6. CASE overlapped
    BY <1>1, <2>1, <2>2, <2>3, <2>5, <2>6 DEF Limit
  <2>7. CASE ~overlapped
    <3>1. Asked(day)' \subseteq {r}
      BY <1>3, <2>7 DEF Asked, AloneInv
    <3>2. Cardinality({r}) = 1 /\ IsFiniteSet({r})
      BY FS_Singleton
    <3>3. Cardinality(Asked(day)') <= 1
      BY <3>1, <3>2, FS_Subset
    <3> QED
      BY <1>1, <2>1, <2>2, <2>3, <2>5, <2>7, <3>3 DEF Limit
  <2> QED
    BY <2>6, <2>7
<1> QED
  BY <1>4, <1>5

\* A recorded row is one that was asked for.
LEMMA BudgetRecord ==
  ASSUME TypeInv, BudgetInv, NEW r \in Runs, Record(run[r].row),
         run[r].pc \in {"leafAsked", "condenseAsked"}, UNCHANGED overlapped,
         NEW pc \in {"leaf", "idle"}, NEW row, Turn(r, pc, row)
  PROVE  BudgetInv'
<1> SUFFICES ASSUME NEW day \in 0 .. MaxDay
             PROVE  Cardinality(On(day)') + Cardinality(Asked(day)') <= Limit'
  BY DEF BudgetInv
<1>0. TypeOK
  BY DEF TypeInv
<1>1. /\ Recorded' = Recorded \cup {recorded + 1} /\ recorded + 1 \notin Recorded
      /\ rows'[recorded + 1] = run[r].row /\ \A i \in Recorded : rows'[i] = rows[i]
  BY RecordIs
<1>2. run' = [run EXCEPT ![r] = [pc |-> pc, row |-> row]] /\ run \in [Runs -> RunCall]
  BY <1>0 DEF Turn, TypeOK
<1>3. run'[r].pc = pc /\ \A s \in Runs : s # r => run'[s] = run[s]
  BY <1>2
<1>4. Limit' = Limit /\ Cardinality(On(day)) + Cardinality(Asked(day)) <= Limit
  BY DEF Limit, BudgetInv
<1>5. /\ IsFiniteSet(On(day)) /\ IsFiniteSet(Asked(day))
      /\ Cardinality(On(day)) \in Nat /\ Cardinality(Asked(day)) \in Nat /\ Limit \in Int
  BY <1>0, SizesNatural
<1>6. CASE day # run[r].row.day
  <2>1. On(day)' = On(day) /\ Asked(day)' = Asked(day)
    BY <1>1, <1>3, <1>6 DEF On, Asked
  <2> QED
    BY <1>4, <2>1
<1>7. CASE day = run[r].row.day
  <2>1. On(day)' = On(day) \cup {recorded + 1} /\ recorded + 1 \notin On(day)
    BY <1>1, <1>7 DEF On
  <2>2. Asked(day)' = Asked(day) \ {r} /\ r \in Asked(day)
    BY <1>3, <1>7 DEF Asked
  <2>3. Cardinality(On(day)') = Cardinality(On(day)) + 1
    BY <1>5, <2>1, FS_AddElement
  <2>4. Cardinality(Asked(day)') = Cardinality(Asked(day)) - 1
    <3>1. Cardinality(Asked(day) \ {r}) = Cardinality(Asked(day)) - 1
      BY <1>5, <2>2, FS_RemoveElement
    <3> QED
      BY <2>2, <3>1
  <2> QED
    BY <1>4, <1>5, <2>3, <2>4
<1> QED
  BY <1>6, <1>7

LEMMA BudgetRun ==
  ASSUME TypeInv, TypeInv', AloneInv, BudgetInv, NEW r \in Runs, RunStep(r)
  PROVE  BudgetInv'
<1>0. TypeOK /\ TypeOK' /\ overlapped \in BOOLEAN
  BY DEF TypeInv, TypeOK
<1> USE <1>0
<1>1. ASSUME NEW pc \in RunPlaces \ {"leafAsked", "condenseAsked"}, NEW row, Turn(r, pc, row),
             UNCHANGED summaries, overlapped => overlapped'
      PROVE  BudgetInv'
  <2>1. run' = [run EXCEPT ![r] = [pc |-> pc, row |-> row]] /\ run \in [Runs -> RunCall]
    BY <1>1 DEF Turn, TypeOK
  <2>2. \A day \in 0 .. MaxDay : Asked(day)' \subseteq Asked(day)
    BY <2>1 DEF Asked
  <2>3. Cardinality(Runs) >= 1 /\ Cardinality(Runs) \in Nat /\ Budget \in Nat
    <3>1. {r} \in SUBSET Runs /\ Cardinality({r}) = 1
      BY FS_Singleton
    <3> QED
      BY <3>1, FiniteRuns, SizesNatural
  <2>4. Limit <= Limit'
    BY <1>1, <2>3 DEF Limit
  <2> QED
    BY <1>1, <2>2, <2>4, BudgetQuiet
<1>2. CASE Start(r)
  BY <1>1, <1>2 DEF Start, RunPlaces
<1>3. CASE FindSpan(r)
  BY <1>1, <1>3 DEF FindSpan, RunPlaces
<1>4. CASE AskLeaf(r)
  <2>1. CASE Turn(r, "condense", Day(r))
    BY <1>1, <1>4, <2>1 DEF AskLeaf, RunPlaces
  <2>2. CASE ~Turn(r, "condense", Day(r))
    <3> DEFINE row == [run[r].row EXCEPT !.about = own \cap Span(run[r].row)]
    <3>1. row.day = run[r].row.day
      <4>1. run[r].row \in Row
        BY RowTyped
      <4> QED
        BY <4>1 DEF Row
    <3>2. Turn(r, "leafAsked", row) /\ ~BudgetReached(r)
      BY <1>4, <2>2 DEF AskLeaf
    <3> HIDE DEF row
    <3> QED
      BY <1>4, <3>1, <3>2, BudgetAsk DEF AskLeaf
  <2> QED
    BY <2>1, <2>2
<1>5. CASE RecordLeaf(r)
  BY <1>5, BudgetRecord DEF RecordLeaf
<1>6. CASE ReadFrontier(r)
  BY <1>1, <1>6 DEF ReadFrontier, RunPlaces
<1>7. CASE AskCondense(r)
  <2>1. CASE BudgetReached(r)
    BY <1>1, <1>7, <2>1 DEF AskCondense, RunPlaces
  <2>2. CASE ~BudgetReached(r)
    BY <1>7, <2>2, BudgetAsk DEF AskCondense
  <2> QED
    BY <2>1, <2>2
<1>8. CASE RecordCondensed(r)
  BY <1>8, BudgetRecord DEF RecordCondensed
<1>9. CASE RunFails(r)
  BY <1>1, <1>9 DEF RunFails, RunPlaces
<1> QED
  BY <1>2, <1>3, <1>4, <1>5, <1>6, <1>7, <1>8, <1>9 DEF RunStep

LEMMA BudgetStep ==
  TypeInv /\ TypeInv' /\ AloneInv /\ BudgetInv /\ [Next]_vars => BudgetInv'
<1> SUFFICES ASSUME TypeInv, TypeInv', AloneInv, BudgetInv, [Next]_vars PROVE BudgetInv'
  OBVIOUS
<1>1. ASSUME UNCHANGED <<summaries, run, overlapped>> PROVE BudgetInv'
  BY <1>1, NothingRecorded DEF BudgetInv, On, Asked, Limit
<1> QED
  BY <1>1, BudgetRun, ReadersOnlyRead DEF Next, AppendMessage, NewDay, vars

\* The daily budget holds, and overlapping runs exceed it by less than their
\* number (_budget_reached, _run_leaf_pass, _run_condense_pass).
THEOREM BudgetHolds == Spec => []BudgetKept
<1>1. TypeInv /\ BudgetInv => BudgetKept
  <2> SUFFICES ASSUME TypeInv, BudgetInv, NEW day \in 0 .. MaxDay
               PROVE  Cardinality(On(day)) <= Limit
    BY DEF BudgetKept, On, Limit
  <2>1. /\ Cardinality(On(day)) \in Nat /\ Cardinality(Asked(day)) \in Nat /\ Limit \in Int
        /\ Cardinality(On(day)) + Cardinality(Asked(day)) <= Limit
    BY SizesNatural DEF TypeInv, BudgetInv
  <2> QED
    BY <2>1
<1> QED
  BY <1>1, TypeInit, RangeInit, AloneInit, BudgetInit, TypeStep, RangeStep, AloneStep,
     BudgetStep, PTL DEF Spec
===============================================================================
