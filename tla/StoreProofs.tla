------------------------------ MODULE StoreProofs ------------------------------
(***************************************************************************)
(* What a tenant's database keeps: the transcript that recorders deliver,  *)
(* for any hooks, lines, batches and bounds, and the parts an init builds, *)
(* for any processes, messages, days, shapes and artifact.                 *)
(***************************************************************************)
EXTENDS TranscriptIngest, SchemaInit, FiniteSetTheorems, WellFoundedInduction, TLAPS

\* A request ends within what its run scanned.
LateInside == \A r \in late : r.to <= Len(r.scan)

\* The ledger holds the keys of the stored messages, each once.
LedgerExact ==
  /\ ledger = {KeyOf[m.line] : m \in messages}
  /\ \A m \in messages : m.id <= lastId
  /\ \A m, n \in messages : KeyOf[m.line] = KeyOf[n.line] => m = n

\* What a run or a request has behind it is stored, and so is what the cursor
\* stands for.
ScansCovered == \A h \in Hooks : \A i \in 1..pos[h] : Covered(scan[h][i])
LateCovered == \A r \in late : \A i \in 1..r.from : Covered(r.scan[i])
CursorCovered == cursor # NoCursor => \A i \in 1..Len(cursor.prefix) : Covered(cursor.prefix[i])

\* A run that writes its cursor has posted everything.
PostedAll == \A h \in Hooks : pc[h] \in {"cursor", "replace"} => pos[h] = Len(scan[h])

\* While the file only grows, whatever was read of it is still there.
Begins(s) == Len(s) <= Len(View) /\ \A i \in 1..Len(s) : s[i] = View[i]
StillThere ==
  rewrites = 0 =>
    /\ cursor # NoCursor => Begins(cursor.prefix)
    /\ \A h \in Hooks : Begins(scan[h])
    /\ \A r \in late : Begins(r.scan)

\* Then what is stored is in the file.
StoredThere ==
  rewrites = 0 => \A n \in messages : Storable(n.line) /\ \E k \in 1..Len(View) : View[k] = n.line

InOrder ==
  rewrites = 0 =>
    \A j \in DOMAIN View : \A i \in 1..j - 1 :
      Storable(View[i]) /\ Storable(View[j]) /\ IsFirst(j) =>
        \A n \in messages : KeyOf[n.line] = KeyOf[View[j]] =>
          \E m \in messages : KeyOf[m.line] = KeyOf[View[i]] /\ m.id < n.id

\* The conjuncts of TypeOK, by who changes them.
Places == {"idle", "scan", "post", "cursor", "replace"}
RunTyped ==
  /\ pc \in [Hooks -> Places]
  /\ session \in [Hooks -> Sessions \cup {NoSession}]
  /\ scan \in [Hooks -> Seq(Lines)]
  /\ full \in [Hooks -> Nat] /\ pos \in [Hooks -> Nat]
  /\ \A h \in Hooks : full[h] <= Len(scan[h]) /\ pos[h] <= Len(scan[h])
  /\ tries \in [Hooks -> 0..Attempts - 1]
  /\ seen \in [Hooks -> Nat]
FileTyped == file \in Seq(Lines) /\ tail \in Lines \cup {NoLine} /\ rewrites \in Nat
TablesTyped ==
  /\ messages \in SUBSET [id : Nat, line : Lines]
  /\ ledger \in SUBSET Keys /\ lastId \in Nat
LateTyped == late \in SUBSET Requests /\ LateInside
Typed ==
  /\ RunTyped /\ FileTyped /\ TablesTyped /\ LateTyped
  /\ faults \in Nat /\ cursor \in Cursors

Inv == Typed /\ LedgerExact /\ ScansCovered /\ LateCovered /\ CursorCovered /\ PostedAll
OrderInv == Inv /\ StillThere /\ StoredThere /\ InOrder

-------------------------------------------------------------------------------
(* Numbers, the view of the file, the end of a batch *)

\* A set of naturals that is not empty has a least element.
LEMMA LeastNatural ==
  ASSUME NEW S \in SUBSET Nat, S # {}
  PROVE  \E m \in S : \A n \in S : m <= n
<1>1. PICK m \in S : \A n \in S : ~(<<n, m>> \in OpToRel(<, Nat))
  BY NatLessThanWellFounded, WFMin
<1>2. \A n \in S : ~(n < m)
  BY <1>1 DEF OpToRel
<1> QED
  BY <1>2

\* The file, and its unterminated row at the end.
LEMMA ViewTyped ==
  ASSUME TypeOK
  PROVE  /\ View \in Seq(Lines) /\ Len(file) <= Len(View)
         /\ \A i \in 1..Len(file) : View[i] = file[i]
<1>1. CASE tail = NoLine
  BY <1>1 DEF TypeOK, View
<1>2. CASE tail # NoLine
  BY <1>2 DEF TypeOK, View
<1> QED
  BY <1>1, <1>2

\* A run resumes within the file, over lines that are there.
LEMMA ResumeBounds ==
  ASSUME TypeOK, NEW s
  PROVE  /\ ResumeOffset(cursor, s) \in 0..Len(View)
         /\ ResumeOffset(cursor, s) # 0 =>
              /\ cursor # NoCursor /\ cursor.prefix \in Seq(Lines)
              /\ ResumeOffset(cursor, s) = Len(cursor.prefix)
              /\ \A i \in 1..Len(cursor.prefix) : cursor.prefix[i] = View[i]
<1>1. View \in Seq(Lines)
  BY ViewTyped
<1>2. cursor # NoCursor => cursor.prefix \in Seq(Lines)
  BY DEF TypeOK, Cursors
<1> QED
  BY <1>1, <1>2 DEF ResumeOffset

\* A batch begins where the run is and ends within what it scanned.
LEMMA BatchEndBounds ==
  ASSUME TypeOK, NEW h \in Hooks
  PROVE  BatchEnd(h) \in pos[h]..Len(scan[h])
<1> DEFINE size(to) == Cardinality({i \in pos[h] + 1..to : Sendable(scan[h][i])})
           Cut(e) == size(e) <= BatchSize /\ (e = Len(scan[h]) \/ size(e + 1) > BatchSize)
           Stops == {e \in pos[h]..Len(scan[h]) : e = Len(scan[h]) \/ size(e + 1) > BatchSize}
<1>1. pos[h] \in Nat /\ Len(scan[h]) \in Nat /\ pos[h] <= Len(scan[h])
  BY DEF TypeOK
<1>2. \A e \in pos[h]..Len(scan[h]) : size(e) \in Nat
  <2> TAKE e \in pos[h]..Len(scan[h])
  <2>0. pos[h] + 1 \in Int /\ e \in Int
    BY <1>1
  <2>1. IsFiniteSet(pos[h] + 1..e)
    BY <2>0, FS_Interval
  <2>2. IsFiniteSet({i \in pos[h] + 1..e : Sendable(scan[h][i])})
    BY <2>1, FS_Subset
  <2> QED
    BY <2>2, FS_CardinalityType
<1>3. size(pos[h]) = 0
  <2>1. {i \in pos[h] + 1..pos[h] : Sendable(scan[h][i])} = {}
    BY <1>1
  <2> QED
    BY <2>1, FS_EmptySet
<1>4. PICK e \in Stops : \A n \in Stops : e <= n
  <2>1. Stops \in SUBSET Nat /\ Len(scan[h]) \in Stops
    BY <1>1
  <2> QED
    BY <2>1, LeastNatural
<1>5. size(e) <= BatchSize
  <2>1. CASE e = pos[h]
    BY <2>1, <1>3, SizesAssumption
  <2>2. CASE e # pos[h]
    <3>1. e - 1 \in pos[h]..Len(scan[h]) /\ e - 1 \notin Stops /\ e - 1 + 1 = e
      BY <1>1, <1>4, <2>2
    <3>2. ~(size(e - 1 + 1) > BatchSize)
      BY <3>1
    <3> QED
      BY <3>1, <3>2, <1>2, SizesAssumption
  <2> QED
    BY <2>1, <2>2
<1>6. \E x \in pos[h]..Len(scan[h]) : Cut(x)
  BY <1>4, <1>5
<1> QED
  BY <1>6 DEF BatchEnd

-------------------------------------------------------------------------------
(* The server's transaction *)

\* The rows a request adds are finitely many, and each has a number above.
LEMMA FreshNumbers ==
  ASSUME TypeOK, NEW r \in Requests, r.to <= Len(r.scan)
  PROVE  /\ Fresh(r) \in SUBSET (r.from + 1..r.to)
         /\ Cardinality(Fresh(r)) \in Nat
         /\ \A i \in Fresh(r) :
              Cardinality({j \in Fresh(r) : j <= i}) \in 1..Cardinality(Fresh(r))
         /\ \A i, k \in Fresh(r) : i < k =>
              Cardinality({j \in Fresh(r) : j <= i}) < Cardinality({j \in Fresh(r) : j <= k})
<1>0. r.from \in Nat /\ r.to \in Nat /\ r.from + 1 \in Int /\ r.to \in Int
  BY DEF Requests
<1>1. Fresh(r) \in SUBSET (r.from + 1..r.to)
  BY DEF Fresh, Batch
<1>2. IsFiniteSet(r.from + 1..r.to)
  BY <1>0, FS_Interval
<1>3. IsFiniteSet(Fresh(r)) /\ Cardinality(Fresh(r)) \in Nat
  BY <1>1, <1>2, FS_Subset, FS_CardinalityType
<1>4. ASSUME NEW i \in Fresh(r)
      PROVE  /\ IsFiniteSet({j \in Fresh(r) : j <= i})
             /\ Cardinality({j \in Fresh(r) : j <= i}) \in 1..Cardinality(Fresh(r))
  <2>1. IsFiniteSet({j \in Fresh(r) : j <= i})
        /\ Cardinality({j \in Fresh(r) : j <= i}) <= Cardinality(Fresh(r))
    BY <1>3, FS_Subset
  <2>2. Cardinality({j \in Fresh(r) : j <= i}) \in Nat
    BY <2>1, FS_CardinalityType
  <2>3. i \in {j \in Fresh(r) : j <= i}
    BY <1>0, <1>1
  <2>4. Cardinality({j \in Fresh(r) : j <= i}) # 0
    BY <2>1, <2>3, FS_EmptySet
  <2> QED
    BY <1>3, <2>1, <2>2, <2>4
<1>5. ASSUME NEW i \in Fresh(r), NEW k \in Fresh(r), i < k
      PROVE  Cardinality({j \in Fresh(r) : j <= i}) < Cardinality({j \in Fresh(r) : j <= k})
  <2> DEFINE A == {j \in Fresh(r) : j <= i}
             B == {j \in Fresh(r) : j <= k}
  <2>1. IsFiniteSet(A) /\ IsFiniteSet(B) /\ Cardinality(A) \in Nat /\ Cardinality(B) \in Nat
    BY <1>4, FS_CardinalityType
  <2>2. A \in SUBSET B /\ k \in B /\ k \notin A
    BY <1>0, <1>1, <1>5
  <2> HIDE DEF A, B
  <2>3. Cardinality(A) <= Cardinality(B) /\ (Cardinality(A) = Cardinality(B) => B = A)
    BY <2>1, <2>2, FS_Subset
  <2>4. Cardinality(A) < Cardinality(B)
    BY <2>1, <2>2, <2>3
  <2> QED
    BY <2>4 DEF A, B
<1> QED
  BY <1>1, <1>3, <1>4, <1>5

\* Every storable message of a request whose key is new has a row added that
\* has its key and stands no later.
LEMMA FreshForKey ==
  ASSUME TypeOK, NEW r \in Requests, r.to <= Len(r.scan),
         NEW i \in Batch(r), Storable(r.scan[i]), KeyOf[r.scan[i]] \notin ledger
  PROVE  \E p \in Fresh(r) : p <= i /\ KeyOf[r.scan[p]] = KeyOf[r.scan[i]]
<1> DEFINE Same == {p \in Batch(r) : Storable(r.scan[p]) /\ KeyOf[r.scan[p]] = KeyOf[r.scan[i]]}
<1>1. Same \in SUBSET Nat /\ i \in Same
  BY DEF Batch, Requests
<1>2. PICK p \in Same : \A n \in Same : p <= n
  BY <1>1, LeastNatural
<1>3. p \in Batch(r) /\ Storable(r.scan[p]) /\ KeyOf[r.scan[p]] = KeyOf[r.scan[i]]
  BY <1>2
<1>4. ASSUME NEW j \in Batch(r), j < p, Storable(r.scan[j])
      PROVE  KeyOf[r.scan[j]] # KeyOf[r.scan[p]]
  <2>1. p <= j => FALSE
    BY <1>1, <1>2, <1>4 DEF Batch, Requests
  <2> QED
    BY <1>2, <1>3, <1>4, <2>1
<1>5. p \in Fresh(r)
  BY <1>3, <1>4 DEF Fresh
<1> QED
  BY <1>1, <1>2, <1>3, <1>5

\* The tables keep their types, and nothing is taken away.
LEMMA IngestTyped ==
  ASSUME TypeOK, NEW r \in Requests, r.to <= Len(r.scan), Ingest(r)
  PROVE  /\ messages' \in SUBSET [id : Nat, line : Lines]
         /\ ledger' \in SUBSET Keys /\ lastId' \in Nat /\ lastId <= lastId'
         /\ messages \subseteq messages'
<1>1. r.scan \in Seq(Lines) /\ r.from \in Nat /\ r.to \in Nat /\ lastId \in Nat
  BY DEF Requests, TypeOK
<1>2. \A i \in Fresh(r) : r.scan[i] \in Lines /\ KeyOf[r.scan[i]] \in Keys
  <2> TAKE i \in Fresh(r)
  <2>1. i \in 1..Len(r.scan) /\ Sendable(r.scan[i])
    BY <1>1, FreshNumbers DEF Fresh, Batch
  <2> QED
    BY <1>1, <2>1, LinesAssumption DEF Sendable
<1>3. \A i \in Fresh(r) : Number(r, i) \in Nat
  BY <1>1, FreshNumbers DEF Number
<1>4. lastId' \in Nat /\ lastId <= lastId'
  BY <1>1, FreshNumbers DEF Ingest
<1>5. ledger' \in SUBSET Keys
  BY <1>2 DEF Ingest, TypeOK
<1>6. \A i \in Fresh(r) : [id |-> Number(r, i), line |-> r.scan[i]] \in [id : Nat, line : Lines]
  BY <1>2, <1>3
<1>7. messages' \in SUBSET [id : Nat, line : Lines] /\ messages \subseteq messages'
  <2> DEFINE New == {[id |-> Number(r, i), line |-> r.scan[i]] : i \in Fresh(r)}
  <2>1. New \subseteq [id : Nat, line : Lines]
    BY <1>6
  <2>2. messages' = messages \cup New /\ messages \subseteq [id : Nat, line : Lines]
    BY DEF Ingest, TypeOK
  <2> HIDE DEF New
  <2> QED
    BY <2>1, <2>2
<1> QED
  BY <1>4, <1>5, <1>7

\* What the request names is covered once it is served.
LEMMA IngestCovers ==
  ASSUME TypeOK, LedgerExact, NEW r \in Requests, r.to <= Len(r.scan), Ingest(r)
  PROVE  \A i \in r.from + 1..r.to :
           Storable(r.scan[i]) => \E m \in messages' : KeyOf[m.line] = KeyOf[r.scan[i]]
<1> SUFFICES ASSUME NEW i \in r.from + 1..r.to, Storable(r.scan[i])
             PROVE  \E m \in messages' : KeyOf[m.line] = KeyOf[r.scan[i]]
  OBVIOUS
<1>1. i \in Batch(r)
  BY DEF Batch, Storable
<1>2. CASE KeyOf[r.scan[i]] \in ledger
  BY <1>2, IngestTyped DEF LedgerExact
<1>3. CASE KeyOf[r.scan[i]] \notin ledger
  <2>1. PICK p \in Fresh(r) : KeyOf[r.scan[p]] = KeyOf[r.scan[i]]
    BY <1>1, <1>3, FreshForKey
  <2>2. [id |-> Number(r, p), line |-> r.scan[p]] \in messages'
    BY DEF Ingest
  <2> QED
    BY <2>1, <2>2
<1> QED
  BY <1>2, <1>3

\* One row for each key, and the ledger knows it.
LEMMA IngestExact ==
  ASSUME TypeOK, LedgerExact, NEW r \in Requests, r.to <= Len(r.scan), Ingest(r)
  PROVE  LedgerExact'
<1> DEFINE Row(i) == [id |-> Number(r, i), line |-> r.scan[i]]
<1>0. lastId \in Nat /\ Fresh(r) \in SUBSET Nat
  <2>1. r.from \in Nat /\ r.to \in Nat /\ lastId \in Nat
    BY DEF TypeOK, Requests
  <2>2. Fresh(r) \subseteq r.from + 1..r.to
    BY FreshNumbers
  <2> QED
    BY <2>1, <2>2
<1>1. messages' = messages \cup {Row(i) : i \in Fresh(r)}
  BY DEF Ingest
<1>2. \A i \in Fresh(r) : Row(i).id = Number(r, i) /\ Row(i).line = r.scan[i]
  OBVIOUS
<1>3. \A i \in Fresh(r) : Row(i).id > lastId /\ Row(i).id <= lastId'
  BY <1>0, FreshNumbers DEF Number, Ingest
<1>4. \A i, k \in Fresh(r) : KeyOf[r.scan[i]] = KeyOf[r.scan[k]] => i = k
  BY <1>0 DEF Fresh
<1>5. \A i \in Fresh(r) : KeyOf[r.scan[i]] \notin ledger
  BY DEF Fresh
<1> HIDE DEF Row
<1>6. ledger' = {KeyOf[m.line] : m \in messages'}
  <2>1. ledger' = ledger \cup {KeyOf[r.scan[i]] : i \in Fresh(r)}
    BY DEF Ingest
  <2>2. \A i \in Fresh(r) : KeyOf[Row(i).line] = KeyOf[r.scan[i]]
    BY <1>2
  <2> QED
    BY <1>1, <2>1, <2>2 DEF LedgerExact
<1>7. \A m \in messages' : m.id <= lastId'
  <2>1. \A m \in messages : m.id <= lastId /\ m.id \in Nat
    BY DEF LedgerExact, TypeOK
  <2>2. lastId <= lastId' /\ lastId' \in Nat
    BY IngestTyped
  <2> QED
    BY <1>0, <1>1, <1>3, <2>1, <2>2
<1>8. ASSUME NEW m \in messages', NEW n \in messages', KeyOf[m.line] = KeyOf[n.line]
      PROVE  m = n
  <2>1. CASE m \in messages /\ n \in messages
    BY <1>8, <2>1 DEF LedgerExact
  <2>2. CASE m \in messages /\ n \notin messages
    <3>1. PICK k \in Fresh(r) : n = Row(k)
      BY <1>1, <2>2
    <3> QED
      BY <1>2, <1>5, <1>8, <2>2, <3>1 DEF LedgerExact
  <2>3. CASE m \notin messages /\ n \in messages
    <3>1. PICK k \in Fresh(r) : m = Row(k)
      BY <1>1, <2>3
    <3> QED
      BY <1>2, <1>5, <1>8, <2>3, <3>1 DEF LedgerExact
  <2>4. CASE m \notin messages /\ n \notin messages
    <3>1. PICK i \in Fresh(r), k \in Fresh(r) : m = Row(i) /\ n = Row(k)
      BY <1>1, <2>4
    <3> QED
      BY <1>2, <1>4, <1>8, <3>1
  <2> QED
    BY <2>1, <2>2, <2>3, <2>4
<1> QED
  BY <1>6, <1>7, <1>8 DEF LedgerExact

\* A request that covers everything before it keeps the order of the file.
LEMMA IngestInOrder ==
  ASSUME TypeOK, LedgerExact, InOrder, NEW r \in Requests, r.to <= Len(r.scan),
         rewrites = 0 => Begins(r.scan), \A i \in 1..r.from : Covered(r.scan[i]),
         Ingest(r), UNCHANGED fileVars
  PROVE  InOrder'
<1> DEFINE Row(p) == [id |-> Number(r, p), line |-> r.scan[p]]
<1>0. View' = View /\ rewrites' = rewrites /\ (\A k : IsFirst(k)' <=> IsFirst(k))
  BY DEF fileVars, View, IsFirst
<1>a. \A k : Storable(View[k])' <=> Storable(View[k])
  BY <1>0 DEF Storable, Sendable
<1> SUFFICES ASSUME rewrites = 0, NEW j \in DOMAIN View, NEW i \in 1..j - 1,
                    Storable(View[i]), Storable(View[j]), IsFirst(j),
                    NEW n \in messages', KeyOf[n.line] = KeyOf[View[j]]
             PROVE  \E m \in messages' : KeyOf[m.line] = KeyOf[View[i]] /\ m.id < n.id
  BY <1>0, <1>a DEF InOrder
<1>1. View \in Seq(Lines) /\ j \in Nat /\ i \in Nat /\ i < j /\ lastId \in Nat
  BY ViewTyped DEF TypeOK
<1>2. messages' = messages \cup {Row(p) : p \in Fresh(r)} /\ messages \subseteq messages'
  BY DEF Ingest
<1>3. CASE n \in messages
  BY <1>2, <1>3 DEF InOrder
<1>4. CASE n \notin messages
  <2>1. PICK q \in Fresh(r) : n = Row(q)
    BY <1>2, <1>4
  <2>2. n.id = Number(r, q) /\ n.line = r.scan[q]
    BY <2>1
  <2>3. q \in r.from + 1..r.to /\ q \in 1..Len(r.scan) /\ q \in Nat /\ Storable(r.scan[q])
    <3>1. r.scan \in Seq(Lines) /\ r.from \in Nat /\ r.to \in Nat
      BY DEF Requests
    <3>2. q \in r.from + 1..r.to /\ Storable(r.scan[q])
      BY DEF Fresh, Batch
    <3> QED
      BY <3>1, <3>2
  <2>4. \A k \in 1..Len(r.scan) : r.scan[k] = View[k]
    BY DEF Begins
  <2>5. Number(r, q) \in Nat /\ lastId < Number(r, q)
    BY <1>1, FreshNumbers DEF Number
  <2>6. i < q
    <3>1. ~(q \in 1..j - 1)
      BY <2>2, <2>3, <2>4 DEF IsFirst
    <3> QED
      BY <1>1, <2>3, <3>1
  <2>7. r.scan[i] = View[i] /\ i \in 1..Len(r.scan)
    BY <1>1, <2>3, <2>4, <2>6
  <2>8. CASE Stored(View[i])
    <3>1. PICK m \in messages : KeyOf[m.line] = KeyOf[View[i]]
      BY <2>8 DEF Stored
    <3>2. m.id <= lastId /\ m.id \in Nat
      BY <3>1 DEF LedgerExact, TypeOK
    <3> QED
      BY <1>1, <1>2, <2>2, <2>5, <3>1, <3>2
  <2>9. CASE ~Stored(View[i])
    <3>1. i \in r.from + 1..r.to
      BY <1>1, <2>3, <2>6, <2>7, <2>9 DEF Covered, Requests
    <3>2. i \in Batch(r)
      BY <2>7, <3>1 DEF Batch, Storable
    <3>3. KeyOf[r.scan[i]] \notin ledger
      BY <2>7, <2>9 DEF LedgerExact, Stored
    <3>4. PICK p \in Fresh(r) : p <= i /\ KeyOf[r.scan[p]] = KeyOf[r.scan[i]]
      BY <2>7, <3>2, <3>3, FreshForKey
    <3>5. p \in Nat /\ p < q
      <4>1. p \in r.from + 1..r.to /\ r.from \in Nat /\ r.to \in Nat
        BY DEF Fresh, Batch, Requests
      <4>2. p \in Nat
        BY <4>1
      <4>3. i \in Nat /\ q \in Nat
        BY <1>1, <2>3
      <4> QED
        BY <2>6, <3>4, <4>2, <4>3
    <3>6. Number(r, p) < Number(r, q)
      <4> DEFINE size(k) == Cardinality({l \in Fresh(r) : l <= k})
      <4>1. size(p) < size(q) /\ size(p) \in Nat /\ size(q) \in Nat
        BY <3>5, FreshNumbers
      <4>2. Number(r, p) = lastId + size(p) /\ Number(r, q) = lastId + size(q)
        BY DEF Number
      <4> HIDE DEF size
      <4> QED
        BY <1>1, <4>1, <4>2
    <3>7. Row(p) \in messages' /\ Row(p).id = Number(r, p) /\ Row(p).line = r.scan[p]
      BY <1>2
    <3> QED
      BY <2>2, <2>7, <3>4, <3>6, <3>7
  <2> QED
    BY <2>8, <2>9
<1> QED
  BY <1>3, <1>4

-------------------------------------------------------------------------------
(* Types *)

LEMMA TypedParts == Typed <=> TypeOK /\ LateInside
BY DEF Typed, TypeOK, RunTyped, FileTyped, TablesTyped, LateTyped, Places

LEMMA EndsTyped ==
  ASSUME TypeOK, NEW h \in Hooks, Ends(h) PROVE RunTyped'
<1>1. 0 \in 0..Attempts - 1 /\ <<>> \in Seq(Lines) /\ Len(<<>>) = 0
  BY SizesAssumption
<1>2. pc' \in [Hooks -> Places] /\ session' \in [Hooks -> Sessions \cup {NoSession}]
  BY DEF Ends, TypeOK, Places
<1>3. scan' \in [Hooks -> Seq(Lines)] /\ full' \in [Hooks -> Nat] /\ pos' \in [Hooks -> Nat]
      /\ tries' \in [Hooks -> 0..Attempts - 1] /\ seen' \in [Hooks -> Nat]
  BY <1>1 DEF Ends, TypeOK
<1>4. \A g \in Hooks : full'[g] <= Len(scan'[g]) /\ pos'[g] <= Len(scan'[g])
  <2> TAKE g \in Hooks
  <2>1. CASE g = h
    BY <1>1, <2>1 DEF Ends, TypeOK
  <2>2. CASE g # h
    BY <2>2 DEF Ends, TypeOK
  <2> QED
    BY <2>1, <2>2
<1> QED
  BY <1>2, <1>3, <1>4 DEF RunTyped

\* A run reads what is there: its prefix, then the file.
LEMMA SplicedTyped ==
  ASSUME NEW p \in Seq(Lines), NEW v \in Seq(Lines)
  PROVE  /\ Spliced(p, v) \in Seq(Lines)
         /\ Len(Spliced(p, v)) = IF Len(p) < Len(v) THEN Len(v) ELSE Len(p)
         /\ \A i \in 1..Len(p) : Spliced(p, v)[i] = p[i]
         /\ \A i \in Len(p) + 1..Len(v) : Spliced(p, v)[i] = v[i]
<1> DEFINE n == IF Len(p) < Len(v) THEN Len(v) ELSE Len(p)
<1>1. n \in Nat
  OBVIOUS
<1>2. \A i \in 1..n : (IF i <= Len(p) THEN p[i] ELSE v[i]) \in Lines
  OBVIOUS
<1>3. Spliced(p, v) = [i \in 1..n |-> IF i <= Len(p) THEN p[i] ELSE v[i]]
  BY DEF Spliced
<1> HIDE DEF n
<1>4. Spliced(p, v) \in [1..n -> Lines]
  BY <1>2, <1>3
<1>5. Spliced(p, v) \in Seq(Lines) /\ Len(Spliced(p, v)) = n
  BY <1>1, <1>4
<1> QED
  BY <1>1, <1>3, <1>5 DEF n

LEMMA RequestTyped ==
  ASSUME TypeOK, NEW h \in Hooks
  PROVE  /\ Request(h) \in Requests /\ Request(h).to <= Len(Request(h).scan)
         /\ Request(h).scan = scan[h] /\ Request(h).from = pos[h] /\ Request(h).to = BatchEnd(h)
<1>1. scan[h] \in Seq(Lines) /\ pos[h] \in Nat /\ BatchEnd(h) \in Nat /\ BatchEnd(h) <= Len(scan[h])
  BY BatchEndBounds DEF TypeOK
<1> QED
  BY <1>1 DEF Request, Requests

LEMMA HostTyped ==
  ASSUME Typed, Host PROVE Typed'
<1>1. FileTyped'
  <2>1. CASE \E l \in Lines : AppendRow(l)
    BY <2>1 DEF AppendRow, FileTyped, Typed
  <2>2. CASE EndLine
    BY <2>2 DEF EndLine, FileTyped, Typed
  <2>3. CASE Rewrite
    <3>1. tail' = NoLine /\ rewrites' \in Nat
      BY <2>3 DEF Rewrite, Typed, FileTyped
    <3>2. ASSUME NEW l \in Lines, NEW i \in DOMAIN file,
                 file' = [file EXCEPT ![i] = l] \/ file' = <<l>>
          PROVE  FileTyped'
      <4>1. CASE file' = [file EXCEPT ![i] = l]
        BY <3>1, <4>1 DEF FileTyped, Typed
      <4>2. CASE file' = <<l>>
        BY <3>1, <4>2 DEF FileTyped, Typed
      <4> QED
        BY <3>2, <4>1, <4>2
    <3>3. CASE \E n \in 0..Len(file) - 1 : file' = SubSeq(file, 1, n)
      BY <3>1, <3>3 DEF FileTyped, Typed
    <3> QED
      BY <2>3, <3>2, <3>3 DEF Rewrite
  <2> QED
    BY <2>1, <2>2, <2>3 DEF Host
<1>2. UNCHANGED <<cursor, pc, runVars, late, dbVars, faults>>
  BY DEF Host
<1> QED
  BY <1>1, <1>2, TypedParts DEF RunTyped, TablesTyped, LateTyped, LateInside, Typed, runVars, dbVars

LEMMA RunStepTyped ==
  ASSUME Typed, NEW h \in Hooks, RunStep(h) PROVE Typed'
<1>0. TypeOK /\ View \in Seq(Lines)
  BY TypedParts, ViewTyped
<1>1. ASSUME NEW s \in Payloads, Open(h, s) PROVE Typed'
  <2> DEFINE start == ResumeOffset(cursor, s)
             kept == SubSeq(View, 1, start)
  <2>1. start \in 0..Len(View)
    BY <1>0, ResumeBounds
  <2>2. kept \in Seq(Lines) /\ Len(kept) = start /\ start \in Nat
    BY <1>0, <2>1
  <2>3. s \in Sessions \cup {NoSession}
    BY LinesAssumption
  <2>4. /\ pc' = [pc EXCEPT ![h] = "scan"] /\ session' = [session EXCEPT ![h] = s]
        /\ scan' = [scan EXCEPT ![h] = kept] /\ full' = [full EXCEPT ![h] = start]
        /\ pos' = [pos EXCEPT ![h] = start]
        /\ UNCHANGED <<fileVars, cursor, tries, seen, late, dbVars, faults>>
    BY <1>1 DEF Open
  <2> HIDE DEF start, kept
  <2>5. RunTyped'
    BY <1>0, <2>2, <2>3, <2>4 DEF RunTyped, TypeOK, Places
  <2> QED
    BY <2>4, <2>5, TypedParts DEF FileTyped, TablesTyped, LateTyped, LateInside, Typed, fileVars, dbVars
<1>2. CASE Scan(h)
  <2> DEFINE new == Spliced(scan[h], View)
             n == IF full[h] < Len(file) THEN Len(file) ELSE full[h]
  <2>1. new \in Seq(Lines) /\ Len(new) >= Len(scan[h]) /\ Len(new) >= Len(View)
    BY <1>0, SplicedTyped DEF TypeOK
  <2>2. n \in Nat /\ n <= Len(new)
    <3>1. Len(file) \in Nat /\ Len(file) <= Len(View) /\ Len(View) \in Nat
      BY <1>0, ViewTyped DEF TypeOK
    <3>2. full[h] \in Nat /\ full[h] <= Len(scan[h]) /\ Len(scan[h]) \in Nat /\ Len(new) \in Nat
      BY <1>0, <2>1 DEF TypeOK
    <3> QED
      BY <2>1, <3>1, <3>2
  <2>3. pos[h] <= Len(new)
    BY <1>0, <2>1 DEF TypeOK
  <2>4. /\ pc' = [pc EXCEPT ![h] = "post"] /\ scan' = [scan EXCEPT ![h] = new]
        /\ full' = [full EXCEPT ![h] = n]
        /\ UNCHANGED <<fileVars, cursor, session, pos, tries, seen, late, dbVars, faults>>
    BY <1>2 DEF Scan
  <2> HIDE DEF new, n
  <2>5. RunTyped'
    BY <1>0, <2>1, <2>2, <2>3, <2>4 DEF RunTyped, TypeOK, Places
  <2> QED
    BY <2>4, <2>5, TypedParts DEF FileTyped, TablesTyped, LateTyped, LateInside, Typed, fileVars, dbVars
<1>3. CASE ScanTooLarge(h)
  BY <1>0, <1>3, EndsTyped, TypedParts
     DEF ScanTooLarge, FileTyped, TablesTyped, LateTyped, LateInside, Typed, fileVars, dbVars
<1>4. CASE Post(h)
  <2>1. TablesTyped'
    BY <1>0, <1>4, RequestTyped, IngestTyped DEF Post, TablesTyped
  <2>2. BatchEnd(h) \in Nat /\ BatchEnd(h) <= Len(scan[h])
    BY <1>0, BatchEndBounds DEF TypeOK
  <2>3. RunTyped'
    BY <1>0, <1>4, <2>2, SizesAssumption DEF Post, RunTyped, TypeOK, Places
  <2> QED
    BY <1>4, <2>1, <2>3, TypedParts DEF Post, FileTyped, LateTyped, LateInside, Typed, fileVars
<1>5. CASE ReadCursor(h)
  <2>1. RunTyped'
    <3>1. Offset(cursor) \in Nat
      BY <1>0 DEF TypeOK, Cursors, Offset
    <3>2. CASE Ends(h)
      BY <1>0, <3>2, EndsTyped
    <3>3. CASE pc' = [pc EXCEPT ![h] = "replace"] /\ seen' = [seen EXCEPT ![h] = Offset(cursor)]
               /\ UNCHANGED <<session, scan, full, pos, tries>>
      BY <1>0, <3>1, <3>3 DEF RunTyped, TypeOK, Places
    <3> QED
      BY <1>5, <3>2, <3>3 DEF ReadCursor
  <2> QED
    BY <1>5, <2>1, TypedParts
       DEF ReadCursor, FileTyped, TablesTyped, LateTyped, LateInside, Typed, fileVars, dbVars
<1>6. CASE ReplaceCursor(h)
  <2>1. NextCursor(h) \in Cursors
    BY <1>0 DEF TypeOK, NextCursor, Cursors
  <2>2. cursor' \in Cursors /\ RunTyped'
    BY <1>0, <1>6, <2>1, EndsTyped DEF ReplaceCursor, TypeOK
  <2> QED
    BY <1>6, <2>2, TypedParts
       DEF ReplaceCursor, FileTyped, TablesTyped, LateTyped, LateInside, Typed, fileVars, dbVars
<1> QED
  BY <1>1, <1>2, <1>3, <1>4, <1>5, <1>6 DEF RunStep

LEMMA RetryTyped ==
  ASSUME TypeOK, NEW h \in Hooks, RetryOrEnd(h) PROVE RunTyped'
<1>1. CASE Ends(h)
  BY <1>1, EndsTyped
<1>2. CASE /\ tries[h] + 1 < Attempts
           /\ tries' = [tries EXCEPT ![h] = @ + 1]
           /\ UNCHANGED <<pc, session, scan, full, pos, seen>>
  <2>1. tries[h] + 1 \in 0..Attempts - 1
    BY <1>2, SizesAssumption DEF TypeOK
  <2>2. tries' = [tries EXCEPT ![h] = tries[h] + 1]
    BY <1>2
  <2>3. tries' \in [Hooks -> 0..Attempts - 1]
    BY <2>1, <2>2 DEF TypeOK
  <2> QED
    BY <1>2, <2>3 DEF RunTyped, TypeOK, Places
<1> QED
  BY <1>1, <1>2 DEF RetryOrEnd

LEMMA FaultStepTyped ==
  ASSUME Typed, NEW h \in Hooks, FaultStep(h) PROVE Typed'
<1>0. TypeOK /\ LateInside
  BY TypedParts
<1>1. faults' \in Nat
  BY <1>0 DEF FaultStep, AttemptFails, TimesOut, ReplyLost, Killed, Fault, TypeOK
<1>2. RunTyped'
  <2>1. RetryOrEnd(h) \/ Ends(h)
    BY DEF FaultStep, AttemptFails, TimesOut, ReplyLost, Killed
  <2> QED
    BY <1>0, <2>1, RetryTyped, EndsTyped
<1>3. TablesTyped'
  <2>1. CASE ReplyLost(h)
    BY <1>0, <2>1, RequestTyped, IngestTyped DEF ReplyLost, TablesTyped
  <2>2. CASE ~ReplyLost(h)
    BY <1>0, <2>2
       DEF FaultStep, AttemptFails, TimesOut, Killed, TablesTyped, TypeOK, dbVars
  <2> QED
    BY <2>1, <2>2
<1>4. LateTyped'
  <2>1. CASE TimesOut(h)
    <3>1. late' = late \cup {Request(h)}
      BY <2>1 DEF TimesOut
    <3> QED
      BY <1>0, <3>1, RequestTyped DEF LateTyped, LateInside, TypeOK
  <2>2. CASE ~TimesOut(h)
    BY <1>0, <2>2
       DEF FaultStep, AttemptFails, ReplyLost, Killed, LateTyped, LateInside, TypeOK
  <2> QED
    BY <2>1, <2>2
<1> QED
  BY <1>1, <1>2, <1>3, <1>4
     DEF FaultStep, AttemptFails, TimesOut, ReplyLost, Killed, Typed, FileTyped, fileVars

LEMMA OtherTyped ==
  ASSUME Typed, ServeLate \/ LoseCursor PROVE Typed'
<1>0. TypeOK /\ LateInside
  BY TypedParts
<1>1. CASE ServeLate
  <2>1. PICK r \in late : /\ late' = late \ {r}
                          /\ Ingest(r) \/ UNCHANGED dbVars
                          /\ UNCHANGED <<fileVars, cursor, pc, runVars, faults>>
    BY <1>1 DEF ServeLate
  <2>2. r \in Requests /\ r.to <= Len(r.scan)
    BY <1>0 DEF TypeOK, LateInside
  <2>3. TablesTyped'
    BY <1>0, <2>1, <2>2, IngestTyped DEF TablesTyped, TypeOK, dbVars
  <2>4. LateTyped'
    BY <1>0, <2>1 DEF LateTyped, LateInside, TypeOK
  <2> QED
    BY <2>1, <2>3, <2>4 DEF Typed, FileTyped, RunTyped, fileVars, runVars
<1>2. CASE LoseCursor
  BY <1>2 DEF LoseCursor, Fault, Cursors, Typed, FileTyped, RunTyped, TablesTyped, LateTyped,
              LateInside, fileVars, runVars, dbVars
<1> QED
  BY <1>1, <1>2

LEMMA InitTyped == Init => Typed
<1> SUFFICES ASSUME Init PROVE Typed
  OBVIOUS
<1>1. 0 \in 0..Attempts - 1 /\ <<>> \in Seq(Lines) /\ Len(<<>>) = 0
  BY SizesAssumption
<1>2. RunTyped
  BY <1>1 DEF Init, RunTyped, Places
<1> QED
  BY <1>1, <1>2 DEF Init, Typed, FileTyped, TablesTyped, LateTyped, LateInside, Cursors

LEMMA StepTyped == Typed /\ [Next]_vars => Typed'
<1> SUFFICES ASSUME Typed, [Next]_vars PROVE Typed'
  OBVIOUS
<1>1. CASE Next
  BY <1>1, HostTyped, RunStepTyped, FaultStepTyped, OtherTyped DEF Next
<1>2. CASE UNCHANGED vars
  BY <1>2 DEF vars, Typed, FileTyped, RunTyped, TablesTyped, LateTyped, LateInside,
              fileVars, runVars, dbVars
<1> QED
  BY <1>1, <1>2

\* Runs stay inside what they scanned, tries inside their limit, ids inside
\* the ledger, for any hooks and lines (recorders/cli.py 461).
THEOREM TypesHold == Spec => []TypeOK
<1>1. Typed => TypeOK
  BY TypedParts
<1> QED
  BY InitTyped, StepTyped, <1>1, PTL DEF Spec

-------------------------------------------------------------------------------
(* Nothing is skipped *)

\* Rows are only added, so what was covered stays covered.
LEMMA MessagesGrow ==
  ASSUME Typed, [Next]_vars PROVE messages \subseteq messages'
<1>0. TypeOK /\ LateInside
  BY TypedParts
<1>1. ASSUME NEW h \in Hooks, Post(h) \/ ReplyLost(h) PROVE messages \subseteq messages'
  BY <1>0, <1>1, RequestTyped, IngestTyped DEF Post, ReplyLost
<1>2. CASE ServeLate
  BY <1>0, <1>2, IngestTyped DEF ServeLate, TypeOK, LateInside, dbVars
<1>3. CASE UNCHANGED dbVars
  BY <1>3 DEF dbVars
<1>4. (\E h \in Hooks : Post(h) \/ ReplyLost(h)) \/ ServeLate \/ UNCHANGED dbVars
  BY DEF Next, Host, RunStep, FaultStep, Open, Scan, ScanTooLarge, ReadCursor, ReplaceCursor,
         AttemptFails, TimesOut, Killed, LoseCursor, vars, dbVars
<1> QED
  BY <1>1, <1>2, <1>3, <1>4

\* A run that ends or tries again has nothing new behind it.
LEMMA EndsCovered ==
  ASSUME TypeOK, ScansCovered, PostedAll, NEW h \in Hooks, RetryOrEnd(h) \/ Ends(h),
         messages \subseteq messages'
  PROVE  ScansCovered' /\ PostedAll'
<1>1. CASE Ends(h)
  <2>1. \A g \in Hooks : g # h =>
           pos'[g] = pos[g] /\ scan'[g] = scan[g] /\ pc'[g] = pc[g]
    BY <1>1 DEF Ends, TypeOK
  <2>2. pos'[h] = 0 /\ pc'[h] = "idle"
    BY <1>1 DEF Ends, TypeOK
  <2>3. PostedAll'
    BY <2>1, <2>2 DEF PostedAll
  <2>4. ScansCovered'
    <3>1. ASSUME NEW g \in Hooks, NEW i \in 1..pos'[g]
          PROVE  Storable(scan'[g][i]) => \E m \in messages' : KeyOf[m.line] = KeyOf[scan'[g][i]]
      <4>1. g # h
        BY <2>2
      <4> QED
        BY <2>1, <4>1 DEF ScansCovered, Covered, Stored
    <3> QED
      BY <3>1 DEF ScansCovered, Covered, Stored, Storable, Sendable
  <2> QED
    BY <2>3, <2>4
<1>2. CASE ~Ends(h)
  <2>1. pc' = pc /\ scan' = scan /\ pos' = pos
    BY <1>2 DEF RetryOrEnd
  <2>2. ScansCovered'
    BY <2>1 DEF ScansCovered, Covered, Stored, Storable, Sendable
  <2> QED
    BY <2>1, <2>2 DEF PostedAll
<1> QED
  BY <1>1, <1>2

\* What does not touch the runs leaves what they have behind them covered.
LEMMA RestCovered ==
  ASSUME messages \subseteq messages'
  PROVE  /\ ScansCovered /\ UNCHANGED <<scan, pos>> => ScansCovered'
         /\ LateCovered /\ late' \subseteq late => LateCovered'
         /\ CursorCovered /\ UNCHANGED cursor => CursorCovered'
         /\ PostedAll /\ UNCHANGED <<pc, scan, pos>> => PostedAll'
BY DEF ScansCovered, LateCovered, CursorCovered, PostedAll, Covered, Stored, Storable, Sendable

LEMMA OpenCovered ==
  ASSUME Inv, NEW h \in Hooks, NEW s \in Payloads, Open(h, s) PROVE ScansCovered' /\ PostedAll'
<1> DEFINE start == ResumeOffset(cursor, s)
           kept == SubSeq(View, 1, start)
<1>0. TypeOK /\ View \in Seq(Lines)
  BY TypedParts, ViewTyped DEF Inv
<1>1. /\ start \in 0..Len(View)
      /\ start # 0 => /\ cursor # NoCursor /\ start = Len(cursor.prefix)
                      /\ \A i \in 1..Len(cursor.prefix) : cursor.prefix[i] = View[i]
  BY <1>0, ResumeBounds
<1>2. \A i \in 1..start : kept[i] = View[i]
  BY <1>0, <1>1
<1>3. /\ pc' = [pc EXCEPT ![h] = "scan"]
      /\ scan' = [scan EXCEPT ![h] = kept] /\ pos' = [pos EXCEPT ![h] = start]
      /\ UNCHANGED messages
  BY DEF Open, dbVars
<1>4. \A i \in 1..start : Covered(kept[i])
  BY <1>1, <1>2 DEF Inv, CursorCovered
<1> HIDE DEF start, kept
<1>5. \A g \in Hooks : /\ g = h => pos'[g] = start /\ scan'[g] = kept /\ pc'[g] = "scan"
                       /\ g # h => pos'[g] = pos[g] /\ scan'[g] = scan[g] /\ pc'[g] = pc[g]
  BY <1>0, <1>3 DEF TypeOK
<1>6. ScansCovered'
  BY <1>3, <1>4, <1>5 DEF Inv, ScansCovered, Covered, Stored, Storable, Sendable
<1> QED
  BY <1>5, <1>6 DEF Inv, PostedAll

LEMMA ScanCovered ==
  ASSUME Inv, NEW h \in Hooks, Scan(h) PROVE ScansCovered' /\ PostedAll'
<1> DEFINE new == Spliced(scan[h], View)
<1>0. TypeOK /\ View \in Seq(Lines)
  BY TypedParts, ViewTyped DEF Inv
<1>1. \A i \in 1..pos[h] : new[i] = scan[h][i]
  <2>1. scan[h] \in Seq(Lines) /\ pos[h] \in 0..Len(scan[h])
    BY <1>0 DEF TypeOK
  <2>2. \A i \in 1..Len(scan[h]) : new[i] = scan[h][i]
    BY <1>0, <2>1, SplicedTyped
  <2> QED
    BY <2>1, <2>2
<1>2. /\ pc' = [pc EXCEPT ![h] = "post"] /\ scan' = [scan EXCEPT ![h] = new]
      /\ UNCHANGED <<pos, messages>>
  BY DEF Scan, dbVars
<1> HIDE DEF new
<1>3. \A g \in Hooks : /\ g = h => scan'[g] = new /\ pc'[g] = "post"
                       /\ g # h => scan'[g] = scan[g] /\ pc'[g] = pc[g]
  BY <1>0, <1>2 DEF TypeOK
<1>4. ScansCovered'
  BY <1>1, <1>2, <1>3 DEF Inv, ScansCovered, Covered, Stored, Storable, Sendable
<1> QED
  BY <1>2, <1>3, <1>4 DEF Inv, PostedAll

LEMMA PostCovered ==
  ASSUME Inv, NEW h \in Hooks, Post(h) PROVE ScansCovered' /\ PostedAll'
<1> DEFINE end == BatchEnd(h)
<1>0. TypeOK /\ end \in pos[h]..Len(scan[h]) /\ pos[h] \in Nat
  BY TypedParts, BatchEndBounds DEF Inv, TypeOK
<1>1. messages \subseteq messages'
  BY <1>0, RequestTyped, IngestTyped DEF Post
<1>2. \A i \in pos[h] + 1..end :
        Storable(scan[h][i]) => \E m \in messages' : KeyOf[m.line] = KeyOf[scan[h][i]]
  <2>1. Request(h) \in Requests /\ Request(h).to <= Len(Request(h).scan) /\ Ingest(Request(h))
    BY <1>0, RequestTyped DEF Post
  <2>2. \A i \in Request(h).from + 1..Request(h).to :
          Storable(Request(h).scan[i]) => \E m \in messages' : KeyOf[m.line] = KeyOf[Request(h).scan[i]]
    BY <1>0, <2>1, IngestCovers DEF Inv
  <2> QED
    BY <1>0, <2>2, RequestTyped
<1>3. /\ pc' = [pc EXCEPT ![h] = IF end = Len(scan[h]) THEN "cursor" ELSE "post"]
      /\ pos' = [pos EXCEPT ![h] = end] /\ UNCHANGED scan
  BY DEF Post
<1> HIDE DEF end
<1>4. \A g \in Hooks :
        /\ g = h => pos'[g] = end /\ pc'[g] = IF end = Len(scan[h]) THEN "cursor" ELSE "post"
        /\ g # h => pos'[g] = pos[g] /\ pc'[g] = pc[g]
  BY <1>0, <1>3 DEF TypeOK
<1>5. \A i \in 1..end :
        Storable(scan[h][i]) => \E m \in messages' : KeyOf[m.line] = KeyOf[scan[h][i]]
  <2> TAKE i \in 1..end
  <2>1. CASE i <= pos[h]
    <3>1. Covered(scan[h][i])
      BY <1>0, <2>1 DEF Inv, ScansCovered
    <3> QED
      BY <1>1, <3>1 DEF Covered, Stored
  <2>2. CASE i > pos[h]
    BY <1>0, <1>2, <2>2
  <2> QED
    BY <1>0, <2>1, <2>2
<1>6. ScansCovered'
  BY <1>1, <1>3, <1>4, <1>5 DEF Inv, ScansCovered, Covered, Stored, Storable, Sendable
<1>7. PostedAll'
  BY <1>3, <1>4 DEF Inv, PostedAll
<1> QED
  BY <1>6, <1>7

LEMMA ReplaceCovered ==
  ASSUME Inv, NEW h \in Hooks, ReplaceCursor(h) PROVE CursorCovered'
<1>0. TypeOK
  BY TypedParts DEF Inv
<1>1. messages' = messages
  BY DEF ReplaceCursor, dbVars
<1>2. CASE cursor' = cursor
  BY <1>1, <1>2, RestCovered DEF Inv
<1>3. CASE cursor' = NextCursor(h) /\ NextCursor(h) # NoCursor
  <2>1. pos[h] = Len(scan[h]) /\ full[h] <= Len(scan[h]) /\ full[h] \in Nat /\ scan[h] \in Seq(Lines)
    BY <1>0 DEF Inv, PostedAll, ReplaceCursor, TypeOK
  <2>2. cursor'.prefix = SubSeq(scan[h], 1, full[h])
    BY <1>3 DEF NextCursor
  <2>3. Len(cursor'.prefix) = full[h] /\ \A i \in 1..full[h] : cursor'.prefix[i] = scan[h][i]
    BY <2>1, <2>2
  <2>4. \A i \in 1..full[h] : Covered(scan[h][i])
    BY <2>1 DEF Inv, ScansCovered
  <2> QED
    BY <1>1, <2>3, <2>4 DEF CursorCovered, Covered, Stored, Storable, Sendable
<1>4. CASE cursor' = NoCursor
  BY <1>4 DEF CursorCovered
<1> QED
  BY <1>2, <1>3, <1>4 DEF ReplaceCursor

LEMMA StepExact ==
  ASSUME Inv, [Next]_vars PROVE LedgerExact'
<1>0. TypeOK /\ LateInside /\ LedgerExact
  BY TypedParts DEF Inv
<1>1. ASSUME NEW h \in Hooks, Post(h) \/ ReplyLost(h) PROVE LedgerExact'
  BY <1>0, <1>1, RequestTyped, IngestExact DEF Post, ReplyLost
<1>2. ASSUME NEW r \in late, Ingest(r) PROVE LedgerExact'
  BY <1>0, <1>2, IngestExact DEF TypeOK, LateInside
<1>3. CASE UNCHANGED dbVars
  BY <1>0, <1>3 DEF dbVars, LedgerExact
<1>4. (\E h \in Hooks : Post(h) \/ ReplyLost(h)) \/ (\E r \in late : Ingest(r)) \/ UNCHANGED dbVars
  BY DEF Next, Host, RunStep, FaultStep, Open, Scan, ScanTooLarge, ReadCursor, ReplaceCursor,
         AttemptFails, TimesOut, Killed, LoseCursor, ServeLate, vars, dbVars
<1> QED
  BY <1>1, <1>2, <1>3, <1>4

LEMMA StepScans ==
  ASSUME Inv, [Next]_vars PROVE ScansCovered' /\ PostedAll'
<1>0. TypeOK /\ ScansCovered /\ PostedAll /\ messages \subseteq messages'
  BY TypedParts, MessagesGrow DEF Inv
<1>1. ASSUME NEW h \in Hooks, RunStep(h) PROVE ScansCovered' /\ PostedAll'
  <2>1. CASE \E s \in Payloads : Open(h, s)
    BY <2>1, OpenCovered
  <2>2. CASE Scan(h)
    BY <2>2, ScanCovered
  <2>3. CASE ScanTooLarge(h) \/ ReplaceCursor(h)
    BY <1>0, <2>3, EndsCovered DEF ScanTooLarge, ReplaceCursor
  <2>4. CASE Post(h)
    BY <2>4, PostCovered
  <2>5. CASE ReadCursor(h)
    <3>1. CASE Ends(h)
      BY <1>0, <3>1, EndsCovered
    <3>2. CASE ~Ends(h)
      <4>1. pc' = [pc EXCEPT ![h] = "replace"] /\ pc[h] = "cursor" /\ UNCHANGED <<scan, pos>>
        BY <2>5, <3>2 DEF ReadCursor
      <4>2. ScansCovered'
        BY <1>0, <4>1, RestCovered
      <4> QED
        BY <1>0, <4>1, <4>2 DEF PostedAll, TypeOK
    <3> QED
      BY <3>1, <3>2
  <2> QED
    BY <1>1, <2>1, <2>2, <2>3, <2>4, <2>5 DEF RunStep
<1>2. ASSUME NEW h \in Hooks, FaultStep(h) PROVE ScansCovered' /\ PostedAll'
  BY <1>0, <1>2, EndsCovered DEF FaultStep, AttemptFails, TimesOut, ReplyLost, Killed
<1>3. CASE Host \/ ServeLate \/ LoseCursor \/ UNCHANGED vars
  <2>1. UNCHANGED <<pc, scan, pos>>
    BY <1>3 DEF Host, ServeLate, LoseCursor, vars, runVars
  <2> QED
    BY <1>0, <2>1, RestCovered
<1> QED
  BY <1>1, <1>2, <1>3 DEF Next

LEMMA StepLate ==
  ASSUME Inv, [Next]_vars PROVE LateCovered'
<1>0. TypeOK /\ LateCovered /\ messages \subseteq messages'
  BY TypedParts, MessagesGrow DEF Inv
<1>1. ASSUME NEW h \in Hooks, TimesOut(h) PROVE LateCovered'
  <2>1. late' = late \cup {Request(h)}
    BY <1>1 DEF TimesOut
  <2>2. Request(h).from = pos[h] /\ Request(h).scan = scan[h]
    BY <1>0, RequestTyped
  <2>3. \A i \in 1..pos[h] : Covered(scan[h][i])
    BY DEF Inv, ScansCovered
  <2> QED
    BY <1>0, <2>1, <2>2, <2>3 DEF LateCovered, Covered, Stored, Storable, Sendable
<1>2. (\E h \in Hooks : TimesOut(h)) \/ late' \subseteq late
  BY DEF Next, Host, RunStep, FaultStep, Open, Scan, ScanTooLarge, Post, ReadCursor, ReplaceCursor,
         AttemptFails, ReplyLost, Killed, LoseCursor, ServeLate, vars
<1> QED
  BY <1>0, <1>1, <1>2, RestCovered

LEMMA StepCursor ==
  ASSUME Inv, [Next]_vars PROVE CursorCovered'
<1>0. CursorCovered /\ messages \subseteq messages'
  BY MessagesGrow DEF Inv
<1>1. CASE LoseCursor
  BY <1>1 DEF LoseCursor, CursorCovered
<1>2. (\E h \in Hooks : ReplaceCursor(h)) \/ LoseCursor \/ UNCHANGED cursor
  BY DEF Next, Host, RunStep, FaultStep, Open, Scan, ScanTooLarge, Post, ReadCursor,
         AttemptFails, TimesOut, ReplyLost, Killed, ServeLate, vars
<1> QED
  BY <1>0, <1>1, <1>2, ReplaceCovered, RestCovered

LEMMA InitInv == Init => Inv
<1> SUFFICES ASSUME Init PROVE Inv
  OBVIOUS
<1>1. Typed
  BY InitTyped
<1> QED
  BY <1>1 DEF Init, Inv, LedgerExact, ScansCovered, LateCovered, CursorCovered, PostedAll

LEMMA StepInv == Inv /\ [Next]_vars => Inv'
BY StepTyped, StepExact, StepScans, StepLate, StepCursor DEF Inv

\* However hooks overlap, die, time out and are served late, and however the
\* file is rewritten, what a run resumes over is stored or was rejected
\* (recorders/cli.py 508, recorders/claude_code.py 211).
THEOREM NeverSkips == Spec => []NothingSkipped
<1>1. Inv => NothingSkipped
  <2> SUFFICES ASSUME Inv, NEW s \in Sessions \cup {NoSession},
                      NEW i \in 1..ResumeOffset(cursor, s)
               PROVE  Covered(View[i])
    BY DEF NothingSkipped
  <2>1. TypeOK
    BY TypedParts DEF Inv
  <2>2. ResumeOffset(cursor, s) # 0
    BY <2>1, ResumeBounds
  <2>3. i \in 1..Len(cursor.prefix) /\ cursor.prefix[i] = View[i] /\ cursor # NoCursor
    BY <2>1, <2>2, ResumeBounds
  <2> QED
    BY <2>3 DEF Inv, CursorCovered
<1> QED
  BY InitInv, StepInv, <1>1, PTL DEF Spec

-------------------------------------------------------------------------------
(* The server's tables keep the promises of SourceLog *)

Log == INSTANCE SourceLog WITH Fit <- {l \in Lines : Storable(l)},
                               log <- messages, keys <- ledger, last <- lastId

\* A one-to-one image is as large.
LEMMA SameSize ==
  ASSUME NEW S, IsFiniteSet(S), NEW T, NEW F \in [S -> T],
         \A a, b \in S : F[a] = F[b] => a = b, \A t \in T : \E a \in S : F[a] = t
  PROVE  IsFiniteSet(T) /\ Cardinality(T) = Cardinality(S)
<1>1. F \in Bijection(S, T)
  <2>1. F \in Injection(S, T)
    BY DEF Injection, IsInjective
  <2>2. F \in Surjection(S, T)
    BY DEF Surjection
  <2> QED
    BY <2>1, <2>2 DEF Bijection
<1>2. ExistsBijection(S, T)
  BY <1>1 DEF ExistsBijection
<1> QED
  BY <1>2, FS_Bijection

\* A one-to-one map into as many is onto.
LEMMA AllTaken ==
  ASSUME NEW S, NEW T, IsFiniteSet(S), IsFiniteSet(T), Cardinality(S) = Cardinality(T),
         NEW F \in [S -> T], \A a, b \in S : F[a] = F[b] => a = b
  PROVE  {F[a] : a \in S} = T
<1> DEFINE I == {F[a] : a \in S}
<1>1. I \in SUBSET T /\ F \in [S -> I] /\ \A t \in I : \E a \in S : F[a] = t
  OBVIOUS
<1> HIDE DEF I
<1>2. Cardinality(I) = Cardinality(S)
  BY <1>1, SameSize
<1>3. Cardinality(T) = Cardinality(I) => T = I
  BY <1>1, FS_Subset
<1>4. T = I
  BY <1>2, <1>3
<1> QED
  BY <1>4 DEF I

LEMMA NumbersAfter ==
  ASSUME NEW k \in Nat, NEW n \in Nat
  PROVE  IsFiniteSet(k + 1..k + n) /\ Cardinality(k + 1..k + n) = n
<1>1. k + 1 \in Int /\ k + n \in Int
  OBVIOUS
<1>2. /\ IsFiniteSet(k + 1..k + n)
      /\ Cardinality(k + 1..k + n) = IF k + 1 > k + n THEN 0 ELSE k + n - (k + 1) + 1
  BY <1>1, FS_Interval
<1>3. (IF k + 1 > k + n THEN 0 ELSE k + n - (k + 1) + 1) = n
  OBVIOUS
<1> QED
  BY <1>2, <1>3

\* A request adds records to the end of the log.
LEMMA IngestAdds ==
  ASSUME TypeOK, LedgerExact, NEW r \in Requests, r.to <= Len(r.scan), Ingest(r)
  PROVE  Log!Next
<1> DEFINE S == Fresh(r)
           n == Cardinality(Fresh(r))
           Row(i) == [id |-> Number(r, i), line |-> r.scan[i]]
           New == {Row(i) : i \in S}
<1>0. /\ lastId \in Nat /\ S \in SUBSET Nat /\ n \in Nat /\ IsFiniteSet(S)
  <2>1. /\ r.from \in Nat /\ r.to \in Nat /\ lastId \in Nat
        /\ r.from + 1 \in Int /\ r.to \in Int
    BY DEF TypeOK, Requests
  <2>2. S \in SUBSET (r.from + 1..r.to) /\ n \in Nat
    BY FreshNumbers
  <2>3. IsFiniteSet(r.from + 1..r.to)
    BY <2>1, FS_Interval
  <2>4. IsFiniteSet(S)
    BY <2>2, <2>3, FS_Subset
  <2> QED
    BY <2>1, <2>2, <2>4
<1>1. /\ \A i \in S : Number(r, i) \in lastId + 1..lastId + n
      /\ \A i, k \in S : i < k => Number(r, i) < Number(r, k)
  <2> DEFINE Rank(i) == Cardinality({j \in Fresh(r) : j <= i})
  <2>1. /\ \A i \in S : Rank(i) \in 1..n
        /\ \A i, k \in S : i < k => Rank(i) < Rank(k)
    BY FreshNumbers
  <2>2. \A i \in S : Number(r, i) = lastId + Rank(i)
    BY DEF Number
  <2> HIDE DEF S, n, Rank
  <2> QED
    BY <1>0, <2>1, <2>2
<1>2. \A i, k \in S : Number(r, i) = Number(r, k) => i = k
  <2> SUFFICES ASSUME NEW i \in S, NEW k \in S, Number(r, i) = Number(r, k) PROVE i = k
    OBVIOUS
  <2>1. i \in Nat /\ k \in Nat /\ Number(r, i) \in Int /\ Number(r, k) \in Int
    BY <1>0, <1>1
  <2>2. ~(i < k) /\ ~(k < i)
    BY <1>1, <2>1
  <2> QED
    BY <2>1, <2>2
<1>3. \A i \in S : /\ r.scan[i] \in Lines /\ Storable(r.scan[i])
                   /\ KeyOf[r.scan[i]] \notin ledger
  <2> TAKE i \in S
  <2>1. i \in r.from + 1..r.to /\ Storable(r.scan[i]) /\ KeyOf[r.scan[i]] \notin ledger
    BY DEF Fresh, Batch
  <2>2. r.scan \in Seq(Lines) /\ r.from \in Nat /\ r.to \in Nat
    BY DEF Requests
  <2> QED
    BY <2>1, <2>2
<1>4. \A i, k \in S : KeyOf[r.scan[i]] = KeyOf[r.scan[k]] => i = k
  BY <1>0 DEF Fresh
<1>5. \A i \in S : Row(i).id = Number(r, i) /\ Row(i).line = r.scan[i]
  OBVIOUS
<1>6. messages' = messages \cup New /\ lastId' = lastId + n
      /\ ledger' = ledger \cup {KeyOf[r.scan[i]] : i \in S}
  BY DEF Ingest
<1> HIDE DEF S, n, Row
<1>7. messages \cap New = {}
  <2>1. \A m \in messages : m.id \in Nat /\ m.id <= lastId
    BY DEF LedgerExact, TypeOK
  <2>2. ASSUME NEW i \in S PROVE Row(i) \notin messages
    <3>1. Number(r, i) \in lastId + 1..lastId + n
      BY <1>1
    <3>2. ~(Number(r, i) <= lastId)
      BY <1>0, <3>1
    <3>3. Row(i).id = Number(r, i)
      BY <1>5
    <3> QED
      BY <2>1, <3>2, <3>3
  <2> QED
    BY <2>2
<1>8. {q.id : q \in New} = lastId + 1..lastId + n
  <2> DEFINE F == [i \in S |-> Number(r, i)]
             T == lastId + 1..lastId + n
  <2>1. F \in [S -> T] /\ \A a, b \in S : F[a] = F[b] => a = b
    BY <1>1, <1>2
  <2>2. {q.id : q \in New} = {F[a] : a \in S}
    BY <1>5
  <2>3. IsFiniteSet(T) /\ Cardinality(T) = n /\ Cardinality(S) = n
    BY <1>0, NumbersAfter DEF S, n
  <2> HIDE DEF F, T
  <2>4. {F[a] : a \in S} = T
    BY <1>0, <2>1, <2>3, AllTaken
  <2> QED
    BY <2>2, <2>4 DEF T
<1>9. \A q \in New : q.line \in {l \in Lines : Storable(l)} /\ KeyOf[q.line] \notin ledger
  BY <1>3, <1>5
<1>10. \A p, q \in New : p.id = q.id \/ KeyOf[p.line] = KeyOf[q.line] => p = q
  BY <1>2, <1>4, <1>5
<1>11. ledger' = ledger \cup {KeyOf[q.line] : q \in New}
  <2>1. {KeyOf[q.line] : q \in New} = {KeyOf[r.scan[i]] : i \in S}
    BY <1>5
  <2> QED
    BY <1>6, <2>1
<1> HIDE DEF New
<1>12. Log!Add(New)
  <2>1. lastId' >= lastId /\ {q.id : q \in New} = lastId + 1..lastId'
    BY <1>0, <1>6, <1>8
  <2> QED
    BY <1>6, <1>7, <1>9, <1>10, <1>11, <2>1 DEF Log!Add
<1>13. messages' \ messages = New
  BY <1>6, <1>7
<1> QED
  BY <1>12, <1>13 DEF Log!Next

\* However hooks overlap, die, time out and are served late, and however the
\* file is rewritten, the server's tables are a log with one record for a
\* source key, none refused, numbered without a gap
\* (storage/transcript.py 461-640).
THEOREM LogImplemented == Spec => Log!Spec
<1>1. Init => Log!Init
  BY DEF Init, Log!Init
<1>2. ASSUME Inv, [Next]_vars PROVE Log!Next \/ UNCHANGED dbVars
  <2>0. TypeOK /\ LateInside /\ LedgerExact
    BY <1>2, TypedParts DEF Inv
  <2>1. ASSUME NEW h \in Hooks, Post(h) \/ ReplyLost(h) PROVE Log!Next
    BY <2>0, <2>1, RequestTyped, IngestAdds DEF Post, ReplyLost
  <2>2. ASSUME NEW r \in late, Ingest(r) PROVE Log!Next
    BY <2>0, <2>2, IngestAdds DEF TypeOK, LateInside
  <2>3. \/ \E h \in Hooks : Post(h) \/ ReplyLost(h)
        \/ \E r \in late : Ingest(r)
        \/ UNCHANGED dbVars
    BY <1>2 DEF Next, Host, RunStep, FaultStep, Open, Scan, ScanTooLarge, ReadCursor,
       ReplaceCursor, AttemptFails, TimesOut, Killed, LoseCursor, ServeLate, vars, dbVars
  <2> QED
    BY <2>1, <2>2, <2>3
<1>3. Inv /\ [Next]_vars => [Log!Next]_<<messages, ledger, lastId>>
  BY <1>2 DEF dbVars
<1> QED
  BY <1>1, <1>3, InitInv, StepInv, PTL DEF Spec, Log!Spec

-------------------------------------------------------------------------------
(* The order of the file *)

\* A step that does not rewrite the file only appends to it, and adds rows of
\* the tables only while it leaves the file alone.
LEMMA FileGrows ==
  ASSUME Typed, [Next]_vars, rewrites' = 0
  PROVE  /\ rewrites = 0
         /\ Len(View) <= Len(View') /\ \A i \in 1..Len(View) : View'[i] = View[i]
         /\ UNCHANGED fileVars \/ UNCHANGED <<cursor, scan, late, dbVars>>
<1>0. TypeOK /\ View \in Seq(Lines) /\ rewrites \in Nat
  BY TypedParts, ViewTyped DEF TypeOK
<1>1. CASE UNCHANGED fileVars
  BY <1>0, <1>1 DEF fileVars, View
<1>2. CASE ~UNCHANGED fileVars
  <2>1. Host
    BY <1>2 DEF Next, RunStep, FaultStep, Open, Scan, ScanTooLarge, Post, ReadCursor, ReplaceCursor,
                AttemptFails, TimesOut, ReplyLost, Killed, ServeLate, LoseCursor, vars
  <2>2. ~Rewrite
    BY <1>0 DEF Rewrite
  <2>3. CASE \E l \in Lines : AppendRow(l)
    <3>1. PICK l \in Lines : tail = NoLine /\ tail' = l /\ file' = file /\ rewrites' = rewrites
      BY <2>3 DEF AppendRow
    <3>2. View = file /\ View' = Append(file, l)
      BY <3>1, LinesAssumption DEF View
    <3> QED
      BY <1>0, <2>1, <3>1, <3>2 DEF Host, runVars
  <2>4. CASE EndLine
    <3>1. View' = View /\ rewrites' = rewrites
      BY <2>4 DEF EndLine, View
    <3> QED
      BY <1>0, <2>1, <3>1 DEF Host, runVars
  <2> QED
    BY <2>1, <2>2, <2>3, <2>4 DEF Host
<1> QED
  BY <1>1, <1>2

\* What a step leaves alone is still there.
LEMMA BeginsStays ==
  ASSUME Typed, [Next]_vars, rewrites' = 0, NEW s \in Seq(Lines), Begins(s)
  PROVE  Len(s) <= Len(View') /\ \A i \in 1..Len(s) : s[i] = View'[i]
<1>1. View \in Seq(Lines)
  BY TypedParts, ViewTyped
<1> QED
  BY <1>1, FileGrows DEF Begins

LEMMA EndsBegins ==
  ASSUME TypeOK, NEW h \in Hooks, RetryOrEnd(h) \/ Ends(h)
  PROVE  \A g \in Hooks : scan'[g] \in {scan[g], <<>>}
BY DEF RetryOrEnd, Ends, TypeOK

LEMMA ScansStay ==
  ASSUME Inv, StillThere, [Next]_vars, rewrites' = 0
  PROVE  \A g \in Hooks : Begins(scan[g]) /\ Len(scan'[g]) <= Len(View')
                          /\ \A i \in 1..Len(scan'[g]) : scan'[g][i] = View'[i]
<1>0. TypeOK /\ Typed /\ View \in Seq(Lines)
  BY TypedParts, ViewTyped DEF Inv
<1>1. rewrites = 0 /\ \A g \in Hooks : Begins(scan[g])
  BY <1>0, FileGrows DEF StillThere
<1> SUFFICES ASSUME NEW g \in Hooks
             PROVE  Len(scan'[g]) <= Len(View') /\ \A i \in 1..Len(scan'[g]) : scan'[g][i] = View'[i]
  BY <1>1
<1>2. CASE scan'[g] = scan[g]
  BY <1>0, <1>1, <1>2, BeginsStays DEF TypeOK
<1>3. CASE scan'[g] = <<>>
  <2>1. Len(View') \in Nat /\ Len(<<>>) = 0
    BY <1>0, StepTyped, ViewTyped, TypedParts DEF Typed, FileTyped, View
  <2> QED
    BY <1>3, <2>1
<1>4. ASSUME NEW s \in Payloads, Open(g, s)
      PROVE  Len(scan'[g]) <= Len(View') /\ \A i \in 1..Len(scan'[g]) : scan'[g][i] = View'[i]
  <2> DEFINE start == ResumeOffset(cursor, s)
             kept == SubSeq(View, 1, start)
  <2>1. start \in 0..Len(View)
    BY <1>0, ResumeBounds
  <2>2. Len(kept) = start /\ start <= Len(View) /\ \A i \in 1..start : kept[i] = View[i]
    BY <1>0, <2>1
  <2>3. scan'[g] = kept /\ View' = View
    BY <1>0, <1>4 DEF Open, TypeOK, fileVars, View
  <2> HIDE DEF start, kept
  <2> QED
    BY <2>2, <2>3
<1>5. CASE Scan(g)
  <2>1. scan'[g] = Spliced(scan[g], View) /\ View' = View
    BY <1>0, <1>5 DEF Scan, TypeOK, fileVars, View
  <2>2. Len(Spliced(scan[g], View)) = Len(View)
        /\ \A i \in 1..Len(View) : Spliced(scan[g], View)[i] = View[i]
    <3>1. scan[g] \in Seq(Lines) /\ Begins(scan[g])
      BY <1>0, <1>1 DEF TypeOK
    <3>2. /\ Len(Spliced(scan[g], View)) = IF Len(scan[g]) < Len(View) THEN Len(View) ELSE Len(scan[g])
          /\ \A i \in 1..Len(scan[g]) : Spliced(scan[g], View)[i] = scan[g][i]
          /\ \A i \in Len(scan[g]) + 1..Len(View) : Spliced(scan[g], View)[i] = View[i]
      BY <1>0, <3>1, SplicedTyped
    <3> QED
      BY <1>0, <3>1, <3>2 DEF Begins
  <2> QED
    BY <2>1, <2>2
<1>6. \/ scan'[g] = scan[g] \/ scan'[g] = <<>>
      \/ (\E s \in Payloads : Open(g, s)) \/ Scan(g)
  <2>1. CASE \E h \in Hooks : h # g /\ (RunStep(h) \/ FaultStep(h))
    BY <1>0, <2>1
       DEF RunStep, FaultStep, Open, Scan, ScanTooLarge, Post, ReadCursor, ReplaceCursor,
           AttemptFails, TimesOut, ReplyLost, Killed, RetryOrEnd, Ends, TypeOK
  <2>2. CASE RunStep(g) \/ FaultStep(g)
    BY <1>0, <2>2, EndsBegins
       DEF RunStep, FaultStep, ScanTooLarge, Post, ReadCursor, ReplaceCursor,
           AttemptFails, TimesOut, ReplyLost, Killed
  <2>3. CASE Host \/ ServeLate \/ LoseCursor \/ UNCHANGED vars
    BY <2>3 DEF Host, ServeLate, LoseCursor, vars, runVars
  <2> QED
    BY <2>1, <2>2, <2>3 DEF Next
<1> QED
  BY <1>2, <1>3, <1>4, <1>5, <1>6

LEMMA StepStillThere ==
  ASSUME Inv, StillThere, [Next]_vars PROVE StillThere'
<1> SUFFICES ASSUME rewrites' = 0
             PROVE  /\ cursor' # NoCursor => Begins(cursor.prefix)'
                    /\ \A h \in Hooks : Begins(scan[h])'
                    /\ \A r \in late' : Len(r.scan) <= Len(View') /\ \A i \in 1..Len(r.scan) : r.scan[i] = View'[i]
  BY DEF StillThere, Begins, View
<1>0. TypeOK /\ Typed /\ rewrites = 0
  BY TypedParts, FileGrows DEF Inv
<1>1. \A h \in Hooks : Begins(scan[h]) /\ Begins(scan[h])'
  BY ScansStay DEF Begins
<1>2. \A r \in late' : Len(r.scan) <= Len(View') /\ \A i \in 1..Len(r.scan) : r.scan[i] = View'[i]
  <2> TAKE r \in late'
  <2>1. r.scan \in Seq(Lines) /\ Begins(r.scan)
    <3>1. CASE r \in late
      BY <1>0, <3>1 DEF StillThere, TypeOK, Requests
    <3>2. CASE r \notin late
      <4>1. PICK h \in Hooks : r = Request(h)
        BY <3>2 DEF Next, Host, RunStep, FaultStep, Open, Scan, ScanTooLarge, Post, ReadCursor,
                    ReplaceCursor, AttemptFails, TimesOut, ReplyLost, Killed, ServeLate, LoseCursor, vars
      <4> QED
        BY <1>0, <1>1, <4>1, RequestTyped DEF TypeOK
    <3> QED
      BY <3>1, <3>2
  <2> QED
    BY <1>0, <2>1, BeginsStays
<1>3. ASSUME cursor' # NoCursor PROVE Begins(cursor.prefix)'
  <2>1. CASE cursor' = cursor
    <3>1. cursor.prefix \in Seq(Lines) /\ Begins(cursor.prefix)
      BY <1>0, <1>3, <2>1 DEF StillThere, TypeOK, Cursors
    <3>2. Len(cursor.prefix) <= Len(View') /\ \A i \in 1..Len(cursor.prefix) : cursor.prefix[i] = View'[i]
      BY <1>0, <3>1, BeginsStays
    <3> QED
      BY <2>1, <3>2 DEF Begins
  <2>2. CASE cursor' # cursor
    <3>1. PICK h \in Hooks : cursor' = NextCursor(h) /\ UNCHANGED fileVars
      BY <1>3, <2>2
         DEF Next, Host, RunStep, FaultStep, Open, Scan, ScanTooLarge, Post, ReadCursor,
             ReplaceCursor, AttemptFails, TimesOut, ReplyLost, Killed, ServeLate, LoseCursor, vars
    <3>2. cursor'.prefix = SubSeq(scan[h], 1, full[h])
      BY <1>3, <3>1 DEF NextCursor
    <3>3. scan[h] \in Seq(Lines) /\ full[h] \in Nat /\ full[h] <= Len(scan[h])
      BY <1>0 DEF TypeOK
    <3>4. Len(cursor'.prefix) = full[h] /\ \A i \in 1..full[h] : cursor'.prefix[i] = scan[h][i]
      BY <3>2, <3>3
    <3>5. View' = View
      BY <3>1 DEF fileVars, View
    <3>6. View \in Seq(Lines) /\ Begins(scan[h])
      BY <1>0, <1>1, ViewTyped
    <3> QED
      BY <3>3, <3>4, <3>5, <3>6 DEF Begins
  <2> QED
    BY <2>1, <2>2
<1> QED
  BY <1>1, <1>2, <1>3

LEMMA StepStoredThere ==
  ASSUME Inv, StillThere, StoredThere, [Next]_vars PROVE StoredThere'
<1> SUFFICES ASSUME rewrites' = 0, NEW n \in messages'
             PROVE  Storable(n.line) /\ \E k \in 1..Len(View') : View'[k] = n.line
  BY DEF StoredThere, Storable, Sendable
<1>0. TypeOK /\ Typed /\ LateInside
  BY TypedParts DEF Inv
<1>1. /\ rewrites = 0 /\ Len(View) <= Len(View') /\ View \in Seq(Lines)
      /\ \A k \in 1..Len(View) : View'[k] = View[k]
  BY <1>0, FileGrows, ViewTyped
<1>2. Len(View') \in Nat
  BY <1>0, StepTyped DEF Typed, FileTyped, View
<1>3. CASE n \in messages
  BY <1>1, <1>2, <1>3 DEF StoredThere
<1>4. CASE n \notin messages
  <2>1. PICK r : /\ r \in Requests /\ r.to <= Len(r.scan) /\ Begins(r.scan) /\ Ingest(r)
    <3>1. CASE \E h \in Hooks : Post(h) \/ ReplyLost(h)
      BY <1>0, <1>1, <3>1, RequestTyped DEF Post, ReplyLost, StillThere
    <3>2. CASE \E r \in late : Ingest(r)
      BY <1>0, <1>1, <3>2 DEF StillThere, TypeOK, LateInside
    <3>3. (\E h \in Hooks : Post(h) \/ ReplyLost(h)) \/ (\E r \in late : Ingest(r)) \/ UNCHANGED dbVars
      BY DEF Next, Host, RunStep, FaultStep, Open, Scan, ScanTooLarge, ReadCursor, ReplaceCursor,
             AttemptFails, TimesOut, Killed, LoseCursor, ServeLate, vars, dbVars
    <3> QED
      BY <1>4, <3>1, <3>2, <3>3 DEF dbVars
  <2>2. PICK q \in Fresh(r) : n = [id |-> Number(r, q), line |-> r.scan[q]]
    BY <1>4, <2>1 DEF Ingest
  <2>3. r.scan \in Seq(Lines) /\ r.from \in Nat /\ r.to \in Nat
    BY <2>1 DEF Requests
  <2>4. q \in r.from + 1..r.to /\ Storable(r.scan[q])
    BY DEF Fresh, Batch
  <2>5. q \in 1..Len(r.scan) /\ r.scan[q] = View[q] /\ q \in 1..Len(View)
    BY <1>1, <2>1, <2>3, <2>4 DEF Begins
  <2> QED
    BY <1>1, <1>2, <2>2, <2>4, <2>5
<1> QED
  BY <1>3, <1>4

LEMMA StepInOrder ==
  ASSUME Inv, StillThere, StoredThere, InOrder, [Next]_vars PROVE InOrder'
<1>0. TypeOK /\ Typed /\ LedgerExact /\ LateInside
  BY TypedParts DEF Inv
<1>1. ASSUME NEW h \in Hooks, Post(h) \/ ReplyLost(h) PROVE InOrder'
  <2>1. /\ Request(h) \in Requests /\ Request(h).to <= Len(Request(h).scan)
        /\ Request(h).scan = scan[h] /\ Request(h).from = pos[h]
    BY <1>0, RequestTyped
  <2>2. rewrites = 0 => Begins(Request(h).scan)
    BY <2>1 DEF StillThere
  <2>3. \A i \in 1..Request(h).from : Covered(Request(h).scan[i])
    BY <2>1 DEF Inv, ScansCovered
  <2>4. Ingest(Request(h)) /\ UNCHANGED fileVars
    BY <1>1 DEF Post, ReplyLost
  <2> QED
    BY <1>0, <2>1, <2>2, <2>3, <2>4, IngestInOrder
<1>2. ASSUME NEW r \in late, Ingest(r), UNCHANGED fileVars PROVE InOrder'
  <2>1. r \in Requests /\ r.to <= Len(r.scan) /\ (rewrites = 0 => Begins(r.scan))
    BY <1>0 DEF TypeOK, LateInside, StillThere
  <2>2. \A i \in 1..r.from : Covered(r.scan[i])
    BY DEF Inv, LateCovered
  <2> QED
    BY <1>0, <1>2, <2>1, <2>2, IngestInOrder
<1>3. CASE UNCHANGED dbVars
  <2> SUFFICES ASSUME rewrites' = 0, NEW j \in DOMAIN View', NEW i \in 1..j - 1,
                      Storable(View'[i]), Storable(View'[j]),
                      \A k \in 1..j - 1 : Storable(View'[k]) => KeyOf[View'[k]] # KeyOf[View'[j]],
                      NEW n \in messages, KeyOf[n.line] = KeyOf[View'[j]]
               PROVE  \E m \in messages : KeyOf[m.line] = KeyOf[View'[i]] /\ m.id < n.id
    <3>1. messages' = messages
      BY <1>3 DEF dbVars
    <3>2. \A j : IsFirst(j)' <=> (\A k \in 1..j - 1 :
                                   Storable(View'[k]) => KeyOf[View'[k]] # KeyOf[View'[j]])
      BY DEF IsFirst, Storable, Sendable
    <3> QED
      BY <3>1, <3>2 DEF InOrder, Storable, Sendable
  <2>1. /\ rewrites = 0 /\ Len(View) <= Len(View')
        /\ \A k \in 1..Len(View) : View'[k] = View[k]
    BY <1>0, FileGrows
  <2>2. View \in Seq(Lines) /\ View' \in Seq(Lines)
    <3>1. TypeOK'
      BY <1>0, StepTyped DEF Typed, TypeOK, RunTyped, FileTyped, TablesTyped, LateTyped, Places
    <3>2. file' \in Seq(Lines) /\ tail' \in Lines \cup {NoLine}
      BY <3>1 DEF TypeOK
    <3> QED
      BY <1>0, <3>2, ViewTyped DEF View
  <2>3. PICK k \in 1..Len(View) : View[k] = n.line /\ Storable(View[k])
    BY <2>1 DEF StoredThere
  <2>4. j <= k /\ j \in Nat /\ i \in Nat /\ i < j
    BY <2>1, <2>2, <2>3
  <2>5. /\ j \in DOMAIN View /\ View'[j] = View[j] /\ View'[i] = View[i]
        /\ \A l \in 1..j - 1 : View'[l] = View[l]
    BY <2>1, <2>2, <2>4
  <2>6. IsFirst(j)
    BY <2>5 DEF IsFirst
  <2> QED
    BY <2>1, <2>5, <2>6 DEF InOrder
<1>4. \/ \E h \in Hooks : Post(h) \/ ReplyLost(h)
      \/ \E r \in late : Ingest(r) /\ UNCHANGED fileVars
      \/ UNCHANGED dbVars
  BY DEF Next, Host, RunStep, FaultStep, Open, Scan, ScanTooLarge, ReadCursor, ReplaceCursor,
         AttemptFails, TimesOut, Killed, LoseCursor, ServeLate, vars, dbVars
<1> QED
  BY <1>1, <1>2, <1>3, <1>4

\* One row for a key whatever is posted twice, and the order of the file
\* without a gap while it only grows (storage/transcript.py 461).
THEOREM InFileOrder == Spec => []DeliveredInOrder
<1>1. Init => OrderInv
  <2> SUFFICES ASSUME Init PROVE OrderInv
    OBVIOUS
  <2>1. Inv
    BY InitInv
  <2>2. View = <<>>
    BY DEF Init, View
  <2> QED
    BY <2>1, <2>2 DEF Init, OrderInv, StillThere, StoredThere, InOrder, Begins
<1>2. OrderInv /\ [Next]_vars => OrderInv'
  BY StepInv, StepStillThere, StepStoredThere, StepInOrder DEF OrderInv
<1>3. OrderInv => DeliveredInOrder
  BY DEF OrderInv, Inv, LedgerExact, InOrder, DeliveredInOrder
<1> QED
  BY <1>1, <1>2, <1>3, PTL DEF Spec

-------------------------------------------------------------------------------
(* The parts of the database, which inits, repairs and imports build while     *)
(* others serve                                                                *)

Columns == DOMAIN Current
Attributes == DOMAIN Resting

-------------------------------------------------------------------------------
(* Where a process can be, and what it has open there *)

\* Stages a process on sqlite reaches within its transaction, and those it does
\* not.
InTransaction ==
  {"read_messages", "fill_index", "drop_ledger", "read_undated", "backfill", "look_shadow",
   "create_shadow", "triggers", "rebuild_shadow", "look_unique", "create_unique", "rest",
   "recount", "recount_facts", "entry", "count"}
OutOfTransaction ==
  {"idle", "base", "look_index", "drop_index", "create_index", "clear_index", "look_meta",
   "insert_meta", "row", "insert", "event"}

Moves(s) == s.pc \in {"create_ledger", "copy_ledger"}
Migrates(s) == Moves(s) \/ s.pc = "drop_ledger"
Fills(s) == s.pc \in {"fill_index", "entry"}

Transactions ==
  /\ backend \in {"sqlite", "libsql"} /\ (backend = "libsql" => writer = Nobody)
  /\ writer \in Processes \cup {Nobody}
  /\ writer = Nobody => db = disk
  /\ DOMAIN db = Columns /\ DOMAIN disk = Columns
  /\ DOMAIN proc = Processes
  /\ db.torn \subseteq disk.torn /\ db.index = disk.index

InPlace(p) ==
  LET s == proc[p] IN
  /\ DOMAIN s = Attributes
  /\ s.pc \in InTransaction /\ backend = "sqlite" => writer = p
  /\ s.pc \in OutOfTransaction => writer # p
  /\ s.pc = "idle" => s.open = {}
  /\ s.pc # "idle" /\ s.job # "init" => s.memo # {}

OpenAt(p) ==
  LET s == proc[p] IN
  /\ ((s.pc = "read_messages" \/ Fills(s)) /\ writer # p) => "index" \in s.open
  /\ (Moves(s) /\ writer # p) => "ledger" \in s.open
  /\ s.pc = "event" => ~("candidate" \in s.seen /\ "fact" \in s.seen)
  /\ s.pc = "count" /\ writer # p =>
       ("candidate" \in s.seen => "candidate" \in s.open) /\ ("fact" \in s.seen => "fact" \in s.open)
  /\ "candidate" \in s.open \/ "fact" \in s.open => backend = "libsql"

ThereFor(p) ==
  LET s == proc[p] IN
  /\ s.pc \in {"read_messages", "fill_index"} /\ writer = p => db.index # "none"
  /\ Migrates(s) => db.renamed /\ (writer # p => disk.renamed)
  /\ s.pc = "drop_ledger" => db.ledger # "none" /\ (writer # p => disk.ledger # "none")

Place(p) == InPlace(p) /\ OpenAt(p) /\ ThereFor(p)

Placed ==
  /\ \A p \in Processes : Place(p)
  /\ \A p, q \in Processes : Migrates(proc[p]) /\ Migrates(proc[q]) => p = q

-------------------------------------------------------------------------------
(* What is never undone, and who knows it *)

Onward(d, e) ==
  /\ d.index # "old" => e.index # "old"
  /\ (d.ledger = "none" => d.renamed) => (e.ledger = "none" => e.renamed)
  /\ d.ledger # "legacy" => e.ledger # "legacy"
  /\ d.dated => e.dated
  /\ d.shadow => e.shadow
  /\ d.triggers => e.triggers
  /\ d.unique => e.unique
  /\ ~d.twins => ~e.twins
  /\ d.meta => e.meta
  /\ d.fact => e.fact

PastUnique == {"rest", "commit"}
PastTriggers == {"rebuild_shadow", "look_unique", "create_unique"} \cup PastUnique
PastShadow == {"triggers"} \cup PastTriggers
PastColumns == {"touch", "read_undated", "backfill", "look_shadow", "create_shadow"} \cup PastShadow
PastLedger == {"create_ledger", "copy_ledger", "drop_ledger", "columns"} \cup PastColumns
PastEnsure == {"look_ledger", "rename_ledger"} \cup PastLedger
PastCreate == {"clear_index", "read_messages", "fill_index", "ensure_ledger"} \cup PastEnsure
PastLook == {"create_index"} \cup PastCreate

\* What an init has made sure of by the stage it is at.
Reached(s, d) ==
  /\ s.pc \in PastLook => d.index # "old"
  /\ s.pc \in PastEnsure => (d.ledger = "none" => d.renamed)
  /\ s.pc \in PastLedger => d.ledger # "legacy"
  /\ s.pc \in PastColumns => d.dated
  /\ s.pc \in PastShadow => d.shadow
  /\ s.pc \in PastTriggers => d.triggers
  /\ s.pc \in PastUnique => d.unique

Initialised(d) ==
  /\ d.index # "old" /\ d.ledger # "legacy" /\ (d.ledger = "none" => d.renamed)
  /\ d.dated /\ d.shadow /\ d.triggers /\ d.unique

Remembers(p) ==
  LET s == proc[p] IN
  /\ s.memo # {} => Initialised(disk)
  /\ "vec" \in s.memo => disk.meta

Looked(p) ==
  LET s == proc[p] IN
  /\ s.job = "vectors" /\ s.pc = "commit" => Sees(p).meta
  /\ s.pc = "create_shadow" /\ ~s.fresh => Sees(p).shadow
  /\ "shadow" \in s.open =>
       /\ backend = "libsql" /\ s.pc \in {"triggers", "rebuild_shadow"}
       /\ s.pc = "triggers" => s.fresh
  /\ s.pc \in {"event", "count"} /\ "fact" \in s.seen => Sees(p).fact

Sure ==
  /\ Onward(disk, db)
  /\ (db.unique => ~db.twins) /\ (disk.unique => ~disk.twins)
  /\ \A p \in Processes :
       /\ proc[p].job = "init" => Reached(proc[p], Sees(p))
       /\ Remembers(p) /\ Looked(p)

\* An index that was dropped is somebody's to create, or left undone.
Needed ==
  \E p \in Processes : proc[p].memo # {} \/ (proc[p].job = "init" /\ proc[p].pc \in PastCreate)
CreatesIndex(s) == s.pc \in {"create_index", "fill_index"} /\ "index" \in s.open
IndexThere ==
  (db.index = "none" /\ Needed) =>
     "index" \in db.torn \/ \E p \in Processes : CreatesIndex(proc[p])

\* A retrieval surfaces one thing.
OneSeen ==
  \A p \in Processes : proc[p].pc \in {"event", "count"} => \E r \in Surfaced : proc[p].seen = {r}

Formed(d) ==
  d.index \in {"none", "old", "current"} /\ d.ledger \in {"none", "legacy", "current"}
Forms == Formed(db) /\ Formed(disk)

-------------------------------------------------------------------------------
(* The parts, as the processes P would leave database d: whole, or left undone *)
(* already, or a process is at the statements that will make it whole.         *)

ClearsIndex(s) == s.pc = "read_messages" \/ (s.pc = "clear_index" /\ "index" \in s.open)
IndexFine(d, f, P) ==
  \/ d.index # "current" \/ "index" \in d.torn
  \/ \E q \in P : ClearsIndex(f[q])
  \/ \A m \in d.messages : m \in d.found \/ \E q \in P : Fills(f[q]) /\ m \in f[q].seen

LedgerFine(d, f, P) ==
  \/ "ledger" \in d.torn
  \/ /\ d.keyed \subseteq d.keys \/ ((\E q \in P : Moves(f[q])) /\ d.keyed \subseteq d.keys \cup d.old)
     /\ (d.ledger = "none" /\ d.renamed) => \E q \in P : f[q].pc = "create_ledger"

Builds(s, b) ==
  \/ "shadow" \in s.open
  \/ b = "sqlite" /\ s.pc \in {"triggers", "rebuild_shadow"} /\ s.fresh
ShadowFine(d, f, P, b) ==
  \/ ~d.shadow \/ "shadow" \in d.torn
  \/ \E q \in P : Builds(f[q], b)
  \/ d.triggers /\ CandidateIds(d) \subseteq d.shadowed

Counting(f, P, r) == {q \in P : f[q].pc = "count" /\ r \in f[q].seen}
Inherits(d, r) == IF r = "fact" THEN d.inherited ELSE 0
CounterFine(d, f, P, r) ==
  \/ r \in d.torn
  \/ d.count[r] + Cardinality(Counting(f, P, r)) \in {d.events[r], d.events[r] + Inherits(d, r)}

CountersTyped(d) ==
  /\ d.events \in [Surfaced -> Nat] /\ d.count \in [Surfaced -> Nat] /\ d.inherited \in Nat
  /\ ~d.fact => d.events["fact"] = 0 /\ d.inherited = 0

Fine(part, d, f, P, b) ==
  CASE part = "index" -> IndexFine(d, f, P)
    [] part = "ledger" -> LedgerFine(d, f, P)
    [] part = "shadow" -> ShadowFine(d, f, P, b)
    [] OTHER -> CounterFine(d, f, P, part)

\* As the writer sees the database, and as the others would be left with it.
NowFine == \A part \in Parts : Fine(part, db, proc, Processes, backend)
ThenFine ==
  writer # Nobody =>
    \A part \in Parts :
      part \in proc[writer].open \/ Fine(part, disk, proc, Processes \ {writer}, backend)

CountedTyped == CountersTyped(db) /\ CountersTyped(disk)

-------------------------------------------------------------------------------
(* Candidates *)

CandsFresh(cands) ==
  /\ cands \subseteq CandidateRows
  /\ \A c \in cands : c.mentioned \in {Undated, Earliest(c.sources)}
  /\ \A b, c \in cands : b.id = c.id => b = c
Undateds(cands) == {c \in cands : c.mentioned = Undated}

\* What a backfill read still holds of the rows that have no day yet.
ReadHolds(p) ==
  proc[p].pc = "backfill" => \A r \in proc[p].seen, c \in Undateds(Sees(p).cands) : c.id = r.id => c = r

MentionsFresh ==
  /\ CandsFresh(db.cands) /\ CandsFresh(disk.cands)
  /\ Undateds(db.cands) \subseteq Undateds(disk.cands)
  /\ \A p \in Processes : ReadHolds(p)

-------------------------------------------------------------------------------
(* Steps *)

\* What a statement of p does to what the others see and hold.
Writes(p) ==
  /\ writer \in {Nobody, p} /\ writer' \in {Nobody, p}
  /\ writer' = Nobody => disk' = db'
  /\ writer' = p => disk' = disk /\ backend = "sqlite"
  /\ DOMAIN db' = Columns

Steps(p) ==
  /\ DOMAIN proc' = Processes /\ DOMAIN proc'[p] = Attributes
  /\ \A q \in Processes \ {p} : proc'[q] = proc[q]
  /\ backend' = backend
  /\ Read \/ Writes(p)

ReadStep(p) ==
  \/ StartInit(p) \/ StartVectors(p) \/ StartAppend(p) \/ StartRepair(p) \/ StartImport(p)
  \/ LookAtIndex(p) \/ LookAtLedger(p) \/ ReadUndated(p) \/ LookForShadow(p)
  \/ LookAtFacts(p) \/ LookAtMeta(p) \/ \E r \in Surfaced : Retrieve(p, r)
  \/ Forget(p)

DdlStep(p) ==
  \/ EnsureMessages(p) \/ DropIndex(p) \/ CreateIndex(p) \/ EnsureLedger(p)
  \/ RenameLedger(p) \/ CreateLedger(p) \/ DropLedger(p) \/ EnsureColumns(p)
  \/ CreateShadow(p) \/ CreateTriggers(p) \/ CreateUnique(p)

DmlStep(p) ==
  \/ ClearIndex(p) \/ FillIndex(p) \/ CopyLedger(p) \/ FillLastSeen(p) \/ Backfill(p)
  \/ RebuildShadow(p) \/ Recount(p) \/ EnsureRest(p) \/ InsertMeta(p)
  \/ InsertMessage(p) \/ InsertEntry(p)
  \/ \E r \in Surfaced : LogEvent(p, r) \/ CountEvent(p, r)

\* What is one transaction, or joins the one that is open.
WholeStep(p) ==
  \/ ReadMessages(p) \/ Commit(p) \/ Import(p) \/ IngestSource(p) \/ Promote(p)
  \/ \E m \in Ids : Insert(p, m) \/ \E c \in db.cands : Merge(p, c, m)

WriteStep(p) == DdlStep(p) \/ DmlStep(p) \/ WholeStep(p)

LEMMA ColumnNames ==
  Columns = {"messages", "index", "found", "ledger", "keys", "old", "renamed", "dated",
             "cands", "shadow", "triggers", "shadowed", "unique", "twins", "meta", "fact",
             "events", "count", "inherited", "keyed", "torn"}
BY DEF Columns, Current

LEMMA AttributeNames ==
  Attributes = {"pc", "job", "memo", "open", "seen", "fresh", "starts"}
BY DEF Attributes, Resting

\* Every step is somebody's statement, a crash, or the operator's.
LEMMA StepKinds ==
  ASSUME SchemaNext
  PROVE  \/ \E p \in Processes : ReadStep(p) \/ WriteStep(p) \/ Break(p)
         \/ RetireTwins
BY DEF SchemaNext, InitStep, ServeStep, ReadStep, DdlStep, DmlStep, WholeStep, WriteStep

\* One process changes and the others stay.
LEMMA OneChanges ==
  ASSUME DOMAIN proc = Processes, NEW p \in Processes, NEW s, DOMAIN s = Attributes,
         proc' = [proc EXCEPT ![p] = s]
  PROVE  /\ DOMAIN proc' = Processes /\ DOMAIN proc'[p] = Attributes /\ proc'[p] = s
         /\ \A q \in Processes \ {p} : proc'[q] = proc[q]
OBVIOUS

LEMMA ReadSteps ==
  ASSUME Transactions, Placed, NEW p \in Processes, ReadStep(p)
  PROVE  Steps(p) /\ Read
<1>1. Read /\ \E s : DOMAIN s = Attributes /\ proc' = [proc EXCEPT ![p] = s]
  <2>0. DOMAIN proc[p] = Attributes
    BY DEF Placed, Place, InPlace
  <2>1. CASE StartInit(p) \/ StartVectors(p) \/ StartAppend(p)
    BY <2>0, <2>1 DEF StartInit, StartVectors, StartAppend, Start, Do
  <2>2. CASE StartRepair(p) \/ StartImport(p)
    BY <2>0, <2>2 DEF StartRepair, StartImport, Start, Do
  <2>3. CASE LookAtIndex(p) \/ LookAtLedger(p)
    BY <2>0, <2>3 DEF LookAtIndex, LookAtLedger, Do, Go
  <2>4. CASE ReadUndated(p) \/ LookForShadow(p)
    BY <2>0, <2>4 DEF ReadUndated, LookForShadow, Do
  <2>5. CASE LookAtFacts(p) \/ LookAtMeta(p)
    BY <2>0, <2>5 DEF LookAtFacts, LookAtMeta, Do, Go
  <2>6. CASE (\E r \in Surfaced : Retrieve(p, r)) \/ Forget(p)
    BY <2>0, <2>6 DEF Retrieve, Forget, Do
  <2> QED
    BY <2>1, <2>2, <2>3, <2>4, <2>5, <2>6 DEF ReadStep
<1>2. PICK s : DOMAIN s = Attributes /\ proc' = [proc EXCEPT ![p] = s]
  BY <1>1
<1>3. /\ DOMAIN proc' = Processes /\ DOMAIN proc'[p] = Attributes
      /\ \A q \in Processes \ {p} : proc'[q] = proc[q]
  BY <1>2, OneChanges DEF Transactions
<1> QED
  BY <1>1, <1>3 DEF Steps, Read

\* A statement that is given a database with all its columns.
LEMMA DdlWrites ==
  ASSUME Transactions, NEW p \in Processes, NEW new, DOMAIN new = Columns, Ddl(p, new)
  PROVE  Writes(p) /\ backend' = backend
BY SchemaAssumption DEF Transactions, Writes, Ddl, MayWrite, Write

LEMMA DmlWrites ==
  ASSUME Transactions, NEW p \in Processes, NEW new, DOMAIN new = Columns, Dml(p, new)
  PROVE  Writes(p) /\ backend' = backend
BY SchemaAssumption DEF Transactions, Writes, Dml, MayWrite, Write

LEMMA CommitsWrite ==
  ASSUME Transactions, NEW p \in Processes, NEW new, DOMAIN new = Columns, MayWrite(p),
         Write(new, Nobody) \/ Write(new, writer)
  PROVE  Writes(p) /\ backend' = backend
BY SchemaAssumption DEF Transactions, Writes, MayWrite, Write

LEMMA DdlSteps ==
  ASSUME Transactions, Placed, NEW p \in Processes, DdlStep(p)
  PROVE  Steps(p) /\ Writes(p)
<1>1. \E new : DOMAIN new = Columns /\ Ddl(p, new)
  BY DEF Transactions, DdlStep, EnsureMessages, DropIndex, CreateIndex, EnsureLedger,
         RenameLedger, CreateLedger, DropLedger, EnsureColumns, CreateShadow, CreateTriggers,
         CreateUnique
<1>2. \E s : DOMAIN s = Attributes /\ proc' = [proc EXCEPT ![p] = s]
  BY DEF Placed, Place, InPlace, OpenAt, ThereFor, DdlStep, EnsureMessages, DropIndex,
     CreateIndex, EnsureLedger,
         RenameLedger, CreateLedger, DropLedger, EnsureColumns, CreateShadow, CreateTriggers,
         CreateUnique, Do, Go
<1> QED
  BY <1>1, <1>2, DdlWrites, OneChanges DEF Steps, Transactions

LEMMA DmlSteps ==
  ASSUME Transactions, Placed, NEW p \in Processes, DmlStep(p)
  PROVE  Steps(p) /\ Writes(p)
<1>1. \E new : DOMAIN new = Columns /\ Dml(p, new)
  BY DEF Transactions, DmlStep, ClearIndex, FillIndex, CopyLedger, FillLastSeen,
         Backfill, RebuildShadow, Recount, EnsureRest, InsertMeta, InsertMessage, InsertEntry,
         LogEvent, CountEvent, Mended
<1>2. \E s : DOMAIN s = Attributes /\ proc' = [proc EXCEPT ![p] = s]
  BY DEF Placed, Place, InPlace, OpenAt, ThereFor, DmlStep, ClearIndex, FillIndex, CopyLedger,
     FillLastSeen,
         Backfill, RebuildShadow, Recount, EnsureRest, InsertMeta, InsertMessage, InsertEntry,
         LogEvent, CountEvent, Do, Go
<1> QED
  BY <1>1, <1>2, DmlWrites, OneChanges DEF Steps, Transactions

LEMMA WholeSteps ==
  ASSUME Transactions, Placed, NEW p \in Processes, WholeStep(p)
  PROVE  Steps(p) /\ Writes(p)
<1>1. \E new : /\ DOMAIN new = Columns /\ MayWrite(p)
               /\ Write(new, Nobody) \/ Write(new, writer)
  BY DEF Transactions, WholeStep, ReadMessages, Commit, Import, IngestSource, Promote, Insert,
     Merge,
         Serves, MayWrite, Mended
<1>2. /\ DOMAIN proc' = Processes /\ DOMAIN proc'[p] = Attributes
      /\ \A q \in Processes \ {p} : proc'[q] = proc[q]
  <2>1. CASE ReadMessages(p) \/ Commit(p) \/ Import(p)
    <3>1. \E s : DOMAIN s = Attributes /\ proc' = [proc EXCEPT ![p] = s]
      BY <2>1 DEF Placed, Place, InPlace, OpenAt, ThereFor, ReadMessages, Commit, Import, Do
    <3> QED
      BY <3>1, OneChanges DEF Transactions
  <2>2. CASE UNCHANGED proc
    BY <2>2 DEF Placed, Place, InPlace, OpenAt, ThereFor, Transactions
  <2> QED
    BY <2>1, <2>2 DEF WholeStep, IngestSource, Promote, Insert, Merge
<1> QED
  BY <1>1, <1>2, CommitsWrite DEF Steps

LEMMA WriteSteps ==
  ASSUME Transactions, Placed, NEW p \in Processes, WriteStep(p)
  PROVE  Steps(p) /\ Writes(p)
BY DdlSteps, DmlSteps, WholeSteps DEF WriteStep

LEMMA BreakStep ==
  ASSUME Transactions, Placed, NEW p \in Processes, Break(p)
  PROVE  /\ DOMAIN proc' = Processes /\ DOMAIN proc'[p] = Attributes
         /\ \A q \in Processes \ {p} : proc'[q] = proc[q]
         /\ backend' = backend
         /\ DOMAIN db' = Columns /\ DOMAIN disk' = Columns
         /\ writer' = IF writer = p THEN Nobody ELSE writer
         /\ proc'[p].pc = "idle" /\ proc'[p].job = "none" /\ proc'[p].open = {}
         /\ proc'[p].seen = {} /\ proc'[p].fresh = FALSE
         /\ proc'[p].memo \in {proc[p].memo, {}}
BY AttributeNames
DEF Transactions, Placed, Place, InPlace, OpenAt, ThereFor, Break, Left, Do, Resting, Attributes

-------------------------------------------------------------------------------
(* Transactions, and where each process is *)

\* What is undone of a part is not added to within a transaction, and the
\* index changes its form outside of one.
LEMMA WithinTransaction ==
  ASSUME Transactions, Placed, NEW p \in Processes, WriteStep(p), writer' = p
  PROVE  db'.torn \subseteq db.torn /\ db'.index = db.index
<1> USE ColumnNames DEF Transactions
<1>1. CASE DdlStep(p)
  <2>1. ~DropIndex(p) /\ ~CreateIndex(p)
    BY SchemaAssumption
    DEF Placed, Place, InPlace, OpenAt, ThereFor, OutOfTransaction, DropIndex, CreateIndex, Ddl,
        MayWrite, Write, At
  <2>2. CASE EnsureMessages(p) \/ EnsureLedger(p)
    BY <2>2 DEF EnsureMessages, EnsureLedger, Ddl, Write
  <2>3. CASE RenameLedger(p) \/ CreateLedger(p)
    BY <2>3 DEF RenameLedger, CreateLedger, Ddl, Write
  <2>4. CASE DropLedger(p) \/ EnsureColumns(p)
    BY <2>4 DEF DropLedger, EnsureColumns, Ddl, Write
  <2>5. CASE CreateShadow(p) \/ CreateTriggers(p)
    BY <2>5 DEF CreateShadow, CreateTriggers, Ddl, Write
  <2>6. CASE CreateUnique(p)
    BY <2>6 DEF CreateUnique, Ddl, Write
  <2> QED
    BY <1>1, <2>1, <2>2, <2>3, <2>4, <2>5, <2>6 DEF DdlStep
<1>2. CASE DmlStep(p)
  <2>1. CASE Recount(p)
    <3>1. backend = "sqlite"
      BY <2>1, SchemaAssumption DEF Recount, Dml, Write
    <3>2. \A r \in Surfaced : \A q \in Processes : r \notin proc[q].open
      BY <3>1 DEF Placed, Place, OpenAt, Surfaced
    <3> QED
      BY <2>1, <3>2 DEF Recount, Dml, Write, Mended
  <2>2. CASE \E r \in Surfaced : LogEvent(p, r) \/ CountEvent(p, r)
    BY <2>2 DEF LogEvent, CountEvent, Dml, Write
  <2>3. CASE ClearIndex(p) \/ FillIndex(p)
    BY <2>3 DEF ClearIndex, FillIndex, Dml, Write, Mended
  <2>4. CASE CopyLedger(p) \/ Backfill(p)
    BY <2>4 DEF CopyLedger, Backfill, Dml, Write
  <2>5. CASE RebuildShadow(p)
    BY <2>5 DEF RebuildShadow, Dml, Write, Mended
  <2>6. CASE FillLastSeen(p) \/ EnsureRest(p) \/ InsertMeta(p)
    BY <2>6 DEF FillLastSeen, EnsureRest, InsertMeta, Dml, Write
  <2>7. CASE InsertMessage(p) \/ InsertEntry(p)
    BY <2>7 DEF InsertMessage, InsertEntry, Dml, Write
  <2> QED
    BY <1>2, <2>1, <2>2, <2>3, <2>4, <2>5, <2>6, <2>7 DEF DmlStep
<1>3. CASE WholeStep(p)
  <2>1. CASE ReadMessages(p)
    BY <2>1 DEF ReadMessages, Write, Mended
  <2>2. writer' = p => ReadMessages(p)
    BY <1>3, SchemaAssumption
    DEF WholeStep, Commit, Import, IngestSource, Promote, Insert, Merge, Write
  <2> QED
    BY <2>1, <2>2
<1> QED
  BY <1>1, <1>2, <1>3 DEF WriteStep

LEMMA TransactionsStep ==
  ASSUME Transactions, Placed, SchemaNext
  PROVE  Transactions'
<1>1. CASE \E p \in Processes : ReadStep(p)
  <2>1. PICK p \in Processes : ReadStep(p)
    BY <1>1
  <2> QED
    BY <2>1, ReadSteps DEF Transactions, Steps, Read
<1>2. CASE \E p \in Processes : WriteStep(p)
  <2>1. PICK p \in Processes : WriteStep(p)
    BY <1>2
  <2>2. Steps(p) /\ Writes(p)
    BY <2>1, WriteSteps
  <2> QED
    BY <2>1, <2>2, WithinTransaction DEF Transactions, Steps, Writes
<1>3. CASE \E p \in Processes : Break(p)
  <2>1. PICK p \in Processes : Break(p)
    BY <1>3
  <2>2. /\ db'.torn \subseteq disk'.torn /\ db'.index = disk'.index
        /\ writer' = Nobody => db' = disk'
    BY <2>1, ColumnNames DEF Break, Left, Transactions
  <2> QED
    BY <2>1, <2>2, BreakStep DEF Transactions
<1>4. CASE RetireTwins
  BY <1>4 DEF RetireTwins, Write, Transactions
<1> QED
  BY <1>1, <1>2, <1>3, <1>4, StepKinds

\* The ledger stays renamed, and once created there, but for DropLedger.
LEMMA RenamedStays ==
  ASSUME Transactions, NEW p \in Processes, WriteStep(p), db.renamed, ~DropLedger(p)
  PROVE  db'.renamed /\ (db.ledger # "none" => db'.ledger # "none")
<1> USE ColumnNames DEF Transactions
<1>1. CASE DdlStep(p)
  <2>0. CASE EnsureMessages(p)
    <3>1. db' = db
      BY <2>0 DEF EnsureMessages, Ddl, Write
    <3> QED
      BY <3>1, Zenon
  <2>1. CASE DropIndex(p) \/ CreateIndex(p)
    <3>1. CASE DropIndex(p)
      BY <3>1 DEF DropIndex, Ddl, Write
    <3>2. CASE CreateIndex(p)
      BY <3>2 DEF CreateIndex, Ddl, Write
    <3> QED
      BY <2>1, <3>1, <3>2
  <2>2. CASE EnsureLedger(p) \/ CreateLedger(p)
    BY <2>2 DEF EnsureLedger, CreateLedger, Ddl, Write
  <2>3. CASE RenameLedger(p)
    BY <2>3 DEF RenameLedger
  <2>4. CASE EnsureColumns(p) \/ CreateShadow(p)
    BY <2>4 DEF EnsureColumns, CreateShadow, Ddl, Write
  <2>5. CASE CreateTriggers(p) \/ CreateUnique(p)
    BY <2>5 DEF CreateTriggers, CreateUnique, Ddl, Write
  <2> QED
    BY <1>1, <2>0, <2>1, <2>2, <2>3, <2>4, <2>5 DEF DdlStep
<1>2. CASE DmlStep(p)
  <2>1. CASE Recount(p)
    BY <2>1 DEF Recount, Dml, Write, Mended
  <2>2. CASE \E r \in Surfaced : LogEvent(p, r) \/ CountEvent(p, r)
    BY <2>2 DEF LogEvent, CountEvent, Dml, Write
  <2>3. CASE ClearIndex(p) \/ FillIndex(p)
    BY <2>3 DEF ClearIndex, FillIndex, Dml, Write, Mended
  <2>4. CASE CopyLedger(p) \/ Backfill(p)
    BY <2>4 DEF CopyLedger, Backfill, Dml, Write
  <2>5. CASE RebuildShadow(p)
    BY <2>5 DEF RebuildShadow, Dml, Write, Mended
  <2>6. CASE FillLastSeen(p) \/ EnsureRest(p) \/ InsertMeta(p)
    BY <2>6 DEF FillLastSeen, EnsureRest, InsertMeta, Dml, Write
  <2>7. CASE InsertMessage(p) \/ InsertEntry(p)
    BY <2>7 DEF InsertMessage, InsertEntry, Dml, Write
  <2> QED
    BY <1>2, <2>1, <2>2, <2>3, <2>4, <2>5, <2>6, <2>7 DEF DmlStep
<1>3. CASE WholeStep(p)
  <2>1. CASE ReadMessages(p) \/ Commit(p)
    BY <2>1 DEF ReadMessages, Commit, Write, Mended
  <2>2. CASE Import(p)
    BY <2>2 DEF Import, Write
  <2>3. CASE IngestSource(p)
    BY <2>3 DEF IngestSource, Write
  <2>4. CASE Promote(p)
    BY <2>4 DEF Promote, Write
  <2>5. CASE \E m \in Ids : Insert(p, m)
    BY <2>5 DEF Insert, Write
  <2>6. CASE \E m \in Ids : \E c \in db.cands : Merge(p, c, m)
    BY <2>6 DEF Merge, Write
  <2> QED
    BY <1>3, <2>1, <2>2, <2>3, <2>4, <2>5, <2>6 DEF WholeStep
<1> QED
  BY <1>1, <1>2, <1>3 DEF WriteStep

\* Where the others are stays as good.
LEMMA OthersPlaced ==
  ASSUME Transactions, Placed, NEW p \in Processes, ReadStep(p) \/ WriteStep(p),
         NEW q \in Processes \ {p}
  PROVE  Place(q)'
<1>1. /\ Place(q) /\ q # Nobody /\ proc'[q] = proc[q] /\ backend' = backend
  BY ReadSteps, WriteSteps, SchemaAssumption DEF Placed, Steps
<1>2. CASE ReadStep(p)
  BY <1>1, <1>2, ReadSteps DEF Place, InPlace, OpenAt, ThereFor, Read, Moves, Migrates, Fills
<1>3. CASE WriteStep(p)
  <2>1. Writes(p)
    BY <1>3, WriteSteps
  <2>2. writer # q /\ writer' # q
    BY <2>1, <1>1 DEF Writes
  <2>3. CASE ~Migrates(proc[q])
    BY <1>1, <2>2, <2>3 DEF Place, InPlace, OpenAt, ThereFor, Moves, Migrates, Fills
  <2>4. CASE Migrates(proc[q])
    <3>1. ~DropLedger(p)
      BY <2>4 DEF Placed, DropLedger, At, Migrates
    <3>2. db'.renamed /\ (db.ledger # "none" => db'.ledger # "none")
      BY <1>1, <1>3, <2>4, <3>1, RenamedStays DEF Place, InPlace, OpenAt, ThereFor
    <3>3. disk' \in {disk, db'}
      BY <2>1 DEF Writes
    <3> QED
      BY <1>1, <2>2, <2>4, <3>2, <3>3
      DEF Place, InPlace, OpenAt, ThereFor, Moves, Migrates, Fills
  <2> QED
    BY <2>3, <2>4
<1> QED
  BY <1>2, <1>3

LEMMA BreakPlaced ==
  ASSUME Transactions, Placed, NEW p \in Processes, Break(p), NEW q \in Processes
  PROVE  Place(q)'
<1>1. Place(q) /\ Nobody \notin Processes
  BY SchemaAssumption DEF Placed
<1>2. CASE q = p
  BY <1>1, <1>2, BreakStep
  DEF Place, InPlace, OpenAt, ThereFor, Moves, Migrates, Fills, InTransaction, OutOfTransaction
<1>3. CASE q # p
  <2>1. proc'[q] = proc[q] /\ backend' = backend /\ (writer' = q <=> writer = q)
    BY <1>1, <1>3, BreakStep
  <2>2. /\ disk'.renamed = disk.renamed /\ disk'.ledger = disk.ledger
        /\ db'.renamed \in {disk.renamed, db.renamed}
        /\ db'.ledger \in {disk.ledger, db.ledger}
        /\ db'.index = db.index
        /\ writer # p => db'.renamed = db.renamed /\ db'.ledger = db.ledger
    BY ColumnNames DEF Break, Left, Transactions
  <2> QED
    BY <1>1, <1>3, <2>1, <2>2 DEF Place, InPlace, OpenAt, ThereFor, Moves, Migrates, Fills
<1> QED
  BY <1>2, <1>3

-------------------------------------------------------------------------------
(* What each statement does, field by field and column by column *)

Turns(p, stage, open, read, fresh) ==
  /\ proc'[p].pc = stage /\ proc'[p].open = open /\ proc'[p].seen = read /\ proc'[p].fresh = fresh
  /\ proc'[p].job = proc[p].job /\ proc'[p].memo = proc[p].memo

Alters(columns) == \A c \in Columns \ columns : db'[c] = db[c]

LEMMA LookAtIndexDoes ==
  ASSUME Transactions, Placed, NEW p \in Processes, LookAtIndex(p)
  PROVE  /\ proc[p].pc = "look_index" /\ proc[p].job = "init"
         /\ Turns(p, (CASE Sees(p).index = "current" -> "ensure_ledger"
                                  [] Sees(p).index = "old" -> "drop_index"
                                  [] OTHER -> "create_index"),
                    proc[p].open, proc[p].seen, proc[p].fresh)
         /\ Read
BY AttributeNames
DEF LookAtIndex, At, Turns, Do, Go, Transactions, Placed, Place, InPlace, OpenAt, ThereFor

LEMMA LookAtLedgerDoes ==
  ASSUME Transactions, Placed, NEW p \in Processes, LookAtLedger(p)
  PROVE  /\ proc[p].pc = "look_ledger" /\ proc[p].job = "init"
         /\ Turns(p, (IF Sees(p).ledger = "legacy" THEN "rename_ledger" ELSE "columns"),
                    proc[p].open, proc[p].seen, proc[p].fresh)
         /\ Read
BY AttributeNames
DEF LookAtLedger, At, Turns, Do, Go, Transactions, Placed, Place, InPlace, OpenAt, ThereFor

LEMMA ReadUndatedDoes ==
  ASSUME Transactions, Placed, NEW p \in Processes, ReadUndated(p)
  PROVE  /\ proc[p].pc = "read_undated" /\ proc[p].job = "init"
         /\ Turns(p, "backfill",
                    proc[p].open, Lacking(Sees(p).cands), proc[p].fresh)
         /\ Read
BY AttributeNames
DEF ReadUndated, At, Turns, Do, Go, Transactions, Placed, Place, InPlace, OpenAt, ThereFor

LEMMA LookForShadowDoes ==
  ASSUME Transactions, Placed, NEW p \in Processes, LookForShadow(p)
  PROVE  /\ proc[p].pc = "look_shadow" /\ proc[p].job = "init"
         /\ Turns(p, "create_shadow",
                    proc[p].open, proc[p].seen, ~Sees(p).shadow)
         /\ Read
BY AttributeNames
DEF LookForShadow, At, Turns, Do, Go, Transactions, Placed, Place, InPlace, OpenAt, ThereFor

LEMMA LookAtFactsDoes ==
  ASSUME Transactions, Placed, NEW p \in Processes, LookAtFacts(p)
  PROVE  /\ proc[p].pc = "look_unique" /\ proc[p].job = "init"
         /\ Sees(p).unique \/ ~Sees(p).twins
         /\ Turns(p, (IF Sees(p).unique THEN "rest" ELSE "create_unique"),
                    proc[p].open, proc[p].seen, proc[p].fresh)
         /\ Read
BY AttributeNames
DEF LookAtFacts, At, Turns, Do, Go, Transactions, Placed, Place, InPlace, OpenAt, ThereFor

LEMMA LookAtMetaDoes ==
  ASSUME Transactions, Placed, NEW p \in Processes, LookAtMeta(p)
  PROVE  /\ proc[p].pc = "look_meta" /\ proc[p].job = "vectors"
         /\ Turns(p, (IF Sees(p).meta THEN "commit" ELSE "insert_meta"),
                    proc[p].open, proc[p].seen, proc[p].fresh)
         /\ Read
BY AttributeNames
DEF LookAtMeta, At, Turns, Do, Go, Transactions, Placed, Place, InPlace, OpenAt, ThereFor

LEMMA EnsureMessagesDoes ==
  ASSUME Transactions, Placed, NEW p \in Processes, EnsureMessages(p)
  PROVE  /\ proc[p].pc = "base" /\ proc[p].job = "init"
         /\ Turns(p, "look_index",
                    proc[p].open, proc[p].seen, proc[p].fresh)
         /\ MayWrite(p) /\ writer' = writer
         /\ Alters({})
<1>1. /\ proc[p].pc = "base" /\ proc[p].job = "init"
      /\ Turns(p, "look_index",
                 proc[p].open, proc[p].seen, proc[p].fresh)
  BY AttributeNames
  DEF EnsureMessages, At, Turns, Do, Go, Transactions, Placed, Place, InPlace, OpenAt, ThereFor
<1> QED
  BY <1>1, ColumnNames DEF EnsureMessages, Alters, Transactions, Write, Ddl

LEMMA DropIndexDoes ==
  ASSUME Transactions, Placed, NEW p \in Processes, DropIndex(p)
  PROVE  /\ proc[p].pc = "drop_index" /\ proc[p].job = "init"
         /\ Turns(p, "create_index",
                    Opening(p, "index"), proc[p].seen, proc[p].fresh)
         /\ MayWrite(p) /\ writer' = writer
         /\ Alters({"index", "found"})
         /\ db'.index = "none"
         /\ db'.found = {}
<1>1. /\ proc[p].pc = "drop_index" /\ proc[p].job = "init"
      /\ Turns(p, "create_index",
                 Opening(p, "index"), proc[p].seen, proc[p].fresh)
  BY AttributeNames
  DEF DropIndex, At, Turns, Do, Go, Transactions, Placed, Place, InPlace, OpenAt, ThereFor
<1> QED
  BY <1>1, ColumnNames DEF DropIndex, Alters, Transactions, Write, Ddl

LEMMA CreateIndexDoes ==
  ASSUME Transactions, Placed, NEW p \in Processes, CreateIndex(p)
  PROVE  /\ proc[p].pc = "create_index" /\ proc[p].job = "init"
         /\ db.index = "none"
         /\ Turns(p, "clear_index",
                    Opening(p, "index"), proc[p].seen, proc[p].fresh)
         /\ MayWrite(p) /\ writer' = writer
         /\ Alters({"index"})
         /\ db'.index = "current"
<1>1. /\ proc[p].pc = "create_index" /\ proc[p].job = "init"
      /\ Turns(p, "clear_index",
                 Opening(p, "index"), proc[p].seen, proc[p].fresh)
  BY AttributeNames
  DEF CreateIndex, At, Turns, Do, Go, Transactions, Placed, Place, InPlace, OpenAt, ThereFor
<1> QED
  BY <1>1, ColumnNames DEF CreateIndex, Alters, Transactions, Write, Ddl

LEMMA ClearIndexDoes ==
  ASSUME Transactions, Placed, NEW p \in Processes, ClearIndex(p)
  PROVE  /\ proc[p].pc = "clear_index" /\ proc[p].job \in {"init", "repair", "import"}
         /\ db.index # "none"
         /\ Turns(p, "read_messages",
                    (IF backend = "sqlite" THEN proc[p].open ELSE proc[p].open \cup {"index"}), proc[p].seen, proc[p].fresh)
         /\ MayWrite(p) /\ writer' = (IF backend = "sqlite" THEN p ELSE Nobody)
         /\ Alters({"found"})
         /\ db'.found = {}
<1>1. /\ proc[p].pc = "clear_index" /\ proc[p].job \in {"init", "repair", "import"}
      /\ Turns(p, "read_messages",
                 (IF backend = "sqlite" THEN proc[p].open ELSE proc[p].open \cup {"index"}), proc[p].seen, proc[p].fresh)
  BY AttributeNames
  DEF ClearIndex, At, Turns, Do, Go, Transactions, Placed, Place, InPlace, OpenAt, ThereFor
<1> QED
  BY <1>1, ColumnNames DEF ClearIndex, Alters, Transactions, Write, Dml

LEMMA ReadMessagesDoes ==
  ASSUME Transactions, Placed, NEW p \in Processes, ReadMessages(p)
  PROVE  /\ proc[p].pc = "read_messages" /\ proc[p].job \in {"init", "repair", "import"}
         /\ Turns(p, "fill_index",
                    proc[p].open, db.messages, proc[p].fresh)
         /\ MayWrite(p) /\ writer' = writer
         /\ Alters({"torn"})
         /\ db'.torn = db.torn \ {"index"}
<1>1. /\ proc[p].pc = "read_messages" /\ proc[p].job \in {"init", "repair", "import"}
      /\ Turns(p, "fill_index",
                 proc[p].open, db.messages, proc[p].fresh)
  BY AttributeNames
  DEF ReadMessages, At, Turns, Do, Go, Transactions, Placed, Place, InPlace, OpenAt, ThereFor
<1> QED
  BY <1>1, ColumnNames DEF ReadMessages, Alters, Transactions, Write, Mended

LEMMA FillIndexDoes ==
  ASSUME Transactions, Placed, NEW p \in Processes, FillIndex(p)
  PROVE  /\ proc[p].pc = "fill_index" /\ proc[p].job \in {"init", "repair", "import"}
         /\ db.index # "none"
         /\ Turns(p, (IF proc[p].job = "init" THEN "ensure_ledger" ELSE "rebuild_shadow"),
                    Closing(p, "index"), {}, proc[p].fresh)
         /\ MayWrite(p) /\ writer' = (IF backend = "sqlite" THEN p ELSE Nobody)
         /\ Alters({"found"})
         /\ db'.found = db.found \cup proc[p].seen
<1>1. /\ proc[p].pc = "fill_index" /\ proc[p].job \in {"init", "repair", "import"}
      /\ Turns(p, (IF proc[p].job = "init" THEN "ensure_ledger" ELSE "rebuild_shadow"),
                 Closing(p, "index"), {}, proc[p].fresh)
  BY AttributeNames
  DEF FillIndex, At, Turns, Do, Go, Transactions, Placed, Place, InPlace, OpenAt, ThereFor
<1> QED
  BY <1>1, ColumnNames DEF FillIndex, Alters, Transactions, Write, Dml

LEMMA EnsureLedgerDoes ==
  ASSUME Transactions, Placed, NEW p \in Processes, EnsureLedger(p)
  PROVE  /\ proc[p].pc = "ensure_ledger" /\ proc[p].job = "init"
         /\ Turns(p, "look_ledger",
                    proc[p].open, proc[p].seen, proc[p].fresh)
         /\ MayWrite(p) /\ writer' = writer
         /\ Alters({"ledger"})
         /\ db'.ledger = (IF db.ledger = "none" THEN "current" ELSE db.ledger)
<1>1. /\ proc[p].pc = "ensure_ledger" /\ proc[p].job = "init"
      /\ Turns(p, "look_ledger",
                 proc[p].open, proc[p].seen, proc[p].fresh)
  BY AttributeNames
  DEF EnsureLedger, At, Turns, Do, Go, Transactions, Placed, Place, InPlace, OpenAt, ThereFor
<1> QED
  BY <1>1, ColumnNames DEF EnsureLedger, Alters, Transactions, Write, Ddl

LEMMA RenameLedgerDoes ==
  ASSUME Transactions, Placed, NEW p \in Processes, RenameLedger(p)
  PROVE  /\ proc[p].pc = "rename_ledger" /\ proc[p].job = "init"
         /\ db.ledger # "none"
         /\ ~db.renamed
         /\ Turns(p, "create_ledger",
                    Opening(p, "ledger"), proc[p].seen, proc[p].fresh)
         /\ MayWrite(p) /\ writer' = writer
         /\ Alters({"ledger", "keys", "old", "renamed"})
         /\ db'.ledger = "none"
         /\ db'.keys = {}
         /\ db'.old = db.keys
         /\ db'.renamed = TRUE
<1>1. /\ proc[p].pc = "rename_ledger" /\ proc[p].job = "init"
      /\ Turns(p, "create_ledger",
                 Opening(p, "ledger"), proc[p].seen, proc[p].fresh)
  BY AttributeNames
  DEF RenameLedger, At, Turns, Do, Go, Transactions, Placed, Place, InPlace, OpenAt, ThereFor
<1> QED
  BY <1>1, ColumnNames DEF RenameLedger, Alters, Transactions, Write, Ddl

LEMMA CreateLedgerDoes ==
  ASSUME Transactions, Placed, NEW p \in Processes, CreateLedger(p)
  PROVE  /\ proc[p].pc = "create_ledger" /\ proc[p].job = "init"
         /\ Turns(p, "copy_ledger",
                    proc[p].open, proc[p].seen, proc[p].fresh)
         /\ MayWrite(p) /\ writer' = writer
         /\ Alters({"ledger"})
         /\ db'.ledger = (IF db.ledger = "none" THEN "current" ELSE db.ledger)
<1>1. /\ proc[p].pc = "create_ledger" /\ proc[p].job = "init"
      /\ Turns(p, "copy_ledger",
                 proc[p].open, proc[p].seen, proc[p].fresh)
  BY AttributeNames
  DEF CreateLedger, At, Turns, Do, Go, Transactions, Placed, Place, InPlace, OpenAt, ThereFor
<1> QED
  BY <1>1, ColumnNames DEF CreateLedger, Alters, Transactions, Write, Ddl

LEMMA CopyLedgerDoes ==
  ASSUME Transactions, Placed, NEW p \in Processes, CopyLedger(p)
  PROVE  /\ proc[p].pc = "copy_ledger" /\ proc[p].job = "init"
         /\ db.ledger # "none"
         /\ db.renamed
         /\ Turns(p, "drop_ledger",
                    Closing(p, "ledger"), proc[p].seen, proc[p].fresh)
         /\ MayWrite(p) /\ writer' = (IF backend = "sqlite" THEN p ELSE Nobody)
         /\ Alters({"keys"})
         /\ db'.keys = db.keys \cup db.old
<1>1. /\ proc[p].pc = "copy_ledger" /\ proc[p].job = "init"
      /\ Turns(p, "drop_ledger",
                 Closing(p, "ledger"), proc[p].seen, proc[p].fresh)
  BY AttributeNames
  DEF CopyLedger, At, Turns, Do, Go, Transactions, Placed, Place, InPlace, OpenAt, ThereFor
<1> QED
  BY <1>1, ColumnNames DEF CopyLedger, Alters, Transactions, Write, Dml

LEMMA DropLedgerDoes ==
  ASSUME Transactions, Placed, NEW p \in Processes, DropLedger(p)
  PROVE  /\ proc[p].pc = "drop_ledger" /\ proc[p].job = "init"
         /\ db.renamed
         /\ Turns(p, "columns",
                    proc[p].open, proc[p].seen, proc[p].fresh)
         /\ MayWrite(p) /\ writer' = writer
         /\ Alters({"old", "renamed"})
         /\ db'.old = {}
         /\ db'.renamed = FALSE
<1>1. /\ proc[p].pc = "drop_ledger" /\ proc[p].job = "init"
      /\ Turns(p, "columns",
                 proc[p].open, proc[p].seen, proc[p].fresh)
  BY AttributeNames
  DEF DropLedger, At, Turns, Do, Go, Transactions, Placed, Place, InPlace, OpenAt, ThereFor
<1> QED
  BY <1>1, ColumnNames DEF DropLedger, Alters, Transactions, Write, Ddl

LEMMA EnsureColumnsDoes ==
  ASSUME Transactions, Placed, NEW p \in Processes, EnsureColumns(p)
  PROVE  /\ proc[p].pc = "columns" /\ proc[p].job = "init"
         /\ Turns(p, "touch",
                    proc[p].open, proc[p].seen, proc[p].fresh)
         /\ MayWrite(p) /\ writer' = writer
         /\ Alters({"dated"})
         /\ db'.dated = TRUE
<1>1. /\ proc[p].pc = "columns" /\ proc[p].job = "init"
      /\ Turns(p, "touch",
                 proc[p].open, proc[p].seen, proc[p].fresh)
  BY AttributeNames
  DEF EnsureColumns, At, Turns, Do, Go, Transactions, Placed, Place, InPlace, OpenAt, ThereFor
<1> QED
  BY <1>1, ColumnNames DEF EnsureColumns, Alters, Transactions, Write, Ddl

LEMMA FillLastSeenDoes ==
  ASSUME Transactions, Placed, NEW p \in Processes, FillLastSeen(p)
  PROVE  /\ proc[p].pc = "touch" /\ proc[p].job = "init"
         /\ Turns(p, "read_undated",
                    proc[p].open, proc[p].seen, proc[p].fresh)
         /\ MayWrite(p) /\ writer' = (IF backend = "sqlite" THEN p ELSE Nobody)
         /\ Alters({})
<1>1. /\ proc[p].pc = "touch" /\ proc[p].job = "init"
      /\ Turns(p, "read_undated",
                 proc[p].open, proc[p].seen, proc[p].fresh)
  BY AttributeNames
  DEF FillLastSeen, At, Turns, Do, Go, Transactions, Placed, Place, InPlace, OpenAt, ThereFor
<1> QED
  BY <1>1, ColumnNames DEF FillLastSeen, Alters, Transactions, Write, Dml

LEMMA BackfillDoes ==
  ASSUME Transactions, Placed, NEW p \in Processes, Backfill(p)
  PROVE  /\ proc[p].pc = "backfill" /\ proc[p].job = "init"
         /\ Turns(p, "look_shadow",
                    proc[p].open, {}, proc[p].fresh)
         /\ MayWrite(p) /\ writer' = (IF backend = "sqlite" THEN p ELSE Nobody)
         /\ Alters({"cands"})
         /\ db'.cands = DatedBy(db.cands, proc[p].seen)
<1>1. /\ proc[p].pc = "backfill" /\ proc[p].job = "init"
      /\ Turns(p, "look_shadow",
                 proc[p].open, {}, proc[p].fresh)
  BY AttributeNames
  DEF Backfill, At, Turns, Do, Go, Transactions, Placed, Place, InPlace, OpenAt, ThereFor
<1> QED
  BY <1>1, ColumnNames DEF Backfill, Alters, Transactions, Write, Dml

LEMMA CreateShadowDoes ==
  ASSUME Transactions, Placed, NEW p \in Processes, CreateShadow(p)
  PROVE  /\ proc[p].pc = "create_shadow" /\ proc[p].job = "init"
         /\ Turns(p, "triggers",
                    (IF db.shadow THEN proc[p].open ELSE Opening(p, "shadow")), proc[p].seen, proc[p].fresh)
         /\ MayWrite(p) /\ writer' = writer
         /\ Alters({"shadow"})
         /\ db'.shadow = TRUE
<1>1. /\ proc[p].pc = "create_shadow" /\ proc[p].job = "init"
      /\ Turns(p, "triggers",
                 (IF db.shadow THEN proc[p].open ELSE Opening(p, "shadow")), proc[p].seen, proc[p].fresh)
  BY AttributeNames
  DEF CreateShadow, At, Turns, Do, Go, Transactions, Placed, Place, InPlace, OpenAt, ThereFor
<1> QED
  BY <1>1, ColumnNames DEF CreateShadow, Alters, Transactions, Write, Ddl

LEMMA CreateTriggersDoes ==
  ASSUME Transactions, Placed, NEW p \in Processes, CreateTriggers(p)
  PROVE  /\ proc[p].pc = "triggers" /\ proc[p].job = "init"
         /\ Turns(p, (IF proc[p].fresh THEN "rebuild_shadow" ELSE "look_unique"),
                    proc[p].open, proc[p].seen, proc[p].fresh)
         /\ MayWrite(p) /\ writer' = writer
         /\ Alters({"triggers"})
         /\ db'.triggers = TRUE
<1>1. /\ proc[p].pc = "triggers" /\ proc[p].job = "init"
      /\ Turns(p, (IF proc[p].fresh THEN "rebuild_shadow" ELSE "look_unique"),
                 proc[p].open, proc[p].seen, proc[p].fresh)
  BY AttributeNames
  DEF CreateTriggers, At, Turns, Do, Go, Transactions, Placed, Place, InPlace, OpenAt, ThereFor
<1> QED
  BY <1>1, ColumnNames DEF CreateTriggers, Alters, Transactions, Write, Ddl

LEMMA RebuildShadowDoes ==
  ASSUME Transactions, Placed, NEW p \in Processes, RebuildShadow(p)
  PROVE  /\ proc[p].pc = "rebuild_shadow" /\ proc[p].job \in {"init", "repair", "import"}
         /\ db.shadow
         /\ Turns(p, (IF proc[p].job = "init" THEN "look_unique" ELSE "recount"),
                    Closing(p, "shadow"), proc[p].seen, FALSE)
         /\ MayWrite(p) /\ writer' = (IF backend = "sqlite" THEN p ELSE Nobody)
         /\ Alters({"shadowed", "torn"})
         /\ db'.shadowed = CandidateIds(db)
         /\ db'.torn = db.torn \ {"shadow"}
<1>1. /\ proc[p].pc = "rebuild_shadow" /\ proc[p].job \in {"init", "repair", "import"}
      /\ Turns(p, (IF proc[p].job = "init" THEN "look_unique" ELSE "recount"),
                 Closing(p, "shadow"), proc[p].seen, FALSE)
  BY AttributeNames
  DEF RebuildShadow, At, Turns, Do, Go, Transactions, Placed, Place, InPlace, OpenAt, ThereFor
<1> QED
  BY <1>1, ColumnNames DEF RebuildShadow, Alters, Transactions, Write, Dml, Mended

LEMMA CreateUniqueDoes ==
  ASSUME Transactions, Placed, NEW p \in Processes, CreateUnique(p)
  PROVE  /\ proc[p].pc = "create_unique" /\ proc[p].job = "init"
         /\ ~db.unique
         /\ ~db.twins
         /\ Turns(p, "rest",
                    proc[p].open, proc[p].seen, proc[p].fresh)
         /\ MayWrite(p) /\ writer' = writer
         /\ Alters({"unique"})
         /\ db'.unique = TRUE
<1>1. /\ proc[p].pc = "create_unique" /\ proc[p].job = "init"
      /\ Turns(p, "rest",
                 proc[p].open, proc[p].seen, proc[p].fresh)
  BY AttributeNames
  DEF CreateUnique, At, Turns, Do, Go, Transactions, Placed, Place, InPlace, OpenAt, ThereFor
<1> QED
  BY <1>1, ColumnNames DEF CreateUnique, Alters, Transactions, Write, Ddl

LEMMA EnsureRestDoes ==
  ASSUME Transactions, Placed, NEW p \in Processes, EnsureRest(p)
  PROVE  /\ proc[p].pc = "rest" /\ proc[p].job = "init"
         /\ Turns(p, "commit",
                    proc[p].open, proc[p].seen, proc[p].fresh)
         /\ MayWrite(p) /\ writer' = (IF backend = "sqlite" THEN p ELSE Nobody)
         /\ Alters({})
<1>1. /\ proc[p].pc = "rest" /\ proc[p].job = "init"
      /\ Turns(p, "commit",
                 proc[p].open, proc[p].seen, proc[p].fresh)
  BY AttributeNames
  DEF EnsureRest, At, Turns, Do, Go, Transactions, Placed, Place, InPlace, OpenAt, ThereFor
<1> QED
  BY <1>1, ColumnNames DEF EnsureRest, Alters, Transactions, Write, Dml

LEMMA InsertMetaDoes ==
  ASSUME Transactions, Placed, NEW p \in Processes, InsertMeta(p)
  PROVE  /\ proc[p].pc = "insert_meta" /\ proc[p].job = "vectors"
         /\ Turns(p, "commit",
                    proc[p].open, proc[p].seen, proc[p].fresh)
         /\ MayWrite(p) /\ writer' = (IF backend = "sqlite" THEN p ELSE Nobody)
         /\ Alters({"meta"})
         /\ db'.meta = TRUE
<1>1. /\ proc[p].pc = "insert_meta" /\ proc[p].job = "vectors"
      /\ Turns(p, "commit",
                 proc[p].open, proc[p].seen, proc[p].fresh)
  BY AttributeNames
  DEF InsertMeta, At, Turns, Do, Go, Transactions, Placed, Place, InPlace, OpenAt, ThereFor
<1> QED
  BY <1>1, ColumnNames DEF InsertMeta, Alters, Transactions, Write, Dml

LEMMA RecountDoes ==
  ASSUME Transactions, Placed, NEW p \in Processes, Recount(p)
  PROVE  /\ proc[p].pc \in {"recount", "recount_facts"} /\ proc[p].job \in {"repair", "import"}
         /\ proc'[p].pc \in {"recount_facts", "commit"}
         /\ Turns(p, proc'[p].pc, proc[p].open, proc[p].seen, proc[p].fresh)
         /\ MayWrite(p) /\ writer' = (IF backend = "sqlite" THEN p ELSE Nobody)
         /\ Alters({"count", "torn"})
         /\ \E r \in Surfaced :
              /\ db'.count = [db.count EXCEPT ![r] = db.events[r]]
              /\ db'.torn = (db.torn \ {r}) \cup
                  {x \in {r} : \E q \in Processes : r \in proc[q].open}
         /\ db'.torn \subseteq db.torn \cup Surfaced
         /\ "index" \in db.torn => "index" \in db'.torn
         /\ "ledger" \in db.torn => "ledger" \in db'.torn
         /\ "shadow" \in db.torn => "shadow" \in db'.torn
<1>1. PICK r \in Surfaced :
        /\ At(p, {"repair", "import"}, RecountStage[r])
        /\ Dml(p, [Mended(db, r) EXCEPT
                     !.count[r] = db.events[r],
                     !.torn = @ \cup {x \in {r} : \E q \in Processes : r \in proc[q].open}])
        /\ Go(p, IF r = "candidate" THEN "recount_facts" ELSE "commit")
  BY DEF Recount
<1>2. /\ proc[p].pc \in {"recount", "recount_facts"} /\ proc[p].job \in {"repair", "import"}
      /\ proc'[p].pc \in {"recount_facts", "commit"}
      /\ Turns(p, proc'[p].pc, proc[p].open, proc[p].seen, proc[p].fresh)
  BY <1>1, AttributeNames
  DEF RecountStage, Surfaced, At, Turns, Do, Go, Transactions, Placed, Place, InPlace, OpenAt,
      ThereFor
<1>3. /\ MayWrite(p) /\ writer' = (IF backend = "sqlite" THEN p ELSE Nobody)
      /\ Alters({"count", "torn"})
      /\ db'.count = [db.count EXCEPT ![r] = db.events[r]]
      /\ db'.torn = (db.torn \ {r}) \cup {x \in {r} : \E q \in Processes : r \in proc[q].open}
  BY <1>1, ColumnNames DEF Alters, Transactions, Write, Dml, Mended
<1>4. /\ db'.torn \subseteq db.torn \cup Surfaced
      /\ "index" \in db.torn => "index" \in db'.torn
      /\ "ledger" \in db.torn => "ledger" \in db'.torn
      /\ "shadow" \in db.torn => "shadow" \in db'.torn
  BY <1>3 DEF Surfaced
<1> QED
  BY <1>2, <1>3, <1>4

LEMMA InsertEntryDoes ==
  ASSUME Transactions, Placed, NEW p \in Processes, InsertEntry(p)
  PROVE  /\ proc[p].pc = "entry" /\ proc[p].job = "append"
         /\ db.index # "none"
         /\ Turns(p, "commit",
                    proc[p].open, {}, proc[p].fresh)
         /\ MayWrite(p) /\ writer' = (IF backend = "sqlite" THEN p ELSE Nobody)
         /\ Alters({"found"})
         /\ db'.found = db.found \cup proc[p].seen
<1>1. /\ proc[p].pc = "entry" /\ proc[p].job = "append"
      /\ Turns(p, "commit",
                 proc[p].open, {}, proc[p].fresh)
  BY AttributeNames
  DEF InsertEntry, At, Turns, Do, Go, Transactions, Placed, Place, InPlace, OpenAt, ThereFor
<1> QED
  BY <1>1, ColumnNames DEF InsertEntry, Alters, Transactions, Write, Dml

LEMMA LogEventDoes ==
  ASSUME Transactions, Placed, NEW p \in Processes, NEW r \in Surfaced, LogEvent(p, r)
  PROVE  /\ proc[p].pc = "event" /\ proc[p].job = "retrieve"
         /\ r \in proc[p].seen
         /\ Turns(p, "count",
                    (IF backend = "sqlite" THEN proc[p].open ELSE proc[p].open \cup {r}), proc[p].seen, proc[p].fresh)
         /\ MayWrite(p) /\ writer' = (IF backend = "sqlite" THEN p ELSE Nobody)
         /\ Alters({"events"})
         /\ db'.events = [db.events EXCEPT ![r] = @ + 1]
<1>1. /\ proc[p].pc = "event" /\ proc[p].job = "retrieve"
      /\ Turns(p, "count",
                 (IF backend = "sqlite" THEN proc[p].open ELSE proc[p].open \cup {r}), proc[p].seen, proc[p].fresh)
  BY AttributeNames
  DEF LogEvent, At, Turns, Do, Go, Transactions, Placed, Place, InPlace, OpenAt, ThereFor
<1> QED
  BY <1>1, ColumnNames DEF LogEvent, Alters, Transactions, Write, Dml

LEMMA CountEventDoes ==
  ASSUME Transactions, Placed, NEW p \in Processes, NEW r \in Surfaced, CountEvent(p, r)
  PROVE  /\ proc[p].pc = "count" /\ proc[p].job = "retrieve"
         /\ r \in proc[p].seen
         /\ Turns(p, "commit",
                    Closing(p, r), {}, proc[p].fresh)
         /\ MayWrite(p) /\ writer' = (IF backend = "sqlite" THEN p ELSE Nobody)
         /\ Alters({"count"})
         /\ db'.count = [db.count EXCEPT ![r] = @ + 1]
<1>1. /\ proc[p].pc = "count" /\ proc[p].job = "retrieve"
      /\ Turns(p, "commit",
                 Closing(p, r), {}, proc[p].fresh)
  BY AttributeNames
  DEF CountEvent, At, Turns, Do, Go, Transactions, Placed, Place, InPlace, OpenAt, ThereFor
<1> QED
  BY <1>1, ColumnNames DEF CountEvent, Alters, Transactions, Write, Dml

LEMMA ImportDoes ==
  ASSUME Transactions, Placed, NEW p \in Processes, Import(p)
  PROVE  /\ proc[p].pc = "insert" /\ proc[p].job = "import"
         /\ writer = Nobody
         /\ db.messages \subseteq Artifact.messages
         /\ db.keys \subseteq Artifact.keys
         /\ ~db.fact
         /\ db.events = Zero
         /\ db.ledger # "none"
         /\ Turns(p, "clear_index",
                    {"index"}, proc[p].seen, proc[p].fresh)
         /\ writer' = Nobody
         /\ Alters({"messages", "keys", "keyed", "cands", "shadowed"})
         /\ db'.messages = Artifact.messages
         /\ db'.keys = Artifact.keys
         /\ db'.keyed = db.keyed \cup Artifact.keys
         /\ \A c \in db.cands : \E a \in Artifact.cands : SameRow(a, c)
         /\ db'.cands = DatedBy(Joined(db), Lacking(Joined(db)))
         /\ db'.shadowed = db.shadowed \cup (CandidateIds(Artifact) \ CandidateIds(db))
<1>1. /\ proc[p].pc = "insert" /\ proc[p].job = "import"
      /\ Turns(p, "clear_index",
                 {"index"}, proc[p].seen, proc[p].fresh)
  BY AttributeNames
  DEF Import, At, Turns, Do, Go, Transactions, Placed, Place, InPlace, OpenAt, ThereFor
<1> QED
  BY <1>1, ColumnNames DEF Import, Alters, Transactions, Write

Enters(p, what, stage) ==
  /\ proc[p].pc = "idle" /\ proc'[p].pc = stage /\ proc'[p].job = what
  /\ proc'[p].memo = proc[p].memo /\ proc'[p].open = proc[p].open
  /\ proc'[p].fresh = proc[p].fresh

LEMMA StartsDo ==
  ASSUME Transactions, Placed, NEW p \in Processes
  PROVE  /\ StartInit(p) => Enters(p, "init", "base") /\ proc'[p].seen = proc[p].seen
         /\ StartVectors(p) => /\ Enters(p, "vectors", "look_meta")
                               /\ proc'[p].seen = proc[p].seen /\ proc[p].memo = {"base"}
         /\ StartAppend(p) => /\ Enters(p, "append", "row")
                              /\ proc'[p].seen = proc[p].seen /\ "base" \in proc[p].memo
         /\ StartRepair(p) => /\ Enters(p, "repair", "clear_index")
                              /\ proc'[p].seen = proc[p].seen /\ "base" \in proc[p].memo
         /\ StartImport(p) => /\ Enters(p, "import", "insert")
                              /\ proc'[p].seen = proc[p].seen /\ "vec" \in proc[p].memo
         /\ \A r \in Surfaced : Retrieve(p, r) =>
              /\ Enters(p, "retrieve", "event") /\ proc'[p].seen = {r}
              /\ "vec" \in proc[p].memo /\ Found(r)
<1> USE AttributeNames DEF Enters, MayStart, Start, Do, Transactions, Placed, Place, InPlace, OpenAt, ThereFor
<1>1. StartInit(p) => Enters(p, "init", "base") /\ proc'[p].seen = proc[p].seen
  BY DEF StartInit
<1>2. StartVectors(p) => /\ Enters(p, "vectors", "look_meta")
                         /\ proc'[p].seen = proc[p].seen /\ proc[p].memo = {"base"}
  BY DEF StartVectors
<1>3. StartAppend(p) => /\ Enters(p, "append", "row")
                        /\ proc'[p].seen = proc[p].seen /\ "base" \in proc[p].memo
  BY DEF StartAppend
<1>4. StartRepair(p) => /\ Enters(p, "repair", "clear_index")
                        /\ proc'[p].seen = proc[p].seen /\ "base" \in proc[p].memo
  BY DEF StartRepair
<1>5. StartImport(p) => /\ Enters(p, "import", "insert")
                        /\ proc'[p].seen = proc[p].seen /\ "vec" \in proc[p].memo
  BY DEF StartImport
<1>6. ASSUME NEW r \in Surfaced, Retrieve(p, r)
      PROVE  /\ Enters(p, "retrieve", "event") /\ proc'[p].seen = {r}
             /\ "vec" \in proc[p].memo /\ Found(r)
  BY <1>6 DEF Retrieve
<1> QED
  BY <1>1, <1>2, <1>3, <1>4, <1>5, <1>6

LEMMA CommitDoes ==
  ASSUME Transactions, Placed, NEW p \in Processes, Commit(p)
  PROVE  /\ proc[p].pc = "commit" /\ MayWrite(p) /\ writer' = Nobody /\ db' = db /\ disk' = db
         /\ proc'[p].pc = "idle" /\ proc'[p].open = {} /\ proc'[p].job = proc[p].job
         /\ proc'[p].memo = proc[p].memo \cup {IF proc[p].job = "vectors" THEN "vec" ELSE "base"}
         /\ proc'[p].seen = proc[p].seen /\ proc'[p].fresh = proc[p].fresh
<1> USE AttributeNames DEF Commit, Do, Transactions, Placed, Place, InPlace, OpenAt, ThereFor
<1>1. proc'[p] = [proc[p] EXCEPT !.pc = "idle", !.open = {},
                    !.memo = @ \cup {IF proc[p].job = "vectors" THEN "vec" ELSE "base"}]
  OBVIOUS
<1>2. /\ proc'[p].pc = "idle" /\ proc'[p].open = {} /\ proc'[p].job = proc[p].job
      /\ proc'[p].seen = proc[p].seen /\ proc'[p].fresh = proc[p].fresh
  BY <1>1
<1>3. proc'[p].memo = proc[p].memo \cup {IF proc[p].job = "vectors" THEN "vec" ELSE "base"}
  BY <1>1
<1> QED
  BY <1>2, <1>3 DEF Write

LEMMA ForgetDoes ==
  ASSUME Transactions, Placed, NEW p \in Processes, Forget(p)
  PROVE  /\ Read /\ proc[p].pc = "idle" /\ proc'[p].pc = "idle" /\ proc'[p].memo = {}
         /\ proc'[p].open = proc[p].open /\ proc'[p].job = proc[p].job
         /\ proc'[p].seen = proc[p].seen /\ proc'[p].fresh = proc[p].fresh
BY AttributeNames DEF Forget, Do, Transactions, Placed, Place, InPlace, OpenAt, ThereFor

LEMMA InsertMessageDoes ==
  ASSUME Transactions, Placed, NEW p \in Processes, InsertMessage(p)
  PROVE  /\ proc[p].pc = "row" /\ proc[p].job = "append"
         /\ MayWrite(p) /\ writer' = (IF backend = "sqlite" THEN p ELSE Nobody)
         /\ Alters({"messages"})
         /\ \E m \in Ids \ db.messages :
              /\ db'.messages = db.messages \cup {m}
              /\ Turns(p, "entry",
                         (IF backend = "sqlite" THEN proc[p].open ELSE proc[p].open \cup {"index"}),
                         {m}, proc[p].fresh)
<1>1. PICK m \in Ids \ db.messages :
        /\ Dml(p, [db EXCEPT !.messages = @ \cup {m}])
        /\ Do(p, [proc[p] EXCEPT !.pc = "entry", !.seen = {m},
                                 !.open = IF backend = "sqlite" THEN @ ELSE @ \cup {"index"}])
  BY DEF InsertMessage
<1>2. Turns(p, "entry",
              (IF backend = "sqlite" THEN proc[p].open ELSE proc[p].open \cup {"index"}),
              {m}, proc[p].fresh)
  BY <1>1, AttributeNames DEF Turns, Do, Transactions, Placed, Place, InPlace, OpenAt, ThereFor
<1> QED
  BY <1>1, <1>2, ColumnNames DEF InsertMessage, At, Alters, Dml, Write, Transactions

\* A transaction of a process that serves, with nobody's open.
Serving(p) ==
  /\ proc[p].pc = "idle" /\ proc[p].memo # {} /\ writer = Nobody /\ writer' = Nobody
  /\ UNCHANGED proc

LEMMA IngestSourceDoes ==
  ASSUME Transactions, Placed, NEW p \in Processes, IngestSource(p)
  PROVE  /\ Serving(p) /\ db.index # "none" /\ db.ledger # "none"
         /\ Alters({"messages", "found", "keys", "keyed"})
         /\ \E m \in Ids : /\ db'.messages = db.messages \cup {m} /\ db'.found = db.found \cup {m}
                           /\ db'.keys = db.keys \cup {m} /\ db'.keyed = db.keyed \cup {m}
BY ColumnNames DEF IngestSource, Serves, Serving, Alters, Write, Transactions

LEMMA InsertDoes ==
  ASSUME Transactions, Placed, NEW p \in Processes, NEW m \in Ids, Insert(p, m)
  PROVE  /\ Serving(p) /\ Alters({"cands", "shadowed"}) /\ m \notin CandidateIds(db)
         /\ db'.cands = db.cands \cup {Candidate(m, {m}, Date[m])}
         /\ db'.shadowed = IF db.triggers THEN db.shadowed \cup {m} ELSE db.shadowed
BY ColumnNames DEF Insert, Serves, Serving, Alters, Write, Transactions

LEMMA MergeDoes ==
  ASSUME Transactions, Placed, NEW p \in Processes, NEW m \in Ids, NEW c, Merge(p, c, m)
  PROVE  /\ Serving(p) /\ Alters({"cands"}) /\ c \in db.cands
         /\ db'.cands = (db.cands \ {c}) \cup
              {Candidate(c.id, c.sources \cup {m}, Earliest(c.sources \cup {m}))}
BY ColumnNames DEF Merge, Serves, Serving, Alters, Write, Transactions

LEMMA PromoteDoes ==
  ASSUME Transactions, Placed, NEW p \in Processes, Promote(p)
  PROVE  /\ Serving(p) /\ ~db.fact /\ Alters({"fact", "count", "inherited"})
         /\ db'.fact = TRUE /\ db'.inherited = db.count["candidate"]
         /\ db'.count = [db.count EXCEPT !["fact"] = db.count["candidate"]]
BY ColumnNames DEF Promote, Serves, Serving, Alters, Write, Transactions

LEMMA RetireDoes ==
  ASSUME Transactions, RetireTwins
  PROVE  /\ writer = Nobody /\ writer' = Nobody /\ UNCHANGED <<proc, backend>> /\ disk' = db'
         /\ Alters({"twins"}) /\ db'.twins = FALSE
BY ColumnNames DEF RetireTwins, Alters, Write, Transactions

LEMMA BreakDoes ==
  ASSUME Transactions, Placed, NEW p \in Processes, Break(p)
  PROVE  /\ \A c \in Columns \ {"torn"} :
              disk'[c] = disk[c] /\ db'[c] = (IF writer = p THEN disk[c] ELSE db[c])
         /\ disk'.torn = disk.torn \cup proc[p].open
         /\ db'.torn = (IF writer = p THEN disk.torn ELSE db.torn) \cup proc[p].open
BY ColumnNames DEF Break, Left, Transactions

LEMMA OwnReadPlaced ==
  ASSUME Transactions, Placed, NEW p \in Processes, ReadStep(p)
  PROVE  Place(p)'
<1>1. InPlace(p) /\ OpenAt(p) /\ ThereFor(p) /\ p # Nobody
  BY SchemaAssumption DEF Placed, Place
<1>0. backend' = backend /\ DOMAIN proc'[p] = Attributes /\ Read
  BY ReadSteps DEF Steps
<1>2. CASE StartInit(p)
  <2>1. InPlace(p)'
    BY <1>2, <1>0, <1>1, StartsDo
    DEF InPlace, Turns, InTransaction, OutOfTransaction, Read, Enters
  <2>2. OpenAt(p)'
    BY <1>2, <1>0, <1>1, StartsDo DEF OpenAt, Turns, Fills, Moves, Read, Enters
  <2>3. ThereFor(p)'
    BY <1>2, <1>0, <1>1, StartsDo DEF ThereFor, Turns, Migrates, Moves, Read, Enters
  <2> QED
    BY <2>1, <2>2, <2>3 DEF Place
<1>3. CASE StartVectors(p)
  <2>1. InPlace(p)'
    BY <1>3, <1>0, <1>1, StartsDo
    DEF InPlace, Turns, InTransaction, OutOfTransaction, Read, Enters
  <2>2. OpenAt(p)'
    BY <1>3, <1>0, <1>1, StartsDo DEF OpenAt, Turns, Fills, Moves, Read, Enters
  <2>3. ThereFor(p)'
    BY <1>3, <1>0, <1>1, StartsDo DEF ThereFor, Turns, Migrates, Moves, Read, Enters
  <2> QED
    BY <2>1, <2>2, <2>3 DEF Place
<1>4. CASE StartAppend(p)
  <2>1. InPlace(p)'
    BY <1>4, <1>0, <1>1, StartsDo
    DEF InPlace, Turns, InTransaction, OutOfTransaction, Read, Enters
  <2>2. OpenAt(p)'
    BY <1>4, <1>0, <1>1, StartsDo DEF OpenAt, Turns, Fills, Moves, Read, Enters
  <2>3. ThereFor(p)'
    BY <1>4, <1>0, <1>1, StartsDo DEF ThereFor, Turns, Migrates, Moves, Read, Enters
  <2> QED
    BY <2>1, <2>2, <2>3 DEF Place
<1>5. CASE StartRepair(p)
  <2>1. InPlace(p)'
    BY <1>5, <1>0, <1>1, StartsDo
    DEF InPlace, Turns, InTransaction, OutOfTransaction, Read, Enters
  <2>2. OpenAt(p)'
    BY <1>5, <1>0, <1>1, StartsDo DEF OpenAt, Turns, Fills, Moves, Read, Enters
  <2>3. ThereFor(p)'
    BY <1>5, <1>0, <1>1, StartsDo DEF ThereFor, Turns, Migrates, Moves, Read, Enters
  <2> QED
    BY <2>1, <2>2, <2>3 DEF Place
<1>6. CASE StartImport(p)
  <2>1. InPlace(p)'
    BY <1>6, <1>0, <1>1, StartsDo
    DEF InPlace, Turns, InTransaction, OutOfTransaction, Read, Enters
  <2>2. OpenAt(p)'
    BY <1>6, <1>0, <1>1, StartsDo DEF OpenAt, Turns, Fills, Moves, Read, Enters
  <2>3. ThereFor(p)'
    BY <1>6, <1>0, <1>1, StartsDo DEF ThereFor, Turns, Migrates, Moves, Read, Enters
  <2> QED
    BY <2>1, <2>2, <2>3 DEF Place
<1>7. CASE \E r \in Surfaced : Retrieve(p, r)
  <2>1. InPlace(p)'
    BY <1>7, <1>0, <1>1, StartsDo
    DEF InPlace, Turns, InTransaction, OutOfTransaction, Read, Enters
  <2>2. OpenAt(p)'
    BY <1>7, <1>0, <1>1, StartsDo DEF OpenAt, Turns, Fills, Moves, Read, Enters
  <2>3. ThereFor(p)'
    BY <1>7, <1>0, <1>1, StartsDo DEF ThereFor, Turns, Migrates, Moves, Read, Enters
  <2> QED
    BY <2>1, <2>2, <2>3 DEF Place
<1>8. CASE LookAtIndex(p)
  <2>1. InPlace(p)'
    BY <1>8, <1>0, <1>1, LookAtIndexDoes
    DEF InPlace, Turns, InTransaction, OutOfTransaction, Read
  <2>2. OpenAt(p)'
    BY <1>8, <1>0, <1>1, LookAtIndexDoes DEF OpenAt, Turns, Fills, Moves, Read
  <2>3. ThereFor(p)'
    BY <1>8, <1>0, <1>1, LookAtIndexDoes DEF ThereFor, Turns, Migrates, Moves, Read
  <2> QED
    BY <2>1, <2>2, <2>3 DEF Place
<1>9. CASE LookAtLedger(p)
  <2>1. InPlace(p)'
    BY <1>9, <1>0, <1>1, LookAtLedgerDoes
    DEF InPlace, Turns, InTransaction, OutOfTransaction, Read
  <2>2. OpenAt(p)'
    BY <1>9, <1>0, <1>1, LookAtLedgerDoes DEF OpenAt, Turns, Fills, Moves, Read
  <2>3. ThereFor(p)'
    BY <1>9, <1>0, <1>1, LookAtLedgerDoes DEF ThereFor, Turns, Migrates, Moves, Read
  <2> QED
    BY <2>1, <2>2, <2>3 DEF Place
<1>10. CASE ReadUndated(p)
  <2>1. InPlace(p)'
    BY <1>10, <1>0, <1>1, ReadUndatedDoes
    DEF InPlace, Turns, InTransaction, OutOfTransaction, Read
  <2>2. OpenAt(p)'
    BY <1>10, <1>0, <1>1, ReadUndatedDoes DEF OpenAt, Turns, Fills, Moves, Read
  <2>3. ThereFor(p)'
    BY <1>10, <1>0, <1>1, ReadUndatedDoes DEF ThereFor, Turns, Migrates, Moves, Read
  <2> QED
    BY <2>1, <2>2, <2>3 DEF Place
<1>11. CASE LookForShadow(p)
  <2>1. InPlace(p)'
    BY <1>11, <1>0, <1>1, LookForShadowDoes
    DEF InPlace, Turns, InTransaction, OutOfTransaction, Read
  <2>2. OpenAt(p)'
    BY <1>11, <1>0, <1>1, LookForShadowDoes DEF OpenAt, Turns, Fills, Moves, Read
  <2>3. ThereFor(p)'
    BY <1>11, <1>0, <1>1, LookForShadowDoes DEF ThereFor, Turns, Migrates, Moves, Read
  <2> QED
    BY <2>1, <2>2, <2>3 DEF Place
<1>12. CASE LookAtFacts(p)
  <2>1. InPlace(p)'
    BY <1>12, <1>0, <1>1, LookAtFactsDoes
    DEF InPlace, Turns, InTransaction, OutOfTransaction, Read
  <2>2. OpenAt(p)'
    BY <1>12, <1>0, <1>1, LookAtFactsDoes DEF OpenAt, Turns, Fills, Moves, Read
  <2>3. ThereFor(p)'
    BY <1>12, <1>0, <1>1, LookAtFactsDoes DEF ThereFor, Turns, Migrates, Moves, Read
  <2> QED
    BY <2>1, <2>2, <2>3 DEF Place
<1>13. CASE LookAtMeta(p)
  <2>1. InPlace(p)'
    BY <1>13, <1>0, <1>1, LookAtMetaDoes
    DEF InPlace, Turns, InTransaction, OutOfTransaction, Read
  <2>2. OpenAt(p)'
    BY <1>13, <1>0, <1>1, LookAtMetaDoes DEF OpenAt, Turns, Fills, Moves, Read
  <2>3. ThereFor(p)'
    BY <1>13, <1>0, <1>1, LookAtMetaDoes DEF ThereFor, Turns, Migrates, Moves, Read
  <2> QED
    BY <2>1, <2>2, <2>3 DEF Place
<1>14. CASE Forget(p)
  <2>1. InPlace(p)'
    BY <1>14, <1>0, <1>1, ForgetDoes DEF InPlace, Turns, InTransaction, OutOfTransaction, Read
  <2>2. OpenAt(p)'
    BY <1>14, <1>0, <1>1, ForgetDoes DEF OpenAt, Turns, Fills, Moves, Read
  <2>3. ThereFor(p)'
    BY <1>14, <1>0, <1>1, ForgetDoes DEF ThereFor, Turns, Migrates, Moves, Read
  <2> QED
    BY <2>1, <2>2, <2>3 DEF Place
<1> QED
  BY <1>2, <1>3, <1>4, <1>5, <1>6, <1>7, <1>8, <1>9, <1>10, <1>11, <1>12, <1>13, <1>14
  DEF ReadStep

LEMMA OwnDdlPlaced ==
  ASSUME Transactions, Placed, NEW p \in Processes, DdlStep(p)
  PROVE  Place(p)'
<1>1. InPlace(p) /\ OpenAt(p) /\ ThereFor(p) /\ p # Nobody
  BY SchemaAssumption DEF Placed, Place
<1>0. backend' = backend /\ DOMAIN proc'[p] = Attributes /\ Writes(p)
  BY DdlSteps DEF Steps
<1>2. CASE EnsureMessages(p)
  <2>1. InPlace(p)'
    BY <1>2, <1>0, <1>1, EnsureMessagesDoes
    DEF InPlace, Turns, InTransaction, OutOfTransaction, Writes
  <2>2. OpenAt(p)'
    BY <1>2, <1>0, <1>1, EnsureMessagesDoes DEF OpenAt, Turns, Fills, Moves, Writes
  <2>3. ThereFor(p)'
    BY <1>2, <1>0, <1>1, EnsureMessagesDoes DEF ThereFor, Turns, Migrates, Moves, Writes, Alters
  <2> QED
    BY <2>1, <2>2, <2>3 DEF Place
<1>3. CASE DropIndex(p)
  <2>1. InPlace(p)'
    BY <1>3, <1>0, <1>1, DropIndexDoes
    DEF Opening, InPlace, Turns, InTransaction, OutOfTransaction, Writes
  <2>2. OpenAt(p)'
    BY <1>3, <1>0, <1>1, DropIndexDoes DEF Opening, OpenAt, Turns, Fills, Moves, Writes
  <2>3. ThereFor(p)'
    BY <1>3, <1>0, <1>1, DropIndexDoes
    DEF Opening, ThereFor, Turns, Migrates, Moves, Writes, Alters
  <2> QED
    BY <2>1, <2>2, <2>3 DEF Place
<1>4. CASE CreateIndex(p)
  <2>1. InPlace(p)'
    BY <1>4, <1>0, <1>1, CreateIndexDoes
    DEF Opening, InPlace, Turns, InTransaction, OutOfTransaction, Writes
  <2>2. OpenAt(p)'
    BY <1>4, <1>0, <1>1, CreateIndexDoes DEF Opening, OpenAt, Turns, Fills, Moves, Writes
  <2>3. ThereFor(p)'
    BY <1>4, <1>0, <1>1, CreateIndexDoes
    DEF Opening, ThereFor, Turns, Migrates, Moves, Writes, Alters
  <2> QED
    BY <2>1, <2>2, <2>3 DEF Place
<1>5. CASE EnsureLedger(p)
  <2>1. InPlace(p)'
    BY <1>5, <1>0, <1>1, EnsureLedgerDoes
    DEF InPlace, Turns, InTransaction, OutOfTransaction, Writes
  <2>2. OpenAt(p)'
    BY <1>5, <1>0, <1>1, EnsureLedgerDoes DEF OpenAt, Turns, Fills, Moves, Writes
  <2>3. ThereFor(p)'
    BY <1>5, <1>0, <1>1, EnsureLedgerDoes DEF ThereFor, Turns, Migrates, Moves, Writes, Alters
  <2> QED
    BY <2>1, <2>2, <2>3 DEF Place
<1>6. CASE RenameLedger(p)
  <2>1. InPlace(p)'
    BY <1>6, <1>0, <1>1, RenameLedgerDoes
    DEF Opening, InPlace, Turns, InTransaction, OutOfTransaction, Writes
  <2>2. OpenAt(p)'
    <3>1. proc'[p].open = proc[p].open \cup {x \in {"ledger"} : writer # p}
      <4>0. proc'[p].open = Opening(p, "ledger")
        BY <1>6, <1>0, RenameLedgerDoes DEF Turns
      <4>1. CASE writer # p
        BY <4>0, <4>1 DEF Opening
      <4>2. CASE ~(writer # p)
        BY <4>0, <4>2 DEF Opening
      <4> QED
        BY <4>1, <4>2
    <3>2. proc[p].pc = "rename_ledger" /\ proc'[p].pc = "create_ledger" /\ writer' = writer
      BY <1>6, RenameLedgerDoes DEF Turns
    <3> QED
      BY <1>0, <1>1, <3>1, <3>2, SchemaAssumption DEF OpenAt, Fills, Moves, Transactions
  <2>3. ThereFor(p)'
    BY <1>6, <1>0, <1>1, RenameLedgerDoes
    DEF Opening, ThereFor, Turns, Migrates, Moves, Writes, Alters
  <2> QED
    BY <2>1, <2>2, <2>3 DEF Place
<1>7. CASE CreateLedger(p)
  <2>1. InPlace(p)'
    BY <1>7, <1>0, <1>1, CreateLedgerDoes
    DEF InPlace, Turns, InTransaction, OutOfTransaction, Writes
  <2>2. OpenAt(p)'
    BY <1>7, <1>0, <1>1, CreateLedgerDoes DEF OpenAt, Turns, Fills, Moves, Writes
  <2>3. ThereFor(p)'
    BY <1>7, <1>0, <1>1, CreateLedgerDoes, ColumnNames
    DEF ThereFor, Turns, Migrates, Moves, Writes, Alters
  <2> QED
    BY <2>1, <2>2, <2>3 DEF Place
<1>8. CASE DropLedger(p)
  <2>1. InPlace(p)'
    BY <1>8, <1>0, <1>1, DropLedgerDoes
    DEF InPlace, Turns, InTransaction, OutOfTransaction, Writes
  <2>2. OpenAt(p)'
    BY <1>8, <1>0, <1>1, DropLedgerDoes DEF OpenAt, Turns, Fills, Moves, Writes
  <2>3. ThereFor(p)'
    BY <1>8, <1>0, <1>1, DropLedgerDoes DEF ThereFor, Turns, Migrates, Moves, Writes, Alters
  <2> QED
    BY <2>1, <2>2, <2>3 DEF Place
<1>9. CASE EnsureColumns(p)
  <2>1. InPlace(p)'
    BY <1>9, <1>0, <1>1, EnsureColumnsDoes
    DEF InPlace, Turns, InTransaction, OutOfTransaction, Writes
  <2>2. OpenAt(p)'
    BY <1>9, <1>0, <1>1, EnsureColumnsDoes DEF OpenAt, Turns, Fills, Moves, Writes
  <2>3. ThereFor(p)'
    BY <1>9, <1>0, <1>1, EnsureColumnsDoes DEF ThereFor, Turns, Migrates, Moves, Writes, Alters
  <2> QED
    BY <2>1, <2>2, <2>3 DEF Place
<1>10. CASE CreateShadow(p)
  <2>1. InPlace(p)'
    BY <1>10, <1>0, <1>1, CreateShadowDoes
    DEF Opening, InPlace, Turns, InTransaction, OutOfTransaction, Writes
  <2>2. OpenAt(p)'
    <3>1. proc'[p].open = proc[p].open \cup {x \in {"shadow"} : ~db.shadow /\ writer # p}
      <4>0. proc'[p].open = IF db.shadow THEN proc[p].open ELSE Opening(p, "shadow")
        BY <1>10, <1>0, CreateShadowDoes DEF Turns
      <4>1. CASE ~db.shadow /\ writer # p
        BY <4>0, <4>1 DEF Opening
      <4>2. CASE ~(~db.shadow /\ writer # p)
        BY <4>0, <4>2 DEF Opening
      <4> QED
        BY <4>1, <4>2
    <3>2. proc[p].pc = "create_shadow" /\ proc'[p].pc = "triggers" /\ writer' = writer
      BY <1>10, CreateShadowDoes DEF Turns
    <3> QED
      BY <1>0, <1>1, <3>1, <3>2, SchemaAssumption
      DEF OpenAt, InPlace, InTransaction, Fills, Moves, Transactions
  <2>3. ThereFor(p)'
    BY <1>10, <1>0, <1>1, CreateShadowDoes
    DEF Opening, ThereFor, Turns, Migrates, Moves, Writes, Alters
  <2> QED
    BY <2>1, <2>2, <2>3 DEF Place
<1>11. CASE CreateTriggers(p)
  <2>1. InPlace(p)'
    BY <1>11, <1>0, <1>1, CreateTriggersDoes
    DEF InPlace, Turns, InTransaction, OutOfTransaction, Writes
  <2>2. OpenAt(p)'
    BY <1>11, <1>0, <1>1, CreateTriggersDoes DEF OpenAt, Turns, Fills, Moves, Writes
  <2>3. ThereFor(p)'
    BY <1>11, <1>0, <1>1, CreateTriggersDoes
    DEF ThereFor, Turns, Migrates, Moves, Writes, Alters
  <2> QED
    BY <2>1, <2>2, <2>3 DEF Place
<1>12. CASE CreateUnique(p)
  <2>1. InPlace(p)'
    BY <1>12, <1>0, <1>1, CreateUniqueDoes
    DEF InPlace, Turns, InTransaction, OutOfTransaction, Writes
  <2>2. OpenAt(p)'
    BY <1>12, <1>0, <1>1, CreateUniqueDoes DEF OpenAt, Turns, Fills, Moves, Writes
  <2>3. ThereFor(p)'
    BY <1>12, <1>0, <1>1, CreateUniqueDoes DEF ThereFor, Turns, Migrates, Moves, Writes, Alters
  <2> QED
    BY <2>1, <2>2, <2>3 DEF Place
<1> QED
  BY <1>2, <1>3, <1>4, <1>5, <1>6, <1>7, <1>8, <1>9, <1>10, <1>11, <1>12 DEF DdlStep

LEMMA OwnDmlPlaced ==
  ASSUME Transactions, Placed, NEW p \in Processes, DmlStep(p)
  PROVE  Place(p)'
<1>1. InPlace(p) /\ OpenAt(p) /\ ThereFor(p) /\ p # Nobody
  BY SchemaAssumption DEF Placed, Place
<1>0. backend' = backend /\ DOMAIN proc'[p] = Attributes /\ Writes(p)
  BY DmlSteps DEF Steps
<1>2. CASE ClearIndex(p)
  <2>1. InPlace(p)'
    BY <1>2, <1>0, <1>1, ClearIndexDoes
    DEF InPlace, Turns, InTransaction, OutOfTransaction, Writes
  <2>2. OpenAt(p)'
    <3>1. proc'[p].open = proc[p].open \cup {x \in {"index"} : backend # "sqlite"}
      <4>1. CASE backend # "sqlite"
        BY <1>2, <4>1, ClearIndexDoes DEF Turns
      <4>2. CASE ~(backend # "sqlite")
        BY <1>2, <4>2, ClearIndexDoes DEF Turns
      <4> QED
        BY <4>1, <4>2
    <3>2. /\ proc[p].pc = "clear_index" /\ proc'[p].pc = "read_messages"
          /\ writer' = (IF backend = "sqlite" THEN p ELSE Nobody)
      BY <1>2, ClearIndexDoes DEF Turns
    <3> QED
      BY <1>0, <1>1, <3>1, <3>2, SchemaAssumption DEF OpenAt, Fills, Moves, Transactions
  <2>3. ThereFor(p)'
    BY <1>2, <1>0, <1>1, ClearIndexDoes, ColumnNames
    DEF ThereFor, Turns, Migrates, Moves, Writes, Alters
  <2> QED
    BY <2>1, <2>2, <2>3 DEF Place
<1>3. CASE FillIndex(p)
  <2>1. InPlace(p)'
    BY <1>3, <1>0, <1>1, FillIndexDoes
    DEF Closing, InPlace, Turns, InTransaction, OutOfTransaction, Writes
  <2>2. OpenAt(p)'
    BY <1>3, <1>0, <1>1, FillIndexDoes DEF Closing, OpenAt, Turns, Fills, Moves, Writes
  <2>3. ThereFor(p)'
    BY <1>3, <1>0, <1>1, FillIndexDoes
    DEF Closing, ThereFor, Turns, Migrates, Moves, Writes, Alters
  <2> QED
    BY <2>1, <2>2, <2>3 DEF Place
<1>4. CASE CopyLedger(p)
  <2>1. InPlace(p)'
    BY <1>4, <1>0, <1>1, CopyLedgerDoes
    DEF Closing, InPlace, Turns, InTransaction, OutOfTransaction, Writes
  <2>2. OpenAt(p)'
    BY <1>4, <1>0, <1>1, CopyLedgerDoes DEF Closing, OpenAt, Turns, Fills, Moves, Writes
  <2>3. ThereFor(p)'
    BY <1>4, <1>0, <1>1, CopyLedgerDoes, ColumnNames
    DEF ThereFor, Turns, Migrates, Moves, Writes, Alters
  <2> QED
    BY <2>1, <2>2, <2>3 DEF Place
<1>5. CASE FillLastSeen(p)
  <2>1. InPlace(p)'
    BY <1>5, <1>0, <1>1, FillLastSeenDoes
    DEF InPlace, Turns, InTransaction, OutOfTransaction, Writes
  <2>2. OpenAt(p)'
    BY <1>5, <1>0, <1>1, FillLastSeenDoes DEF OpenAt, Turns, Fills, Moves, Writes
  <2>3. ThereFor(p)'
    BY <1>5, <1>0, <1>1, FillLastSeenDoes DEF ThereFor, Turns, Migrates, Moves, Writes, Alters
  <2> QED
    BY <2>1, <2>2, <2>3 DEF Place
<1>6. CASE Backfill(p)
  <2>1. InPlace(p)'
    BY <1>6, <1>0, <1>1, BackfillDoes
    DEF InPlace, Turns, InTransaction, OutOfTransaction, Writes
  <2>2. OpenAt(p)'
    BY <1>6, <1>0, <1>1, BackfillDoes DEF OpenAt, Turns, Fills, Moves, Writes
  <2>3. ThereFor(p)'
    BY <1>6, <1>0, <1>1, BackfillDoes DEF ThereFor, Turns, Migrates, Moves, Writes, Alters
  <2> QED
    BY <2>1, <2>2, <2>3 DEF Place
<1>7. CASE RebuildShadow(p)
  <2>1. InPlace(p)'
    BY <1>7, <1>0, <1>1, RebuildShadowDoes
    DEF Closing, InPlace, Turns, InTransaction, OutOfTransaction, Writes
  <2>2. OpenAt(p)'
    BY <1>7, <1>0, <1>1, RebuildShadowDoes DEF Closing, OpenAt, Turns, Fills, Moves, Writes
  <2>3. ThereFor(p)'
    BY <1>7, <1>0, <1>1, RebuildShadowDoes
    DEF Closing, ThereFor, Turns, Migrates, Moves, Writes, Alters
  <2> QED
    BY <2>1, <2>2, <2>3 DEF Place
<1>8. CASE Recount(p)
  <2>1. InPlace(p)'
    BY <1>8, <1>0, <1>1, RecountDoes DEF InPlace, Turns, InTransaction, OutOfTransaction, Writes
  <2>2. OpenAt(p)'
    BY <1>8, <1>0, <1>1, RecountDoes DEF OpenAt, Turns, Fills, Moves, Writes
  <2>3. ThereFor(p)'
    BY <1>8, <1>0, <1>1, RecountDoes DEF ThereFor, Turns, Migrates, Moves, Writes, Alters
  <2> QED
    BY <2>1, <2>2, <2>3 DEF Place
<1>9. CASE EnsureRest(p)
  <2>1. InPlace(p)'
    BY <1>9, <1>0, <1>1, EnsureRestDoes
    DEF InPlace, Turns, InTransaction, OutOfTransaction, Writes
  <2>2. OpenAt(p)'
    BY <1>9, <1>0, <1>1, EnsureRestDoes DEF OpenAt, Turns, Fills, Moves, Writes
  <2>3. ThereFor(p)'
    BY <1>9, <1>0, <1>1, EnsureRestDoes DEF ThereFor, Turns, Migrates, Moves, Writes, Alters
  <2> QED
    BY <2>1, <2>2, <2>3 DEF Place
<1>10. CASE InsertMeta(p)
  <2>1. InPlace(p)'
    BY <1>10, <1>0, <1>1, InsertMetaDoes
    DEF InPlace, Turns, InTransaction, OutOfTransaction, Writes
  <2>2. OpenAt(p)'
    BY <1>10, <1>0, <1>1, InsertMetaDoes DEF OpenAt, Turns, Fills, Moves, Writes
  <2>3. ThereFor(p)'
    BY <1>10, <1>0, <1>1, InsertMetaDoes DEF ThereFor, Turns, Migrates, Moves, Writes, Alters
  <2> QED
    BY <2>1, <2>2, <2>3 DEF Place
<1>11. CASE InsertMessage(p)
  <2>1. InPlace(p)'
    BY <1>11, <1>0, <1>1, InsertMessageDoes
    DEF InPlace, Turns, InTransaction, OutOfTransaction, Writes
  <2>2. OpenAt(p)'
    <3>1. proc'[p].open = proc[p].open \cup {x \in {"index"} : backend # "sqlite"}
      <4>1. CASE backend # "sqlite"
        BY <1>11, <4>1, InsertMessageDoes DEF Turns
      <4>2. CASE ~(backend # "sqlite")
        BY <1>11, <4>2, InsertMessageDoes DEF Turns
      <4> QED
        BY <4>1, <4>2
    <3>2. /\ proc[p].pc = "row" /\ proc'[p].pc = "entry"
          /\ writer' = (IF backend = "sqlite" THEN p ELSE Nobody)
      BY <1>11, InsertMessageDoes DEF Turns
    <3> QED
      BY <1>0, <1>1, <3>1, <3>2, SchemaAssumption DEF OpenAt, Fills, Moves, Transactions
  <2>3. ThereFor(p)'
    BY <1>11, <1>0, <1>1, InsertMessageDoes DEF ThereFor, Turns, Migrates, Moves, Writes, Alters
  <2> QED
    BY <2>1, <2>2, <2>3 DEF Place
<1>12. CASE InsertEntry(p)
  <2>1. InPlace(p)'
    BY <1>12, <1>0, <1>1, InsertEntryDoes
    DEF InPlace, Turns, InTransaction, OutOfTransaction, Writes
  <2>2. OpenAt(p)'
    BY <1>12, <1>0, <1>1, InsertEntryDoes DEF OpenAt, Turns, Fills, Moves, Writes
  <2>3. ThereFor(p)'
    BY <1>12, <1>0, <1>1, InsertEntryDoes DEF ThereFor, Turns, Migrates, Moves, Writes, Alters
  <2> QED
    BY <2>1, <2>2, <2>3 DEF Place
<1>13. CASE \E r \in Surfaced : LogEvent(p, r) \/ CountEvent(p, r)
  <2>1. InPlace(p)'
    <3>1. PICK r \in Surfaced : LogEvent(p, r) \/ CountEvent(p, r)
      BY <1>13
    <3>2. CASE LogEvent(p, r)
      BY <3>2, <1>0, <1>1, LogEventDoes
      DEF InPlace, Turns, InTransaction, OutOfTransaction, Writes
    <3>3. CASE CountEvent(p, r)
      BY <3>3, <1>0, <1>1, CountEventDoes
      DEF InPlace, Turns, InTransaction, OutOfTransaction, Writes
    <3> QED
      BY <3>1, <3>2, <3>3
  <2>2. OpenAt(p)'
    <3>1. ASSUME NEW r \in Surfaced, LogEvent(p, r)
          PROVE  OpenAt(p)'
      <4>1. proc'[p].open = proc[p].open \cup {x \in {r} : backend # "sqlite"}
        <5>0. proc'[p].open = IF backend = "sqlite" THEN proc[p].open ELSE proc[p].open \cup {r}
          BY <3>1, LogEventDoes DEF Turns
        <5>1. CASE backend # "sqlite"
          <6>1. {x \in {r} : backend # "sqlite"} = {r}
            BY <5>1
          <6> QED
            BY <5>0, <5>1, <6>1
        <5>2. CASE backend = "sqlite"
          BY <5>0, <5>2
        <5> QED
          BY <5>1, <5>2
      <4>2. /\ proc[p].pc = "event" /\ proc'[p].pc = "count"
            /\ writer' = (IF backend = "sqlite" THEN p ELSE Nobody)
            /\ r \in proc[p].seen /\ proc'[p].seen = proc[p].seen
        BY <3>1, LogEventDoes DEF Turns
      <4>3. \A x \in Surfaced : x \in proc[p].seen => x = r
        BY <1>1, <4>2 DEF OpenAt, Surfaced
      <4>4. /\ proc'[p].pc = "count" /\ writer' # p => \A x \in Surfaced : x \in proc'[p].seen => x \in proc'[p].open
            /\ \A x \in Surfaced : x \in proc'[p].open => x \in proc[p].open \/ backend = "libsql"
        BY <4>1, <4>2, <4>3 DEF Transactions
      <4>5. "index" \in proc[p].open => "index" \in proc'[p].open
        BY <4>1
      <4> QED
        BY <1>0, <1>1, <4>2, <4>4, <4>5, SchemaAssumption DEF OpenAt, Fills, Moves, Transactions, Surfaced
    <3>2. ASSUME NEW r \in Surfaced, CountEvent(p, r)
          PROVE  OpenAt(p)'
      <4>1. /\ proc[p].pc = "count" /\ proc'[p].pc = "commit"
            /\ proc'[p].open \subseteq proc[p].open
        BY <3>2, CountEventDoes DEF Turns, Closing
      <4> QED
        BY <1>0, <1>1, <4>1 DEF OpenAt, Fills, Moves
    <3> QED
      BY <1>13, <3>1, <3>2
  <2>3. ThereFor(p)'
    BY <1>13, <1>0, <1>1, LogEventDoes, CountEventDoes
    DEF Closing, ThereFor, Turns, Migrates, Moves, Writes, Alters
  <2> QED
    BY <2>1, <2>2, <2>3 DEF Place
<1> QED
  BY <1>2, <1>3, <1>4, <1>5, <1>6, <1>7, <1>8, <1>9, <1>10, <1>11, <1>12, <1>13 DEF DmlStep

LEMMA OwnWholePlaced ==
  ASSUME Transactions, Placed, NEW p \in Processes, WholeStep(p)
  PROVE  Place(p)'
<1>1. InPlace(p) /\ OpenAt(p) /\ ThereFor(p) /\ p # Nobody
  BY SchemaAssumption DEF Placed, Place
<1>0. backend' = backend /\ DOMAIN proc'[p] = Attributes /\ Writes(p)
  BY WholeSteps DEF Steps
<1>2. CASE ReadMessages(p)
  <2>1. InPlace(p)'
    BY <1>2, <1>0, <1>1, ReadMessagesDoes
    DEF InPlace, Turns, InTransaction, OutOfTransaction, Writes, Serving
  <2>2. OpenAt(p)'
    BY <1>2, <1>0, <1>1, ReadMessagesDoes DEF OpenAt, Turns, Fills, Moves, Writes, Serving
  <2>3. ThereFor(p)'
    BY <1>2, <1>0, <1>1, ReadMessagesDoes, ColumnNames
    DEF ThereFor, Turns, Migrates, Moves, Writes, Alters, Serving
  <2> QED
    BY <2>1, <2>2, <2>3 DEF Place
<1>3. CASE Commit(p)
  <2>1. InPlace(p)'
    BY <1>3, <1>0, <1>1, CommitDoes
    DEF InPlace, Turns, InTransaction, OutOfTransaction, Writes, Serving
  <2>2. OpenAt(p)'
    BY <1>3, <1>0, <1>1, CommitDoes DEF OpenAt, Turns, Fills, Moves, Writes, Serving
  <2>3. ThereFor(p)'
    BY <1>3, <1>0, <1>1, CommitDoes
    DEF ThereFor, Turns, Migrates, Moves, Writes, Alters, Serving
  <2> QED
    BY <2>1, <2>2, <2>3 DEF Place
<1>4. CASE Import(p)
  <2>1. InPlace(p)'
    BY <1>4, <1>0, <1>1, ImportDoes
    DEF InPlace, Turns, InTransaction, OutOfTransaction, Writes, Serving
  <2>2. OpenAt(p)'
    BY <1>4, <1>0, <1>1, ImportDoes DEF OpenAt, Turns, Fills, Moves, Writes, Serving
  <2>3. ThereFor(p)'
    BY <1>4, <1>0, <1>1, ImportDoes
    DEF ThereFor, Turns, Migrates, Moves, Writes, Alters, Serving
  <2> QED
    BY <2>1, <2>2, <2>3 DEF Place
<1>5. CASE IngestSource(p)
  <2>1. InPlace(p)'
    BY <1>5, <1>0, <1>1, IngestSourceDoes
    DEF InPlace, Turns, InTransaction, OutOfTransaction, Writes, Serving
  <2>2. OpenAt(p)'
    BY <1>5, <1>0, <1>1, IngestSourceDoes DEF OpenAt, Turns, Fills, Moves, Writes, Serving
  <2>3. ThereFor(p)'
    BY <1>5, <1>0, <1>1, IngestSourceDoes
    DEF ThereFor, Turns, Migrates, Moves, Writes, Alters, Serving
  <2> QED
    BY <2>1, <2>2, <2>3 DEF Place
<1>6. CASE Promote(p)
  <2>1. InPlace(p)'
    BY <1>6, <1>0, <1>1, PromoteDoes
    DEF InPlace, Turns, InTransaction, OutOfTransaction, Writes, Serving
  <2>2. OpenAt(p)'
    BY <1>6, <1>0, <1>1, PromoteDoes DEF OpenAt, Turns, Fills, Moves, Writes, Serving
  <2>3. ThereFor(p)'
    BY <1>6, <1>0, <1>1, PromoteDoes
    DEF ThereFor, Turns, Migrates, Moves, Writes, Alters, Serving
  <2> QED
    BY <2>1, <2>2, <2>3 DEF Place
<1>7. CASE \E m \in Ids : Insert(p, m) \/ \E c \in db.cands : Merge(p, c, m)
  <2>1. InPlace(p)'
    BY <1>7, <1>0, <1>1, InsertDoes, MergeDoes
    DEF InPlace, Turns, InTransaction, OutOfTransaction, Writes, Serving
  <2>2. OpenAt(p)'
    BY <1>7, <1>0, <1>1, InsertDoes, MergeDoes DEF OpenAt, Turns, Fills, Moves, Writes, Serving
  <2>3. ThereFor(p)'
    BY <1>7, <1>0, <1>1, InsertDoes, MergeDoes
    DEF ThereFor, Turns, Migrates, Moves, Writes, Alters, Serving
  <2> QED
    BY <2>1, <2>2, <2>3 DEF Place
<1> QED
  BY <1>2, <1>3, <1>4, <1>5, <1>6, <1>7 DEF WholeStep

LEMMA OwnPlaced ==
  ASSUME Transactions, Placed, NEW p \in Processes, ReadStep(p) \/ WriteStep(p)
  PROVE  Place(p)'
BY OwnReadPlaced, OwnDdlPlaced, OwnDmlPlaced, OwnWholePlaced DEF WriteStep

\* Who migrates the ledger found none that was renamed.
LEMMA BeginsToMigrate ==
  ASSUME Transactions, Placed, NEW p \in Processes, ReadStep(p) \/ WriteStep(p),
         Migrates(proc'[p])
  PROVE  Migrates(proc[p]) \/ ~db.renamed
<1> USE DEF Migrates, Moves, Turns, Enters
<1>1. CASE ReadStep(p)
  BY <1>1, StartsDo, ForgetDoes, LookAtIndexDoes, LookAtLedgerDoes, ReadUndatedDoes,
     LookForShadowDoes, LookAtFactsDoes, LookAtMetaDoes DEF ReadStep
<1>2. CASE RenameLedger(p) \/ CreateLedger(p) \/ CopyLedger(p) \/ DropLedger(p)
  BY <1>2, RenameLedgerDoes, CreateLedgerDoes, CopyLedgerDoes, DropLedgerDoes
<1>3. CASE EnsureMessages(p) \/ DropIndex(p) \/ CreateIndex(p) \/ EnsureLedger(p)
  BY <1>3, EnsureMessagesDoes, DropIndexDoes, CreateIndexDoes, EnsureLedgerDoes
<1>4. CASE EnsureColumns(p) \/ CreateShadow(p) \/ CreateTriggers(p) \/ CreateUnique(p)
  BY <1>4, EnsureColumnsDoes, CreateShadowDoes, CreateTriggersDoes, CreateUniqueDoes
<1>5. CASE ClearIndex(p) \/ FillIndex(p) \/ FillLastSeen(p) \/ Backfill(p)
  BY <1>5, ClearIndexDoes, FillIndexDoes, FillLastSeenDoes, BackfillDoes
<1>6. CASE RebuildShadow(p) \/ Recount(p) \/ EnsureRest(p) \/ InsertMeta(p)
  BY <1>6, RebuildShadowDoes, RecountDoes, EnsureRestDoes, InsertMetaDoes
<1>7. CASE \/ InsertMessage(p) \/ InsertEntry(p)
           \/ \E r \in Surfaced : LogEvent(p, r) \/ CountEvent(p, r)
  BY <1>7, InsertMessageDoes, InsertEntryDoes, LogEventDoes, CountEventDoes
<1>8. CASE WholeStep(p)
  BY <1>8, ReadMessagesDoes, CommitDoes, ImportDoes, IngestSourceDoes, PromoteDoes, InsertDoes,
     MergeDoes DEF WholeStep, Serving
<1> QED
  BY <1>1, <1>2, <1>3, <1>4, <1>5, <1>6, <1>7, <1>8 DEF WriteStep, DdlStep, DmlStep

LEMMA PlacedStep ==
  ASSUME Transactions, Placed, SchemaNext
  PROVE  Placed'
<1>1. ASSUME NEW p \in Processes, ReadStep(p) \/ WriteStep(p)
      PROVE  Placed'
  <2>1. Steps(p)
    BY <1>1, ReadSteps, WriteSteps
  <2>2. ASSUME NEW a \in Processes, NEW b \in Processes, Migrates(proc'[a]), Migrates(proc'[b])
        PROVE  a = b
    BY <1>1, <2>1, <2>2, BeginsToMigrate DEF Steps, Placed, Place, InPlace, OpenAt, ThereFor
  <2>3. \A q \in Processes : Place(q)'
    BY <1>1, OwnPlaced, OthersPlaced
  <2> QED
    BY <2>2, <2>3 DEF Placed, Migrates, Moves
<1>2. ASSUME NEW p \in Processes, Break(p)
      PROVE  Placed'
  <2>1. \A q \in Processes : Place(q)'
    BY <1>2, BreakPlaced
  <2>2. ASSUME NEW q \in Processes, Migrates(proc'[q])
        PROVE  Migrates(proc[q])
    BY <1>2, <2>2, BreakStep DEF Migrates, Moves
  <2> QED
    BY <2>1, <2>2 DEF Placed, Migrates, Moves
<1>3. CASE RetireTwins
  <2>1. /\ db'.renamed = db.renamed /\ db'.ledger = db.ledger /\ db'.index = db.index
        /\ disk' = db' /\ db = disk /\ writer = Nobody /\ writer' = Nobody
        /\ UNCHANGED <<proc, backend>>
    BY <1>3, RetireDoes, ColumnNames DEF Alters, Transactions
  <2> QED
    BY <2>1 DEF Placed, Place, InPlace, OpenAt, ThereFor, Migrates, Moves, Fills
<1> QED
  BY <1>1, <1>2, <1>3, StepKinds

-------------------------------------------------------------------------------
(* What is never undone *)

LEMMA OnwardTransitive ==
  ASSUME NEW c, NEW d, NEW e, Onward(c, d), Onward(d, e)
  PROVE  Onward(c, e)
BY DEF Onward

LEMMA StatementsGoOn ==
  ASSUME Transactions, Placed, NEW p \in Processes, WriteStep(p)
  PROVE  Onward(db, db') /\ (db'.unique => db.unique \/ ~db'.twins)
<1> USE DEF Onward, Alters
<1>1. CASE EnsureMessages(p)
  BY <1>1, EnsureMessagesDoes, ColumnNames
<1>2. CASE DropIndex(p)
  BY <1>2, DropIndexDoes, ColumnNames
<1>3. CASE CreateIndex(p)
  BY <1>3, CreateIndexDoes, ColumnNames
<1>4. CASE EnsureLedger(p)
  BY <1>4, EnsureLedgerDoes, ColumnNames
<1>5. CASE RenameLedger(p)
  BY <1>5, RenameLedgerDoes, ColumnNames
<1>6. CASE CreateLedger(p)
  BY <1>6, CreateLedgerDoes, ColumnNames
<1>7. CASE DropLedger(p)
  <2>1. db.ledger # "none"
    BY <1>7, DropLedgerDoes DEF Placed, Place, ThereFor
  <2> QED
    BY <1>7, <2>1, DropLedgerDoes, ColumnNames
<1>8. CASE EnsureColumns(p)
  BY <1>8, EnsureColumnsDoes, ColumnNames
<1>9. CASE CreateShadow(p)
  BY <1>9, CreateShadowDoes, ColumnNames
<1>10. CASE CreateTriggers(p)
  BY <1>10, CreateTriggersDoes, ColumnNames
<1>11. CASE CreateUnique(p)
  BY <1>11, CreateUniqueDoes, ColumnNames
<1>12. CASE ClearIndex(p)
  BY <1>12, ClearIndexDoes, ColumnNames
<1>13. CASE FillIndex(p)
  BY <1>13, FillIndexDoes, ColumnNames
<1>14. CASE CopyLedger(p)
  BY <1>14, CopyLedgerDoes, ColumnNames
<1>15. CASE FillLastSeen(p)
  BY <1>15, FillLastSeenDoes, ColumnNames
<1>16. CASE Backfill(p)
  BY <1>16, BackfillDoes, ColumnNames
<1>17. CASE RebuildShadow(p)
  BY <1>17, RebuildShadowDoes, ColumnNames
<1>18. CASE Recount(p)
  BY <1>18, RecountDoes, ColumnNames
<1>19. CASE EnsureRest(p)
  BY <1>19, EnsureRestDoes, ColumnNames
<1>20. CASE InsertMeta(p)
  BY <1>20, InsertMetaDoes, ColumnNames
<1>21. CASE InsertMessage(p)
  BY <1>21, InsertMessageDoes, ColumnNames
<1>22. CASE InsertEntry(p)
  BY <1>22, InsertEntryDoes, ColumnNames
<1>23. CASE ReadMessages(p)
  BY <1>23, ReadMessagesDoes, ColumnNames
<1>24. CASE Import(p)
  BY <1>24, ImportDoes, ColumnNames
<1>25. CASE IngestSource(p)
  BY <1>25, IngestSourceDoes, ColumnNames
<1>26. CASE Promote(p)
  BY <1>26, PromoteDoes, ColumnNames
<1>27. CASE \E r \in Surfaced : LogEvent(p, r) \/ CountEvent(p, r)
  BY <1>27, LogEventDoes, CountEventDoes, ColumnNames
<1>28. CASE \E m \in Ids : Insert(p, m) \/ \E c \in db.cands : Merge(p, c, m)
  BY <1>28, InsertDoes, MergeDoes, ColumnNames
<1>29. CASE Commit(p)
  BY <1>29, CommitDoes
<1> QED
  BY <1>1, <1>2, <1>3, <1>4, <1>5, <1>6, <1>7, <1>8, <1>9, <1>10, <1>11, <1>12, <1>13, <1>14,
     <1>15, <1>16, <1>17, <1>18, <1>19, <1>20, <1>21, <1>22, <1>23, <1>24, <1>25, <1>26, <1>27,
     <1>28, <1>29
  DEF WriteStep, DdlStep, DmlStep, WholeStep

LEMMA WriterSees ==
  ASSUME Transactions, NEW p \in Processes, Writes(p)
  PROVE  Sees(p) = db /\ Sees(p)' = db' /\ disk' \in {disk, db'}
BY SchemaAssumption DEF Transactions, Writes, Sees

\* A step takes nobody's view of the database back.
LEMMA ViewsGoOn ==
  ASSUME Transactions, Placed, Onward(disk, db), NEW p \in Processes,
         ReadStep(p) \/ WriteStep(p)
  PROVE  /\ Onward(disk, disk') /\ Onward(disk', db')
         /\ \A q \in Processes : Onward(Sees(q), Sees(q)')
<1>1. CASE ReadStep(p)
  <2>1. Read
    BY <1>1, ReadSteps
  <2> QED
    BY <2>1 DEF Read, Sees, Onward
<1>2. CASE WriteStep(p)
  <2>1. Writes(p) /\ Onward(db, db')
    BY <1>2, WriteSteps, StatementsGoOn
  <2>2. Onward(disk, db')
    BY <2>1, OnwardTransitive
  <2>3. Onward(disk, disk') /\ Onward(disk', db')
    BY <2>1, <2>2, WriterSees DEF Onward
  <2>4. ASSUME NEW q \in Processes \ {p}
        PROVE  Sees(q) = disk /\ Sees(q)' = disk'
    BY <2>1, SchemaAssumption DEF Writes, Sees
  <2> QED
    BY <2>1, <2>3, <2>4, WriterSees
<1> QED
  BY <1>1, <1>2

LEMMA ReachedGoesOn ==
  ASSUME NEW s, NEW d, NEW e, Reached(s, d), Onward(d, e)
  PROVE  Reached(s, e)
BY DEF Reached, Onward

LEMMA InitialisedGoesOn ==
  ASSUME NEW d, NEW e, Initialised(d), Onward(d, e)
  PROVE  Initialised(e)
BY DEF Initialised, Onward

LEMMA InitEndsInitialised ==
  ASSUME NEW s, NEW d, s.pc = "commit", Reached(s, d)
  PROVE  Initialised(d)
BY DEF Reached, Initialised, PastLook, PastCreate, PastEnsure, PastLedger, PastColumns,
       PastShadow, PastTriggers, PastUnique

LEMMA OwnReached ==
  ASSUME Transactions, Placed, Sure, NEW p \in Processes, ReadStep(p) \/ WriteStep(p),
         proc'[p].job = "init"
  PROVE  Reached(proc'[p], Sees(p)')
<1>1. Onward(Sees(p), Sees(p)')
  BY ViewsGoOn DEF Sure
<1>2. proc[p].job = "init" => Reached(proc[p], Sees(p)')
  BY <1>1, ReachedGoesOn DEF Sure
<1>3. WriteStep(p) => Sees(p)' = db'
  BY WriteSteps, WriterSees
<1> USE DEF Reached, PastLook, PastCreate, PastEnsure, PastLedger, PastColumns,
            PastShadow, PastTriggers, PastUnique
<1>4. CASE LookAtIndex(p)
  BY <1>1, <1>2, <1>4, LookAtIndexDoes DEF Turns, Read, Sees, Onward
<1>5. CASE LookAtLedger(p)
  BY <1>1, <1>2, <1>5, LookAtLedgerDoes DEF Turns, Read, Sees, Onward
<1>6. CASE ReadUndated(p)
  BY <1>1, <1>2, <1>6, ReadUndatedDoes DEF Turns, Read, Sees, Onward
<1>7. CASE LookForShadow(p)
  BY <1>1, <1>2, <1>7, LookForShadowDoes DEF Turns, Read, Sees, Onward
<1>8. CASE LookAtFacts(p)
  BY <1>1, <1>2, <1>8, LookAtFactsDoes DEF Turns, Read, Sees, Onward
<1>9. CASE LookAtMeta(p)
  BY <1>1, <1>2, <1>9, LookAtMetaDoes DEF Turns, Read, Sees, Onward
<1>10. CASE EnsureMessages(p)
  BY <1>2, <1>3, <1>10, EnsureMessagesDoes DEF Turns, WriteStep, DdlStep
<1>11. CASE DropIndex(p)
  BY <1>2, <1>3, <1>11, DropIndexDoes DEF Turns, WriteStep, DdlStep
<1>12. CASE CreateIndex(p)
  BY <1>2, <1>3, <1>12, CreateIndexDoes DEF Turns, WriteStep, DdlStep
<1>13. CASE ClearIndex(p)
  BY <1>2, <1>3, <1>13, ClearIndexDoes DEF Turns, WriteStep, DmlStep
<1>14. CASE ReadMessages(p)
  BY <1>2, <1>3, <1>14, ReadMessagesDoes DEF Turns, WriteStep, WholeStep
<1>15. CASE FillIndex(p)
  BY <1>2, <1>3, <1>15, FillIndexDoes DEF Turns, WriteStep, DmlStep
<1>16. CASE EnsureLedger(p)
  BY <1>2, <1>3, <1>16, EnsureLedgerDoes DEF Turns, WriteStep, DdlStep
<1>17. CASE RenameLedger(p)
  BY <1>2, <1>3, <1>17, RenameLedgerDoes DEF Turns, WriteStep, DdlStep
<1>18. CASE CreateLedger(p)
  BY <1>2, <1>3, <1>18, CreateLedgerDoes DEF Turns, WriteStep, DdlStep
<1>19. CASE CopyLedger(p)
  BY <1>2, <1>3, <1>19, CopyLedgerDoes DEF Turns, WriteStep, DmlStep
<1>20. CASE DropLedger(p)
  BY <1>2, <1>3, <1>20, DropLedgerDoes DEF Turns, WriteStep, DdlStep
<1>21. CASE EnsureColumns(p)
  BY <1>2, <1>3, <1>21, EnsureColumnsDoes DEF Turns, WriteStep, DdlStep
<1>22. CASE FillLastSeen(p)
  BY <1>2, <1>3, <1>22, FillLastSeenDoes DEF Turns, WriteStep, DmlStep
<1>23. CASE Backfill(p)
  BY <1>2, <1>3, <1>23, BackfillDoes DEF Turns, WriteStep, DmlStep
<1>24. CASE CreateShadow(p)
  BY <1>2, <1>3, <1>24, CreateShadowDoes DEF Turns, WriteStep, DdlStep
<1>25. CASE CreateTriggers(p)
  BY <1>2, <1>3, <1>25, CreateTriggersDoes DEF Turns, WriteStep, DdlStep
<1>26. CASE RebuildShadow(p)
  BY <1>2, <1>3, <1>26, RebuildShadowDoes DEF Turns, WriteStep, DmlStep
<1>27. CASE CreateUnique(p)
  BY <1>2, <1>3, <1>27, CreateUniqueDoes DEF Turns, WriteStep, DdlStep
<1>28. CASE EnsureRest(p)
  BY <1>2, <1>3, <1>28, EnsureRestDoes DEF Turns, WriteStep, DmlStep
<1>29. CASE InsertMeta(p)
  BY <1>2, <1>3, <1>29, InsertMetaDoes DEF Turns, WriteStep, DmlStep
<1>30. CASE InsertMessage(p)
  BY <1>2, <1>3, <1>30, InsertMessageDoes DEF Turns, WriteStep, DmlStep
<1>31. CASE InsertEntry(p)
  BY <1>2, <1>3, <1>31, InsertEntryDoes DEF Turns, WriteStep, DmlStep
<1>32. CASE Recount(p)
  BY <1>2, <1>3, <1>32, RecountDoes DEF Turns, WriteStep, DmlStep
<1>33. CASE Import(p)
  BY <1>2, <1>3, <1>33, ImportDoes DEF Turns, WriteStep, WholeStep
<1>34. CASE StartInit(p) \/ StartVectors(p) \/ StartAppend(p)
  BY <1>34, StartsDo DEF Enters
<1>35. CASE StartRepair(p) \/ StartImport(p) \/ \E r \in Surfaced : Retrieve(p, r)
  BY <1>35, StartsDo DEF Enters
<1>36. CASE \E r \in Surfaced : LogEvent(p, r) \/ CountEvent(p, r)
  BY <1>36, LogEventDoes, CountEventDoes DEF Turns
<1>37. CASE Commit(p) \/ Forget(p)
  BY <1>37, CommitDoes, ForgetDoes
<1>38. CASE \/ IngestSource(p) \/ Promote(p)
           \/ \E m \in Ids : Insert(p, m) \/ \E c \in db.cands : Merge(p, c, m)
  BY <1>38, IngestSourceDoes, PromoteDoes, InsertDoes, MergeDoes DEF Serving
<1> QED
  BY <1>4, <1>5, <1>6, <1>7, <1>8, <1>9, <1>10, <1>11, <1>12, <1>13, <1>14, <1>15, <1>16, <1>17,
     <1>18, <1>19, <1>20, <1>21, <1>22, <1>23, <1>24, <1>25, <1>26, <1>27, <1>28, <1>29, <1>30,
     <1>31, <1>32, <1>33, <1>34, <1>35, <1>36, <1>37, <1>38
  DEF ReadStep, WriteStep, DdlStep, DmlStep, WholeStep

\* But by a commit, nobody comes to remember anything.
LEMMA MemoKept ==
  ASSUME Transactions, Placed, NEW p \in Processes, ReadStep(p) \/ WriteStep(p), ~Commit(p)
  PROVE  proc'[p].memo \in {proc[p].memo, {}}
<1> USE DEF Turns, Enters
<1>1. CASE ReadStep(p)
  BY <1>1, StartsDo, ForgetDoes, LookAtIndexDoes, LookAtLedgerDoes, ReadUndatedDoes,
     LookForShadowDoes, LookAtFactsDoes, LookAtMetaDoes DEF ReadStep
<1>2. CASE RenameLedger(p) \/ CreateLedger(p) \/ CopyLedger(p) \/ DropLedger(p)
  BY <1>2, RenameLedgerDoes, CreateLedgerDoes, CopyLedgerDoes, DropLedgerDoes
<1>3. CASE EnsureMessages(p) \/ DropIndex(p) \/ CreateIndex(p) \/ EnsureLedger(p)
  BY <1>3, EnsureMessagesDoes, DropIndexDoes, CreateIndexDoes, EnsureLedgerDoes
<1>4. CASE EnsureColumns(p) \/ CreateShadow(p) \/ CreateTriggers(p) \/ CreateUnique(p)
  BY <1>4, EnsureColumnsDoes, CreateShadowDoes, CreateTriggersDoes, CreateUniqueDoes
<1>5. CASE ClearIndex(p) \/ FillIndex(p) \/ FillLastSeen(p) \/ Backfill(p)
  BY <1>5, ClearIndexDoes, FillIndexDoes, FillLastSeenDoes, BackfillDoes
<1>6. CASE RebuildShadow(p) \/ Recount(p) \/ EnsureRest(p) \/ InsertMeta(p)
  BY <1>6, RebuildShadowDoes, RecountDoes, EnsureRestDoes, InsertMetaDoes
<1>7. CASE \/ InsertMessage(p) \/ InsertEntry(p)
           \/ \E r \in Surfaced : LogEvent(p, r) \/ CountEvent(p, r)
  BY <1>7, InsertMessageDoes, InsertEntryDoes, LogEventDoes, CountEventDoes
<1>8. CASE WholeStep(p)
  BY <1>8, ReadMessagesDoes, ImportDoes, IngestSourceDoes, PromoteDoes, InsertDoes, MergeDoes
  DEF WholeStep, Serving
<1> QED
  BY <1>1, <1>2, <1>3, <1>4, <1>5, <1>6, <1>7, <1>8 DEF WriteStep, DdlStep, DmlStep

LEMMA OwnRemembers ==
  ASSUME Transactions, Placed, Sure, NEW p \in Processes, ReadStep(p) \/ WriteStep(p)
  PROVE  Remembers(p)'
<1>1. Onward(disk, disk') /\ Onward(Sees(p), Sees(p)')
  BY ViewsGoOn DEF Sure
<1>2. CASE ~Commit(p)
  BY <1>1, <1>2, MemoKept, InitialisedGoesOn DEF Sure, Remembers, Onward
<1>3. CASE Commit(p)
  <2>1. disk' = db /\ Sees(p) = db
    BY <1>3, CommitDoes DEF MayWrite, Sees, Transactions
  <2>2. Initialised(disk')
    <3>1. CASE proc[p].job = "init"
      BY <1>3, <2>1, <3>1, CommitDoes, InitEndsInitialised DEF Sure
    <3>2. CASE proc[p].job # "init"
      BY <1>1, <1>3, <3>2, CommitDoes, InitialisedGoesOn
      DEF Sure, Remembers, Placed, Place, InPlace
    <3> QED
      BY <3>1, <3>2
  <2>3. "vec" \in proc'[p].memo => disk'.meta
    BY <1>1, <1>3, <2>1, CommitDoes DEF Sure, Remembers, Looked, Onward
  <2> QED
    BY <2>2, <2>3 DEF Remembers
<1> QED
  BY <1>2, <1>3

LEMMA OwnLooked ==
  ASSUME Transactions, Placed, Sure, NEW p \in Processes, ReadStep(p) \/ WriteStep(p)
  PROVE  Looked(p)'
<1>1. /\ Looked(p) /\ backend' = backend
      /\ Sees(p).meta => Sees(p)'.meta
      /\ Sees(p).shadow => Sees(p)'.shadow
      /\ Sees(p).fact => Sees(p)'.fact
  BY ViewsGoOn, ReadSteps, WriteSteps DEF Sure, Steps, Onward
<1>2. InPlace(p)
  BY DEF Placed, Place
<1>3. WriteStep(p) => Sees(p) = db /\ Sees(p)' = db'
  BY WriteSteps, WriterSees
<1>4. CASE LookAtIndex(p)
  BY <1>1, <1>2, <1>4, LookAtIndexDoes DEF Looked, Turns, Read, Sees
<1>5. CASE LookAtLedger(p)
  BY <1>1, <1>2, <1>5, LookAtLedgerDoes DEF Looked, Turns, Read, Sees
<1>6. CASE ReadUndated(p)
  BY <1>1, <1>2, <1>6, ReadUndatedDoes DEF Looked, Turns, Read, Sees
<1>7. CASE LookForShadow(p)
  BY <1>1, <1>2, <1>7, LookForShadowDoes DEF Looked, Turns, Read, Sees
<1>8. CASE LookAtFacts(p)
  BY <1>1, <1>2, <1>8, LookAtFactsDoes DEF Looked, Turns, Read, Sees
<1>9. CASE LookAtMeta(p)
  BY <1>1, <1>2, <1>9, LookAtMetaDoes DEF Looked, Turns, Read, Sees
<1>10. CASE EnsureMessages(p)
  BY <1>1, <1>2, <1>10, EnsureMessagesDoes DEF Looked, Turns
<1>11. CASE DropIndex(p)
  BY <1>1, <1>2, <1>11, DropIndexDoes DEF Looked, Turns, Opening
<1>12. CASE CreateIndex(p)
  BY <1>1, <1>2, <1>12, CreateIndexDoes DEF Looked, Turns, Opening
<1>13. CASE EnsureLedger(p)
  BY <1>1, <1>2, <1>13, EnsureLedgerDoes DEF Looked, Turns
<1>14. CASE RenameLedger(p)
  <2>1. "shadow" \in proc'[p].open => "shadow" \in proc[p].open
    <3>1. CASE writer = p
      BY <1>14, <3>1, RenameLedgerDoes DEF Turns, Opening
    <3>2. CASE ~(writer = p)
      <4>1. proc'[p].open = proc[p].open \cup {"ledger"}
        BY <1>14, <3>2, RenameLedgerDoes DEF Turns, Opening
      <4> QED
        BY <4>1
    <3> QED
      BY <3>1, <3>2
  <2> QED
    BY <1>1, <1>2, <1>14, <2>1, RenameLedgerDoes DEF Looked, Turns
<1>15. CASE CreateLedger(p)
  BY <1>1, <1>2, <1>15, CreateLedgerDoes DEF Looked, Turns
<1>16. CASE DropLedger(p)
  BY <1>1, <1>2, <1>16, DropLedgerDoes DEF Looked, Turns
<1>17. CASE EnsureColumns(p)
  BY <1>1, <1>2, <1>17, EnsureColumnsDoes DEF Looked, Turns
<1>18. CASE CreateShadow(p)
  <2>1. Sees(p) = db
    BY <1>3, <1>18 DEF WriteStep, DdlStep
  <2>2. "shadow" \in proc'[p].open => backend = "libsql" /\ proc[p].fresh
    <3>1. "shadow" \notin proc[p].open
      BY <1>1, <1>18, CreateShadowDoes DEF Looked
    <3>2. "shadow" \in proc'[p].open => ~db.shadow /\ writer # p
      BY <1>18, <3>1, CreateShadowDoes DEF Turns, Opening
    <3> QED
      BY <1>1, <1>2, <1>18, <2>1, <3>2, CreateShadowDoes
      DEF Looked, InPlace, InTransaction, Transactions
  <2> QED
    BY <1>1, <1>18, <2>2, CreateShadowDoes DEF Looked, Turns
<1>19. CASE CreateTriggers(p)
  BY <1>1, <1>2, <1>19, CreateTriggersDoes DEF Looked, Turns
<1>20. CASE CreateUnique(p)
  BY <1>1, <1>2, <1>20, CreateUniqueDoes DEF Looked, Turns
<1>21. CASE ClearIndex(p)
  <2>1. "shadow" \in proc'[p].open => "shadow" \in proc[p].open
    <3>1. CASE backend = "sqlite"
      BY <1>21, <3>1, ClearIndexDoes DEF Turns
    <3>2. CASE ~(backend = "sqlite")
      BY <1>21, <3>2, ClearIndexDoes DEF Turns
    <3> QED
      BY <3>1, <3>2
  <2> QED
    BY <1>1, <1>2, <1>21, <2>1, ClearIndexDoes DEF Looked, Turns
<1>22. CASE FillIndex(p)
  BY <1>1, <1>2, <1>22, FillIndexDoes DEF Looked, Turns, Closing
<1>23. CASE CopyLedger(p)
  BY <1>1, <1>2, <1>23, CopyLedgerDoes DEF Looked, Turns, Closing
<1>24. CASE FillLastSeen(p)
  BY <1>1, <1>2, <1>24, FillLastSeenDoes DEF Looked, Turns
<1>25. CASE Backfill(p)
  BY <1>1, <1>2, <1>25, BackfillDoes DEF Looked, Turns
<1>26. CASE RebuildShadow(p)
  BY <1>1, <1>2, <1>26, RebuildShadowDoes DEF Looked, Turns, Closing
<1>27. CASE Recount(p)
  BY <1>1, <1>2, <1>27, RecountDoes DEF Looked, Turns
<1>28. CASE EnsureRest(p)
  BY <1>1, <1>2, <1>28, EnsureRestDoes DEF Looked, Turns
<1>29. CASE InsertMeta(p)
  <2>1. Sees(p)'.meta
    BY <1>3, <1>29, InsertMetaDoes DEF WriteStep, DmlStep
  <2> QED
    BY <1>1, <1>2, <1>29, <2>1, InsertMetaDoes DEF Looked, Turns
<1>30. CASE InsertMessage(p)
  <2>1. "shadow" \in proc'[p].open => "shadow" \in proc[p].open
    <3>1. CASE backend = "sqlite"
      BY <1>30, <3>1, InsertMessageDoes DEF Turns
    <3>2. CASE ~(backend = "sqlite")
      BY <1>30, <3>2, InsertMessageDoes DEF Turns
    <3> QED
      BY <3>1, <3>2
  <2> QED
    BY <1>1, <1>2, <1>30, <2>1, InsertMessageDoes DEF Looked, Turns
<1>31. CASE InsertEntry(p)
  BY <1>1, <1>2, <1>31, InsertEntryDoes DEF Looked, Turns
<1>32. CASE ReadMessages(p)
  BY <1>1, <1>2, <1>32, ReadMessagesDoes DEF Looked, Turns
<1>33. CASE Import(p)
  BY <1>1, <1>2, <1>33, ImportDoes DEF Looked, Turns
<1>34. CASE StartInit(p) \/ StartVectors(p) \/ StartAppend(p)
  BY <1>1, <1>2, <1>34, StartsDo DEF Looked, Turns, Enters, InPlace
<1>35. CASE StartRepair(p) \/ StartImport(p)
  BY <1>1, <1>2, <1>35, StartsDo DEF Looked, Turns, Enters, InPlace
<1>36. CASE \E r \in Surfaced : Retrieve(p, r)
  BY <1>1, <1>2, <1>36, StartsDo, ReadSteps
  DEF Looked, Turns, Enters, InPlace, OutOfTransaction, Found, Sees, Read, ReadStep
<1>37. CASE \E r \in Surfaced : LogEvent(p, r) \/ CountEvent(p, r)
  <2>1. /\ proc[p].pc \in {"event", "count"} /\ proc'[p].job = proc[p].job
        /\ proc[p].job = "retrieve" /\ proc'[p].pc \in {"count", "commit"}
        /\ proc'[p].seen \in {proc[p].seen, {}}
    BY <1>37, LogEventDoes, CountEventDoes DEF Turns
  <2>2. "shadow" \in proc'[p].open => "shadow" \in proc[p].open
    <3>1. CASE backend = "sqlite"
      BY <1>37, <3>1, LogEventDoes, CountEventDoes DEF Turns, Closing
    <3>2. CASE ~(backend = "sqlite")
      <4>1. PICK r \in Surfaced :
              proc'[p].open \in {proc[p].open \cup {r}, proc[p].open \ {r}}
        BY <1>37, <3>2, LogEventDoes, CountEventDoes DEF Turns, Closing
      <4> QED
        BY <4>1 DEF Surfaced
    <3> QED
      BY <3>1, <3>2
  <2> QED
    BY <1>1, <2>1, <2>2 DEF Looked
<1>38. CASE Commit(p) \/ Forget(p)
  BY <1>1, <1>2, <1>38, CommitDoes, ForgetDoes DEF Looked, Turns, InPlace
<1>39. CASE \/ IngestSource(p) \/ Promote(p)
           \/ \E m \in Ids : Insert(p, m) \/ \E c \in db.cands : Merge(p, c, m)
  BY <1>1, <1>2, <1>39, IngestSourceDoes, PromoteDoes, InsertDoes, MergeDoes
  DEF Looked, Turns, Serving, InPlace
<1> QED
  BY <1>1, <1>2, <1>4, <1>5, <1>6, <1>7, <1>8, <1>9, <1>10, <1>11, <1>12, <1>13, <1>14, <1>15,
     <1>16, <1>17, <1>18, <1>19, <1>20, <1>21, <1>22, <1>23, <1>24, <1>25, <1>26, <1>27, <1>28,
     <1>29, <1>30, <1>31, <1>32, <1>33, <1>34, <1>35, <1>36, <1>37, <1>38, <1>39
  DEF ReadStep, WriteStep, DdlStep, DmlStep, WholeStep

LEMMA OthersSure ==
  ASSUME Transactions, Placed, Sure, NEW p \in Processes, ReadStep(p) \/ WriteStep(p),
         NEW q \in Processes \ {p}
  PROVE  /\ proc'[q].job = "init" => Reached(proc'[q], Sees(q)')
         /\ Remembers(q)' /\ Looked(q)'
<1>1. /\ proc'[q] = proc[q] /\ backend' = backend
      /\ Onward(disk, disk') /\ Onward(Sees(q), Sees(q)')
  BY ViewsGoOn, ReadSteps, WriteSteps DEF Steps, Sure
<1>2. proc[q].job = "init" => Reached(proc[q], Sees(q)')
  BY <1>1, ReachedGoesOn DEF Sure
<1>3. Remembers(q)'
  BY <1>1, InitialisedGoesOn DEF Sure, Remembers, Onward
<1>4. Looked(q)'
  BY <1>1 DEF Sure, Looked, Onward
<1> QED
  BY <1>1, <1>2, <1>3, <1>4

\* A crash takes the writer's view back to the disk, which is its own alone.
LEMMA BreakSure ==
  ASSUME Transactions, Placed, Sure, NEW p \in Processes, Break(p)
  PROVE  Sure'
<1>1. /\ Onward(disk, disk') /\ Onward(disk', db')
      /\ disk'.unique = disk.unique /\ disk'.twins = disk.twins
      /\ db'.unique = (IF writer = p THEN disk.unique ELSE db.unique)
      /\ db'.twins = (IF writer = p THEN disk.twins ELSE db.twins)
  BY BreakDoes, ColumnNames DEF Sure, Onward
<1>2. ASSUME NEW q \in Processes \ {p}
      PROVE  Onward(Sees(q), Sees(q)')
  <2>1. CASE writer = q
    <3>1. \A c \in Columns \ {"torn"} : db'[c] = db[c]
      BY <2>1, BreakDoes
    <3>2. Sees(q) = db /\ Sees(q)' = db'
      BY <2>1, BreakStep DEF Sees
    <3> QED
      BY <3>1, <3>2, ColumnNames DEF Onward
  <2>2. CASE writer # q
    BY <1>1, <2>2, BreakStep, SchemaAssumption DEF Sees
  <2> QED
    BY <2>1, <2>2
<1>3. ASSUME NEW q \in Processes
      PROVE  /\ proc'[q].job = "init" => Reached(proc'[q], Sees(q)')
             /\ Remembers(q)' /\ Looked(q)'
  <2>1. CASE q = p
    <3>1. Remembers(p)'
      BY <1>1, BreakStep, InitialisedGoesOn DEF Sure, Remembers, Onward
    <3> QED
      BY <2>1, <3>1, BreakStep DEF Looked
  <2>2. CASE q # p
    <3>1. proc'[q] = proc[q] /\ backend' = backend
      BY <2>2, BreakStep
    <3>2. proc[q].job = "init" => Reached(proc[q], Sees(q)')
      BY <1>2, <2>2, ReachedGoesOn DEF Sure
    <3>3. Remembers(q)'
      BY <1>1, <3>1, InitialisedGoesOn DEF Sure, Remembers, Onward
    <3>4. Looked(q)'
      BY <1>2, <2>2, <3>1 DEF Sure, Looked, Onward
    <3> QED
      BY <3>1, <3>2, <3>3, <3>4
  <2> QED
    BY <2>1, <2>2
<1> QED
  BY <1>1, <1>3 DEF Sure

LEMMA RetireSure ==
  ASSUME Transactions, Placed, Sure, RetireTwins
  PROVE  Sure'
<1>1. /\ Onward(db, db') /\ disk' = db' /\ disk = db /\ writer = Nobody /\ writer' = Nobody
      /\ ~db'.twins /\ UNCHANGED <<proc, backend>>
  BY RetireDoes, ColumnNames DEF Transactions, Onward, Alters
<1>2. ASSUME NEW q \in Processes
      PROVE  /\ proc'[q].job = "init" => Reached(proc'[q], Sees(q)')
             /\ Remembers(q)' /\ Looked(q)'
  <2>1. Sees(q) = db /\ Sees(q)' = db'
    BY <1>1 DEF Sees
  <2>2. proc[q].job = "init" => Reached(proc[q], Sees(q)')
    BY <1>1, <2>1, ReachedGoesOn DEF Sure
  <2>3. Remembers(q)'
    BY <1>1, InitialisedGoesOn DEF Sure, Remembers, Onward
  <2>4. Looked(q)'
    BY <1>1, <2>1 DEF Sure, Looked, Onward
  <2> QED
    BY <1>1, <2>2, <2>3, <2>4
<1>3. Onward(disk', db')
  BY <1>1 DEF Onward
<1> QED
  BY <1>1, <1>2, <1>3 DEF Sure

LEMMA SureStep ==
  ASSUME Transactions, Placed, Sure, SchemaNext
  PROVE  Sure'
<1>1. ASSUME NEW p \in Processes, ReadStep(p) \/ WriteStep(p)
      PROVE  Sure'
  <2>1. Onward(disk', db')
    BY <1>1, ViewsGoOn DEF Sure
  <2>2. (db'.unique => ~db'.twins) /\ (disk'.unique => ~disk'.twins)
    <3>1. CASE ReadStep(p)
      BY <3>1, ReadSteps DEF Sure, Read
    <3>2. CASE WriteStep(p)
      <4>1. db'.unique => ~db'.twins
        BY <3>2, StatementsGoOn DEF Sure, Onward
      <4>2. disk' \in {disk, db'}
        BY <3>2, WriteSteps, WriterSees
      <4> QED
        BY <4>1, <4>2 DEF Sure
    <3> QED
      BY <1>1, <3>1, <3>2
  <2>3. ASSUME NEW q \in Processes
        PROVE  /\ proc'[q].job = "init" => Reached(proc'[q], Sees(q)')
               /\ Remembers(q)' /\ Looked(q)'
    BY <1>1, OthersSure, OwnReached, OwnRemembers, OwnLooked
  <2> QED
    BY <2>1, <2>2, <2>3 DEF Sure
<1> QED
  BY <1>1, BreakSure, RetireSure, StepKinds

-------------------------------------------------------------------------------
(* At first *)

LEMMA ShapesKnown ==
  ASSUME NEW d \in Shapes
  PROVE  /\ DOMAIN d = Columns /\ d.torn = {} /\ d.unique = FALSE /\ d.renamed = FALSE
         /\ d.found = d.messages /\ d.keyed = d.keys /\ d.shadow = FALSE /\ d.fact = FALSE
         /\ Formed(d)
         /\ d.events = Zero /\ d.count = Zero /\ d.inherited = 0
         /\ d.cands = {} \/ \E m \in Ids : d.cands = {Candidate(m, {m}, Undated)}
<1>1. CASE d = Empty
  BY <1>1 DEF Empty, Columns, Current, Formed
<1>2. ASSUME NEW m \in Ids, NEW index \in {"old", "current"}, NEW twins \in BOOLEAN,
             d = Old(m, index, twins)
      PROVE  /\ DOMAIN d = Columns /\ d.torn = {} /\ d.unique = FALSE /\ d.renamed = FALSE
             /\ d.found = d.messages /\ d.keyed = d.keys /\ d.shadow = FALSE /\ d.fact = FALSE
             /\ Formed(d)
             /\ d.events = Zero /\ d.count = Zero /\ d.inherited = 0
             /\ d.cands = {Candidate(m, {m}, Undated)}
  <2>1. DOMAIN d = Columns
    BY <1>2 DEF Old, Empty, Columns, Current
  <2>2. /\ d.torn = {} /\ d.unique = FALSE /\ d.renamed = FALSE
        /\ d.found = d.messages /\ d.keyed = d.keys
    BY <1>2 DEF Old, Empty, Current
  <2>3. /\ d.shadow = FALSE /\ d.fact = FALSE
        /\ d.events = Zero /\ d.count = Zero /\ d.inherited = 0
    BY <1>2 DEF Old, Empty, Current
  <2>4. d.cands = {Candidate(m, {m}, Undated)}
    BY <1>2 DEF Old, Empty, Current
  <2>5. Formed(d)
    BY <1>2 DEF Old, Empty, Current, Formed
  <2> QED
    BY <2>1, <2>2, <2>3, <2>4, <2>5
<1> QED
  <2>1. \/ d = Empty
        \/ \E m \in Ids, index \in {"old", "current"}, twins \in BOOLEAN : d = Old(m, index, twins)
    BY ShapesAssumption
  <2> QED
    BY <1>1, <1>2, <2>1

LEMMA StartsInPlace ==
  ASSUME SchemaStart
  PROVE  Transactions /\ Placed /\ Sure
<1>1. \A p \in Processes : proc[p] = Resting /\ p # Nobody
  BY SchemaAssumption DEF SchemaStart
<1>2. \A p \in Processes : /\ proc[p].pc = "idle" /\ proc[p].job = "none" /\ proc[p].open = {}
                           /\ proc[p].memo = {} /\ DOMAIN proc[p] = Attributes
  BY <1>1 DEF Resting, Attributes
<1>3. db \in Shapes /\ disk = db /\ writer = Nobody /\ DOMAIN proc = Processes
      /\ backend \in {"sqlite", "libsql"}
  BY DEF SchemaStart
<1>4. Transactions
  BY <1>3, ShapesKnown DEF Transactions
<1>5. Placed
  BY <1>2, <1>3, SchemaAssumption
  DEF Placed, Place, InPlace, OpenAt, ThereFor, Migrates, Moves, Fills, InTransaction,
      OutOfTransaction
<1>6. Sure
  BY <1>2, <1>3, ShapesKnown DEF Sure, Remembers, Looked, Onward
<1> QED
  BY <1>4, <1>5, <1>6

-------------------------------------------------------------------------------
(* The days of the candidates *)

LEMMA LeastOfNaturals ==
  ASSUME NEW S \in SUBSET Nat, S # {}
  PROVE  Min(S) \in S /\ \A n \in S : Min(S) <= n
<1>1. PICK m \in S : \A n \in S : ~(<<n, m>> \in OpToRel(<, Nat))
  BY NatLessThanWellFounded, WFMin
<1>2. \A n \in S : ~(n < m)
  BY <1>1 DEF OpToRel
<1>3. \A n \in S : m <= n
  BY <1>2
<1> QED
  BY <1>3 DEF Min

LEMMA EarliestTyped ==
  ASSUME NEW sources \in (SUBSET Ids) \ {{}}
  PROVE  Earliest(sources) \in Nat \ {Undated}
<1>1. /\ {Date[m] : m \in sources} \subseteq Nat \ {0}
      /\ {Date[m] : m \in sources} # {}
  BY SchemaAssumption
<1> QED
  BY <1>1, LeastOfNaturals DEF Earliest, Undated

LEMMA EarliestOfOne ==
  ASSUME NEW m \in Ids
  PROVE  Earliest({m}) = Date[m]
<1>1. {Date[n] : n \in {m}} = {Date[m]} /\ Date[m] \in Nat
  BY SchemaAssumption
<1>2. Min({Date[m]}) \in {Date[m]}
  BY <1>1, LeastOfNaturals
<1> QED
  BY <1>1, <1>2 DEF Earliest

\* A row takes the day of the sources it has, if what was read of it still holds.
LEMMA DatedByFresh ==
  ASSUME NEW cands, CandsFresh(cands), NEW read,
         \A r \in read, c \in Undateds(cands) : c.id = r.id => c = r
  PROVE  CandsFresh(DatedBy(cands, read)) /\ Undateds(DatedBy(cands, read)) \subseteq Undateds(cands)
<1> DEFINE Day(c) == IF c.mentioned = Undated /\ \E r \in read : r.id = c.id
                       THEN [c EXCEPT !.mentioned = Earliest((CHOOSE r \in read : r.id = c.id).sources)]
                       ELSE c
<1>1. DatedBy(cands, read) = {Day(c) : c \in cands}
  BY DEF DatedBy
<1>2. ASSUME NEW c \in cands
      PROVE  /\ Day(c) \in CandidateRows /\ Day(c).id = c.id
             /\ Day(c).mentioned \in {Undated, Earliest(Day(c).sources)}
             /\ Day(c).mentioned = Undated => Day(c) = c /\ c \in Undateds(cands)
  <2>1. CASE c.mentioned = Undated /\ \E r \in read : r.id = c.id
    <3>1. (CHOOSE r \in read : r.id = c.id) = c
      BY <2>1 DEF Undateds
    <3>2. Day(c) = [c EXCEPT !.mentioned = Earliest(c.sources)]
      BY <2>1, <3>1
    <3>3. c \in CandidateRows /\ Earliest(c.sources) \in Nat \ {Undated}
      BY EarliestTyped DEF CandsFresh, CandidateRows
    <3> HIDE DEF Day
    <3> QED
      BY <3>2, <3>3 DEF CandidateRows
  <2>2. CASE ~(c.mentioned = Undated /\ \E r \in read : r.id = c.id)
    BY <2>2 DEF CandsFresh, Undateds
  <2> QED
    BY <2>1, <2>2
<1> HIDE DEF Day
<1>3. CandsFresh(DatedBy(cands, read))
  BY <1>1, <1>2 DEF CandsFresh
<1>4. Undateds(DatedBy(cands, read)) \subseteq Undateds(cands)
  BY <1>1, <1>2 DEF Undateds
<1> QED
  BY <1>3, <1>4

LEMMA JoinedFresh ==
  ASSUME CandsFresh(db.cands)
  PROVE  CandsFresh(Joined(db))
<1>1. CandsFresh(Artifact.cands)
  BY ArtifactAssumption DEF CandsFresh
<1>2. Joined(db) = db.cands \cup {a \in Artifact.cands : \A c \in db.cands : c.id # a.id}
  BY DEF Joined, CandidateIds
<1> QED
  BY <1>1, <1>2 DEF CandsFresh

LEMMA AllDated ==
  ASSUME NEW cands, CandsFresh(cands)
  PROVE  /\ CandsFresh(DatedBy(cands, Lacking(cands)))
         /\ Undateds(DatedBy(cands, Lacking(cands))) = {}
<1>1. Lacking(cands) = Undateds(cands)
  BY DEF Lacking, Undateds
<1>2. CandsFresh(DatedBy(cands, Lacking(cands)))
  <2>1. \A r \in Undateds(cands), c \in Undateds(cands) : c.id = r.id => c = r
    BY DEF CandsFresh, Undateds
  <2> QED
    BY <1>1, <2>1, DatedByFresh
<1>3. ASSUME NEW c \in cands, c.mentioned = Undated
      PROVE  Earliest((CHOOSE r \in Lacking(cands) : r.id = c.id).sources) # Undated
  <2>1. c \in Lacking(cands)
    BY <1>3 DEF Lacking
  <2>2. (CHOOSE r \in Lacking(cands) : r.id = c.id) = c
    BY <1>1, <2>1 DEF CandsFresh, Lacking
  <2> QED
    BY <1>1, <2>2, EarliestTyped DEF CandsFresh, CandidateRows
<1>4. ASSUME NEW c \in cands, c.mentioned = Undated
      PROVE  [c EXCEPT !.mentioned = Earliest((CHOOSE r \in Lacking(cands) : r.id = c.id).sources)].mentioned
               # Undated
  BY <1>1, <1>3, <1>4 DEF CandsFresh, CandidateRows
<1>5. ASSUME NEW c \in cands, c.mentioned = Undated
      PROVE  \E r \in Lacking(cands) : r.id = c.id
  BY <1>5 DEF Lacking
<1>6. \A e \in DatedBy(cands, Lacking(cands)) : e.mentioned # Undated
  BY <1>4, <1>5 DEF DatedBy
<1> QED
  BY <1>2, <1>6 DEF Undateds

\* No statement leaves a candidate with another day than its sources', or takes
\* a day away.
LEMMA StatementsKeepDays ==
  ASSUME Transactions, Placed, MentionsFresh, NEW p \in Processes, WriteStep(p)
  PROVE  CandsFresh(db'.cands) /\ Undateds(db'.cands) \subseteq Undateds(db.cands)
<1>1. CASE db'.cands = db.cands
  BY <1>1 DEF MentionsFresh
<1>2. CASE Backfill(p)
  <2>1. Sees(p) = db /\ db'.cands = DatedBy(db.cands, proc[p].seen)
    BY <1>2, BackfillDoes DEF MayWrite, Sees, Transactions
  <2> QED
    BY <1>2, <2>1, BackfillDoes, DatedByFresh DEF MentionsFresh, ReadHolds
<1>3. CASE Import(p)
  <2>1. db'.cands = DatedBy(Joined(db), Lacking(Joined(db)))
    BY <1>3, ImportDoes
  <2>2. CandsFresh(Joined(db))
    BY JoinedFresh DEF MentionsFresh
  <2> QED
    BY <2>1, <2>2, AllDated
<1>4. ASSUME NEW m \in Ids, Insert(p, m)
      PROVE  CandsFresh(db'.cands) /\ Undateds(db'.cands) \subseteq Undateds(db.cands)
  <2>1. PICK new : new = Candidate(m, {m}, Date[m])
    OBVIOUS
  <2>2. /\ new \in CandidateRows /\ new.id = m /\ new.mentioned = Earliest(new.sources)
        /\ new.mentioned # Undated
    BY <2>1, EarliestOfOne, SchemaAssumption DEF Candidate, CandidateRows, Undated
  <2>3. db'.cands = db.cands \cup {new} /\ \A c \in db.cands : c.id # m
    BY <1>4, <2>1, InsertDoes DEF CandidateIds
  <2> QED
    BY <2>2, <2>3 DEF MentionsFresh, CandsFresh, Undateds
<1>5. ASSUME NEW m \in Ids, NEW c \in db.cands, Merge(p, c, m)
      PROVE  CandsFresh(db'.cands) /\ Undateds(db'.cands) \subseteq Undateds(db.cands)
  <2>1. PICK sources : sources = c.sources \cup {m}
    OBVIOUS
  <2>2. PICK new : new = Candidate(c.id, sources, Earliest(sources))
    OBVIOUS
  <2>3. c \in CandidateRows /\ sources \in (SUBSET Ids) \ {{}}
    BY <2>1 DEF MentionsFresh, CandsFresh, CandidateRows
  <2>4. /\ new \in CandidateRows /\ new.id = c.id /\ new.mentioned = Earliest(new.sources)
        /\ new.mentioned # Undated
    BY <2>2, <2>3, EarliestTyped DEF Candidate, CandidateRows
  <2>5. db'.cands = (db.cands \ {c}) \cup {new}
    BY <1>5, <2>1, <2>2, MergeDoes
  <2> QED
    BY <2>4, <2>5 DEF MentionsFresh, CandsFresh, Undateds
<1>6. CASE EnsureMessages(p) \/ DropIndex(p) \/ CreateIndex(p) \/ EnsureLedger(p)
  BY <1>1, <1>6, ColumnNames, EnsureMessagesDoes, DropIndexDoes, CreateIndexDoes,
     EnsureLedgerDoes
  DEF Alters
<1>7. CASE RenameLedger(p) \/ CreateLedger(p) \/ DropLedger(p) \/ EnsureColumns(p)
  BY <1>1, <1>7, ColumnNames, RenameLedgerDoes, CreateLedgerDoes, DropLedgerDoes,
     EnsureColumnsDoes
  DEF Alters
<1>8. CASE CreateShadow(p) \/ CreateTriggers(p) \/ CreateUnique(p) \/ ClearIndex(p)
  BY <1>1, <1>8, ColumnNames, CreateShadowDoes, CreateTriggersDoes, CreateUniqueDoes,
     ClearIndexDoes
  DEF Alters
<1>9. CASE FillIndex(p) \/ CopyLedger(p) \/ FillLastSeen(p) \/ RebuildShadow(p)
  BY <1>1, <1>9, ColumnNames, FillIndexDoes, CopyLedgerDoes, FillLastSeenDoes, RebuildShadowDoes
  DEF Alters
<1>10. CASE Recount(p) \/ EnsureRest(p) \/ InsertMeta(p) \/ InsertMessage(p)
  BY <1>1, <1>10, ColumnNames, RecountDoes, EnsureRestDoes, InsertMetaDoes, InsertMessageDoes
  DEF Alters
<1>11. CASE InsertEntry(p) \/ ReadMessages(p) \/ IngestSource(p) \/ Promote(p)
  BY <1>1, <1>11, ColumnNames, InsertEntryDoes, ReadMessagesDoes, IngestSourceDoes, PromoteDoes
  DEF Alters
<1>12. CASE Commit(p) \/ \E r \in Surfaced : LogEvent(p, r) \/ CountEvent(p, r)
  BY <1>1, <1>12, ColumnNames, CommitDoes, LogEventDoes, CountEventDoes DEF Alters
<1> QED
  BY <1>2, <1>3, <1>4, <1>5, <1>6, <1>7, <1>8, <1>9, <1>10, <1>11, <1>12
  DEF WriteStep, DdlStep, DmlStep, WholeStep

LEMMA OnlyReadLeadsToBackfill ==
  ASSUME Transactions, Placed, NEW p \in Processes, ReadStep(p) \/ WriteStep(p),
         ~ReadUndated(p), proc'[p].pc = "backfill"
  PROVE  proc[p].pc = "backfill" /\ proc'[p].seen = proc[p].seen
<1> USE DEF Turns, Enters
<1>1. CASE ReadStep(p)
  BY <1>1, StartsDo, ForgetDoes, LookAtIndexDoes, LookAtLedgerDoes, LookForShadowDoes,
     LookAtFactsDoes, LookAtMetaDoes DEF ReadStep
<1>2. CASE EnsureMessages(p) \/ DropIndex(p) \/ CreateIndex(p) \/ EnsureLedger(p)
  BY <1>2, EnsureMessagesDoes, DropIndexDoes, CreateIndexDoes, EnsureLedgerDoes
<1>3. CASE RenameLedger(p) \/ CreateLedger(p) \/ DropLedger(p) \/ EnsureColumns(p)
  BY <1>3, RenameLedgerDoes, CreateLedgerDoes, DropLedgerDoes, EnsureColumnsDoes
<1>4. CASE CreateShadow(p) \/ CreateTriggers(p) \/ CreateUnique(p) \/ ClearIndex(p)
  BY <1>4, CreateShadowDoes, CreateTriggersDoes, CreateUniqueDoes, ClearIndexDoes
<1>5. CASE FillIndex(p) \/ CopyLedger(p) \/ FillLastSeen(p) \/ Backfill(p)
  BY <1>5, FillIndexDoes, CopyLedgerDoes, FillLastSeenDoes, BackfillDoes
<1>6. CASE RebuildShadow(p) \/ Recount(p) \/ EnsureRest(p) \/ InsertMeta(p)
  BY <1>6, RebuildShadowDoes, RecountDoes, EnsureRestDoes, InsertMetaDoes
<1>7. CASE InsertMessage(p) \/ InsertEntry(p)
  BY <1>7, InsertMessageDoes, InsertEntryDoes
<1>8. CASE \E r \in Surfaced : LogEvent(p, r) \/ CountEvent(p, r)
  BY <1>8, LogEventDoes, CountEventDoes
<1>9. CASE WholeStep(p)
  BY <1>9, ReadMessagesDoes, CommitDoes, ImportDoes, IngestSourceDoes, PromoteDoes, InsertDoes,
     MergeDoes DEF WholeStep, Serving
<1> QED
  BY <1>1, <1>2, <1>3, <1>4, <1>5, <1>6, <1>7, <1>8, <1>9
  DEF WriteStep, DdlStep, DmlStep

LEMMA ReadsHold ==
  ASSUME Transactions, Placed, Sure, MentionsFresh, NEW p \in Processes,
         ReadStep(p) \/ WriteStep(p), NEW q \in Processes
  PROVE  ReadHolds(q)'
<1>1. CASE ReadUndated(p) /\ q = p
  <2>1. proc'[p].seen = Undateds(Sees(p).cands) /\ Sees(p)' = Sees(p) /\ CandsFresh(Sees(p).cands)
    BY <1>1, ReadUndatedDoes DEF Turns, Lacking, Undateds, Read, Sees, MentionsFresh
  <2> QED
    BY <1>1, <2>1 DEF ReadHolds, CandsFresh, Undateds
<1>2. CASE ~(ReadUndated(p) /\ q = p)
  <2>1. proc'[q].pc = "backfill" => proc[q].pc = "backfill" /\ proc'[q].seen = proc[q].seen
    <3>1. CASE q # p
      BY <3>1, ReadSteps, WriteSteps DEF Steps
    <3>2. CASE q = p
      BY <1>2, <3>2, OnlyReadLeadsToBackfill
    <3> QED
      BY <3>1, <3>2
  <2>2. Undateds(Sees(q)'.cands) \subseteq Undateds(Sees(q).cands)
    <3>1. CASE ReadStep(p)
      BY <3>1, ReadSteps DEF Read, Sees
    <3>2. CASE WriteStep(p)
      <4>1. Undateds(db'.cands) \subseteq Undateds(db.cands) /\ Writes(p)
        BY <3>2, StatementsKeepDays, WriteSteps
      <4>2. CASE q = p
        BY <4>1, <4>2, WriterSees
      <4>3. CASE q # p
        BY <4>1, <4>3, SchemaAssumption DEF Writes, Sees, MentionsFresh
      <4> QED
        BY <4>2, <4>3
    <3> QED
      BY <3>1, <3>2
  <2> QED
    BY <2>1, <2>2 DEF ReadHolds, MentionsFresh
<1> QED
  BY <1>1, <1>2

LEMMA DaysStep ==
  ASSUME Transactions, Placed, Sure, MentionsFresh, SchemaNext
  PROVE  MentionsFresh'
<1>1. ASSUME NEW p \in Processes, ReadStep(p) \/ WriteStep(p)
      PROVE  MentionsFresh'
  <2>1. CASE ReadStep(p)
    BY <2>1, ReadSteps, ReadsHold DEF MentionsFresh, Read
  <2>2. CASE WriteStep(p)
    <3>1. CandsFresh(db'.cands) /\ Undateds(db'.cands) \subseteq Undateds(db.cands)
      BY <2>2, StatementsKeepDays
    <3>2. Writes(p) /\ disk' \in {disk, db'}
      BY <2>2, WriteSteps, WriterSees
    <3> QED
      BY <1>1, <3>1, <3>2, ReadsHold DEF MentionsFresh
  <2> QED
    BY <1>1, <2>1, <2>2
<1>2. ASSUME NEW p \in Processes, Break(p)
      PROVE  MentionsFresh'
  <2>1. disk'.cands = disk.cands /\ db'.cands = IF writer = p THEN disk.cands ELSE db.cands
    BY <1>2, BreakDoes, ColumnNames
  <2>2. ASSUME NEW q \in Processes
        PROVE  ReadHolds(q)'
    <3>1. CASE q = p
      BY <1>2, <3>1, BreakStep DEF ReadHolds
    <3>2. CASE q # p
      <4>1. /\ proc'[q] = proc[q] /\ backend' = backend /\ ReadHolds(q)
            /\ writer' = IF writer = p THEN Nobody ELSE writer
        BY <1>2, <3>2, BreakStep DEF MentionsFresh
      <4>2. q # Nobody
        BY SchemaAssumption
      <4>3. Sees(q)'.cands = Sees(q).cands
        BY <2>1, <3>2, <4>1, <4>2 DEF Sees
      <4> QED
        BY <4>1, <4>3 DEF ReadHolds
    <3> QED
      BY <3>1, <3>2
  <2> QED
    BY <2>1, <2>2 DEF MentionsFresh
<1>3. CASE RetireTwins
  <2>1. db'.cands = db.cands /\ disk'.cands = db.cands /\ disk = db
        /\ UNCHANGED <<proc, writer>> /\ writer = Nobody
    BY <1>3, RetireDoes, ColumnNames DEF Alters, Transactions
  <2> QED
    BY <2>1 DEF MentionsFresh, ReadHolds, Sees
<1> QED
  BY <1>1, <1>2, <1>3, StepKinds

LEMMA StartsFresh ==
  ASSUME SchemaStart
  PROVE  MentionsFresh
<1>1. db \in Shapes /\ disk = db /\ writer = Nobody /\ proc = [p \in Processes |-> Resting]
  BY DEF SchemaStart
<1>2. \A p \in Processes : ReadHolds(p)
  BY <1>1 DEF ReadHolds, Resting
<1>3. ASSUME NEW m \in Ids
      PROVE  CandsFresh({Candidate(m, {m}, Undated)})
  BY <1>3 DEF CandsFresh, Candidate, CandidateRows, Undated
<1>4. CandsFresh({})
  BY DEF CandsFresh
<1> QED
  BY <1>1, <1>2, <1>3, <1>4, ShapesKnown DEF MentionsFresh

LEMMA Stutters ==
  ASSUME UNCHANGED schemaVars
  PROVE  /\ Transactions => Transactions'
         /\ Placed => Placed'
         /\ Sure => Sure'
         /\ MentionsFresh => MentionsFresh'
<1> USE DEF schemaVars
<1>1. Transactions => Transactions'
  BY DEF Transactions
<1>2. Placed => Placed'
  BY DEF Placed, Place, InPlace, OpenAt, ThereFor
<1>3. Sure => Sure'
  BY DEF Sure, Remembers, Looked, Sees
<1>4. MentionsFresh => MentionsFresh'
  BY DEF MentionsFresh, ReadHolds, Sees
<1> QED
  BY <1>1, <1>2, <1>3, <1>4

\* A candidate's day is the earliest of the sources it has, not of those it had
\* when an init read it: the backfill writes what it derived only where there is
\* no day yet, and a row without a day has the sources it was read with.
THEOREM DaysAreOfSources == SchemaSpec => []MentionFresh
<1> DEFINE Ind == Transactions /\ Placed /\ Sure /\ MentionsFresh
<1>1. SchemaStart => Ind
  BY StartsInPlace, StartsFresh
<1>2. Ind /\ [SchemaNext]_schemaVars => Ind'
  <2> SUFFICES ASSUME Transactions, Placed, Sure, MentionsFresh, [SchemaNext]_schemaVars
               PROVE  Transactions' /\ Placed' /\ Sure' /\ MentionsFresh'
    OBVIOUS
  <2>1. CASE SchemaNext
    BY <2>1, TransactionsStep, PlacedStep, SureStep, DaysStep
  <2>2. CASE UNCHANGED schemaVars
    BY <2>2, Stutters
  <2> QED
    BY <2>1, <2>2
<1>3. Ind => MentionFresh
  BY DEF MentionsFresh, CandsFresh, MentionFresh
<1> QED
  BY <1>1, <1>2, <1>3, PTL DEF SchemaSpec

-------------------------------------------------------------------------------
(* What makes a part fine *)

\* Whether a process at s is why a part may not be whole, and what columns it
\* is made of.
Contributes(part, s, b) ==
  CASE part = "index" -> ClearsIndex(s) \/ Fills(s)
    [] part = "ledger" -> Moves(s)
    [] part = "shadow" -> Builds(s, b)
    [] OTHER -> s.pc = "count" /\ part \in s.seen

ColumnsOf(part) ==
  CASE part = "index" -> {"index", "messages", "found"}
    [] part = "ledger" -> {"ledger", "renamed", "keyed", "keys", "old"}
    [] part = "shadow" -> {"shadow", "triggers", "cands", "shadowed"}
    [] OTHER -> {"count", "events", "inherited"}

\* A part stays fine where its columns do, if no process that contributes goes.
LEMMA FineAside ==
  ASSUME NEW part \in Parts, NEW d, NEW e, NEW f, NEW g, NEW P, NEW Q, NEW p, NEW b,
         \A c \in ColumnsOf(part) : e[c] = d[c], part \in d.torn => part \in e.torn,
         \A q : q # p => (q \in P <=> q \in Q), \A q \in P \ {p} : g[q] = f[q],
         p \in P => ~Contributes(part, f[p], b),
         p \in Q /\ part \in Surfaced => ~Contributes(part, g[p], b),
         Fine(part, d, f, P, b)
  PROVE  Fine(part, e, g, Q, b)
<1>1. CASE part = "index"
  <2>1. e.index = d.index /\ e.messages = d.messages /\ e.found = d.found
    BY <1>1 DEF ColumnsOf
  <2>2. IndexFine(d, f, P) /\ (p \in P => ~ClearsIndex(f[p]) /\ ~Fills(f[p]))
    BY <1>1 DEF Fine, Contributes
  <2>3. IndexFine(e, g, Q)
    BY <1>1, <2>1, <2>2 DEF IndexFine
  <2> QED
    BY <1>1, <2>3 DEF Fine
<1>2. CASE part = "ledger"
  <2>1. /\ e.ledger = d.ledger /\ e.renamed = d.renamed /\ e.keyed = d.keyed /\ e.keys = d.keys
        /\ e.old = d.old
    BY <1>2 DEF ColumnsOf
  <2>2. LedgerFine(d, f, P) /\ (p \in P => ~Moves(f[p]))
    BY <1>2 DEF Fine, Contributes
  <2>3. LedgerFine(e, g, Q)
    BY <1>2, <2>1, <2>2 DEF LedgerFine, Moves
  <2> QED
    BY <1>2, <2>3 DEF Fine
<1>3. CASE part = "shadow"
  <2>1. /\ e.shadow = d.shadow /\ e.triggers = d.triggers /\ e.shadowed = d.shadowed
        /\ CandidateIds(e) = CandidateIds(d)
    BY <1>3 DEF ColumnsOf, CandidateIds
  <2>2. ShadowFine(d, f, P, b) /\ (p \in P => ~Builds(f[p], b))
    BY <1>3 DEF Fine, Contributes
  <2>3. ShadowFine(e, g, Q, b)
    BY <1>3, <2>1, <2>2 DEF ShadowFine
  <2> QED
    BY <1>3, <2>3 DEF Fine
<1>4. CASE part \in Surfaced
  <2>0. part \notin {"index", "ledger", "shadow"}
    BY <1>4 DEF Surfaced
  <2>1. e.count = d.count /\ e.events = d.events /\ e.inherited = d.inherited
    BY <1>4, <2>0 DEF ColumnsOf
  <2>2. CounterFine(d, f, P, part)
    BY <1>4, <2>0 DEF Fine
  <2>3. /\ p \in P => ~(f[p].pc = "count" /\ part \in f[p].seen)
        /\ p \in Q => ~(g[p].pc = "count" /\ part \in g[p].seen)
    BY <1>4, <2>0 DEF Contributes
  <2>4. Counting(g, Q, part) = Counting(f, P, part)
    BY <2>3 DEF Counting
  <2>5. CounterFine(e, g, Q, part)
    BY <1>4, <2>1, <2>2, <2>4 DEF CounterFine, Inherits
  <2> QED
    BY <1>4, <2>0, <2>5 DEF Fine
<1> QED
  BY <1>1, <1>2, <1>3, <1>4 DEF Parts

\* Who contributes and is not in a transaction has the part open.
LEMMA ContributorsOpen ==
  ASSUME Placed, backend \in {"sqlite", "libsql"}, NEW p \in Processes, writer # p,
         NEW part \in Parts, Contributes(part, proc[p], backend)
  PROVE  part \in proc[p].open
<1>1. InPlace(p) /\ OpenAt(p)
  BY DEF Placed, Place
<1>2. CASE part = "index"
  BY <1>1, <1>2 DEF Contributes, ClearsIndex, Fills, OpenAt
<1>3. CASE part = "ledger"
  BY <1>1, <1>3 DEF Contributes, OpenAt
<1>4. CASE part = "shadow"
  BY <1>1, <1>4 DEF Contributes, Builds, InPlace, InTransaction
<1>5. CASE part \in Surfaced
  BY <1>1, <1>5 DEF Contributes, OpenAt, Surfaced
<1> QED
  BY <1>2, <1>3, <1>4, <1>5 DEF Parts

\* What a process contributes to is told by the stage it is at.
StagesOf(part) ==
  CASE part = "index" -> {"clear_index", "read_messages", "fill_index", "entry"}
    [] part = "ledger" -> {"create_ledger", "copy_ledger"}
    [] part = "shadow" -> {"triggers", "rebuild_shadow"}
    [] OTHER -> {"count"}

LEMMA ContributorsStages ==
  ASSUME NEW p \in Processes, Looked(p), NEW part \in Parts,
         Contributes(part, proc[p], backend)
  PROVE  proc[p].pc \in StagesOf(part)
<1>1. CASE part = "index"
  BY <1>1 DEF Contributes, StagesOf, ClearsIndex, Fills
<1>2. CASE part = "ledger"
  BY <1>2 DEF Contributes, StagesOf, Moves
<1>3. CASE part = "shadow"
  BY <1>3 DEF Contributes, StagesOf, Builds, Looked
<1>4. CASE part \in Surfaced
  BY <1>4 DEF Contributes, StagesOf, Surfaced
<1> QED
  BY <1>1, <1>2, <1>3, <1>4 DEF Parts

-------------------------------------------------------------------------------
(* What is seen, and the forms the tables have *)

LEMMA OneSeenStep ==
  ASSUME Transactions, Placed, OneSeen, SchemaNext
  PROVE  OneSeen'
<1> DEFINE One(s) == s.pc \in {"event", "count"} => \E r \in Surfaced : s.seen = {r}
<1>1. ASSUME NEW p \in Processes, One(proc'[p]), \A q \in Processes \ {p} : proc'[q] = proc[q]
      PROVE  OneSeen'
  BY <1>1 DEF OneSeen
<1>2. ASSUME NEW p \in Processes, ReadStep(p) \/ WriteStep(p)
      PROVE  One(proc'[p])
  <2> USE DEF Turns, Enters
  <2>1. CASE StartInit(p) \/ StartVectors(p) \/ StartAppend(p) \/ StartRepair(p) \/ StartImport(p)
    BY <2>1, StartsDo
  <2>2. CASE \E r \in Surfaced : Retrieve(p, r)
    BY <2>2, StartsDo
  <2>3. CASE Forget(p) \/ LookAtIndex(p) \/ LookAtLedger(p) \/ ReadUndated(p)
    BY <2>3, ForgetDoes, LookAtIndexDoes, LookAtLedgerDoes, ReadUndatedDoes
  <2>4. CASE LookForShadow(p) \/ LookAtFacts(p) \/ LookAtMeta(p) \/ EnsureMessages(p)
    BY <2>4, LookForShadowDoes, LookAtFactsDoes, LookAtMetaDoes, EnsureMessagesDoes
  <2>5. CASE DropIndex(p) \/ CreateIndex(p) \/ EnsureLedger(p) \/ RenameLedger(p)
    BY <2>5, DropIndexDoes, CreateIndexDoes, EnsureLedgerDoes, RenameLedgerDoes
  <2>6. CASE CreateLedger(p) \/ DropLedger(p) \/ EnsureColumns(p) \/ CreateShadow(p)
    BY <2>6, CreateLedgerDoes, DropLedgerDoes, EnsureColumnsDoes, CreateShadowDoes
  <2>7. CASE CreateTriggers(p) \/ CreateUnique(p) \/ ClearIndex(p) \/ FillIndex(p)
    BY <2>7, CreateTriggersDoes, CreateUniqueDoes, ClearIndexDoes, FillIndexDoes
  <2>8. CASE CopyLedger(p) \/ FillLastSeen(p) \/ Backfill(p) \/ RebuildShadow(p)
    BY <2>8, CopyLedgerDoes, FillLastSeenDoes, BackfillDoes, RebuildShadowDoes
  <2>9. CASE Recount(p) \/ EnsureRest(p) \/ InsertMeta(p) \/ InsertMessage(p)
    BY <2>9, RecountDoes, EnsureRestDoes, InsertMetaDoes, InsertMessageDoes
  <2>10. CASE InsertEntry(p) \/ ReadMessages(p) \/ Commit(p) \/ Import(p)
    BY <2>10, InsertEntryDoes, ReadMessagesDoes, CommitDoes, ImportDoes
  <2>11. CASE \E r \in Surfaced : LogEvent(p, r) \/ CountEvent(p, r)
    BY <2>11, LogEventDoes, CountEventDoes DEF OneSeen
  <2>12. CASE \/ IngestSource(p) \/ Promote(p)
             \/ \E m \in Ids : Insert(p, m) \/ \E c \in db.cands : Merge(p, c, m)
    BY <2>12, IngestSourceDoes, PromoteDoes, InsertDoes, MergeDoes DEF Serving, OneSeen
  <2> QED
    BY <1>2, <2>1, <2>2, <2>3, <2>4, <2>5, <2>6, <2>7, <2>8, <2>9, <2>10, <2>11, <2>12
    DEF ReadStep, WriteStep, DdlStep, DmlStep, WholeStep
<1>3. ASSUME NEW p \in Processes, Break(p)
      PROVE  OneSeen'
  BY <1>1, <1>3, BreakStep
<1>4. CASE RetireTwins
  BY <1>4, RetireDoes DEF OneSeen
<1>5. ASSUME NEW p \in Processes, ReadStep(p) \/ WriteStep(p)
      PROVE  OneSeen'
  BY <1>1, <1>2, <1>5, ReadSteps, WriteSteps DEF Steps
<1> QED
  BY <1>3, <1>4, <1>5, StepKinds

LEMMA FormsStep ==
  ASSUME Transactions, Placed, Forms, SchemaNext
  PROVE  Forms'
<1>1. ASSUME NEW p \in Processes, WriteStep(p)
      PROVE  Formed(db')
  <2>1. CASE EnsureMessages(p) \/ DropIndex(p) \/ CreateIndex(p) \/ EnsureLedger(p)
    BY <2>1, ColumnNames, EnsureMessagesDoes, DropIndexDoes, CreateIndexDoes, EnsureLedgerDoes
    DEF Alters, Forms, Formed
  <2>2. CASE RenameLedger(p) \/ CreateLedger(p) \/ DropLedger(p) \/ EnsureColumns(p)
    BY <2>2, ColumnNames, RenameLedgerDoes, CreateLedgerDoes, DropLedgerDoes,
       EnsureColumnsDoes
    DEF Alters, Forms, Formed
  <2>3. CASE CreateShadow(p) \/ CreateTriggers(p) \/ CreateUnique(p) \/ ClearIndex(p)
    BY <2>3, ColumnNames, CreateShadowDoes, CreateTriggersDoes, CreateUniqueDoes,
       ClearIndexDoes
    DEF Alters, Forms, Formed
  <2>4. CASE FillIndex(p) \/ CopyLedger(p) \/ FillLastSeen(p) \/ Backfill(p)
    BY <2>4, ColumnNames, FillIndexDoes, CopyLedgerDoes, FillLastSeenDoes, BackfillDoes
    DEF Alters, Forms, Formed
  <2>5. CASE RebuildShadow(p) \/ Recount(p) \/ EnsureRest(p) \/ InsertMeta(p)
    BY <2>5, ColumnNames, RebuildShadowDoes, RecountDoes, EnsureRestDoes, InsertMetaDoes
    DEF Alters, Forms, Formed
  <2>6. CASE InsertMessage(p) \/ InsertEntry(p) \/ ReadMessages(p) \/ Import(p)
    BY <2>6, ColumnNames, InsertMessageDoes, InsertEntryDoes, ReadMessagesDoes, ImportDoes
    DEF Alters, Forms, Formed
  <2>7. CASE IngestSource(p) \/ Promote(p)
    BY <2>7, ColumnNames, IngestSourceDoes, PromoteDoes
    DEF Alters, Forms, Formed
  <2>8. CASE Commit(p) \/ \E r \in Surfaced : LogEvent(p, r) \/ CountEvent(p, r)
    BY <2>8, ColumnNames, CommitDoes, LogEventDoes, CountEventDoes DEF Alters, Forms, Formed
  <2>9. CASE \E m \in Ids : Insert(p, m) \/ \E c \in db.cands : Merge(p, c, m)
    BY <2>9, ColumnNames, InsertDoes, MergeDoes DEF Alters, Forms, Formed
  <2> QED
    BY <1>1, <2>1, <2>2, <2>3, <2>4, <2>5, <2>6, <2>7, <2>8, <2>9
    DEF WriteStep, DdlStep, DmlStep, WholeStep
<1>2. ASSUME NEW p \in Processes, WriteStep(p)
      PROVE  Forms'
  BY <1>1, <1>2, WriteSteps, WriterSees DEF Forms
<1>3. ASSUME NEW p \in Processes, ReadStep(p)
      PROVE  Forms'
  BY <1>3, ReadSteps DEF Forms, Formed, Read
<1>4. ASSUME NEW p \in Processes, Break(p)
      PROVE  Forms'
  <2>1. /\ disk'.index = disk.index /\ disk'.ledger = disk.ledger
        /\ db'.index = (IF writer = p THEN disk.index ELSE db.index)
        /\ db'.ledger = (IF writer = p THEN disk.ledger ELSE db.ledger)
    BY <1>4, BreakDoes, ColumnNames
  <2> QED
    BY <2>1 DEF Forms, Formed
<1>5. CASE RetireTwins
  BY <1>5, RetireDoes, ColumnNames DEF Forms, Formed, Alters
<1> QED
  BY <1>2, <1>3, <1>4, <1>5, StepKinds

-------------------------------------------------------------------------------
(* Every statement leaves every part fine *)

LEMMA FineBeside ==
  ASSUME Transactions, Placed, Sure, NowFine, NEW p \in Processes, WriteStep(p),
         NEW part \in Parts, proc[p].pc \notin StagesOf(part),
         \A c \in ColumnsOf(part) : db'[c] = db[c], part \in db.torn => part \in db'.torn,
         part \in Surfaced => proc'[p].pc # "count"
  PROVE  Fine(part, db', proc', Processes, backend)
<1>1. \A q \in Processes \ {p} : proc'[q] = proc[q]
  BY WriteSteps DEF Steps
<1>2. ~Contributes(part, proc[p], backend)
  BY ContributorsStages DEF Sure
<1>3. part \in Surfaced => ~Contributes(part, proc'[p], backend)
  BY DEF Contributes, Surfaced
<1>4. Fine(part, db, proc, Processes, backend)
  BY DEF NowFine
<1>5. PICK d, e, f, g : d = db /\ e = db' /\ f = proc /\ g = proc'
  OBVIOUS
<1> QED
  BY <1>1, <1>2, <1>3, <1>4, <1>5, FineAside

LEMMA IndexStep ==
  ASSUME Transactions, Placed, Sure, MentionsFresh, OneSeen, CountedTyped, NowFine,
         NEW p \in Processes, WriteStep(p)
  PROVE  Fine("index", db', proc', Processes, backend)
<1>1. ASSUME proc[p].pc \notin StagesOf("index"), \A c \in ColumnsOf("index") : db'[c] = db[c],
             "index" \in db.torn => "index" \in db'.torn
      PROVE  Fine("index", db', proc', Processes, backend)
  BY <1>1, FineBeside DEF Parts, Surfaced
<1>0. IndexFine(db, proc, Processes) /\ \A q \in Processes \ {p} : proc'[q] = proc[q]
  BY WriteSteps DEF NowFine, Parts, Fine, Steps
<1>2. CASE EnsureMessages(p) \/ EnsureLedger(p) \/ RenameLedger(p)
  BY <1>2, <1>1, ColumnNames, EnsureMessagesDoes, EnsureLedgerDoes, RenameLedgerDoes
  DEF Alters, StagesOf, ColumnsOf, Serving
<1>3. CASE CreateLedger(p) \/ DropLedger(p) \/ EnsureColumns(p)
  BY <1>3, <1>1, ColumnNames, CreateLedgerDoes, DropLedgerDoes, EnsureColumnsDoes
  DEF Alters, StagesOf, ColumnsOf, Serving
<1>4. CASE CreateShadow(p) \/ CreateTriggers(p) \/ CreateUnique(p)
  BY <1>4, <1>1, ColumnNames, CreateShadowDoes, CreateTriggersDoes, CreateUniqueDoes
  DEF Alters, StagesOf, ColumnsOf, Serving
<1>5. CASE CopyLedger(p) \/ FillLastSeen(p) \/ Backfill(p)
  BY <1>5, <1>1, ColumnNames, CopyLedgerDoes, FillLastSeenDoes, BackfillDoes
  DEF Alters, StagesOf, ColumnsOf, Serving
<1>6. CASE RebuildShadow(p) \/ Recount(p) \/ EnsureRest(p)
  BY <1>6, <1>1, ColumnNames, RebuildShadowDoes, RecountDoes, EnsureRestDoes
  DEF Alters, StagesOf, ColumnsOf, Serving
<1>7. CASE InsertMeta(p) \/ Promote(p)
  BY <1>7, <1>1, ColumnNames, InsertMetaDoes, PromoteDoes
  DEF Alters, StagesOf, ColumnsOf, Serving
<1>8. CASE Commit(p) \/ \E r \in Surfaced : LogEvent(p, r) \/ CountEvent(p, r)
  BY <1>8, <1>1, ColumnNames, CommitDoes, LogEventDoes, CountEventDoes
  DEF Alters, StagesOf, ColumnsOf, Serving
<1>9. CASE \E m \in Ids : Insert(p, m) \/ \E c \in db.cands : Merge(p, c, m)
  BY <1>9, <1>1, ColumnNames, InsertDoes, MergeDoes
  DEF Alters, StagesOf, ColumnsOf, Serving
<1>10. CASE DropIndex(p)
  BY <1>10, DropIndexDoes DEF Fine, IndexFine
<1>11. CASE CreateIndex(p)
  <2>1. "index" \in proc'[p].open /\ proc'[p].pc = "clear_index"
    BY <1>11, CreateIndexDoes DEF Turns, Opening, Placed, Place, InPlace, OutOfTransaction
  <2> QED
    BY <2>1 DEF Fine, IndexFine, ClearsIndex
<1>12. CASE ClearIndex(p)
  BY <1>12, ClearIndexDoes DEF Fine, IndexFine, ClearsIndex, Turns
<1>13. CASE ReadMessages(p)
  <2>1. db'.messages = db.messages /\ proc'[p].seen = db.messages /\ proc'[p].pc = "fill_index"
    BY <1>13, ReadMessagesDoes, ColumnNames DEF Turns, Alters
  <2>2. \A m \in db'.messages : Fills(proc'[p]) /\ m \in proc'[p].seen
    BY <2>1 DEF Fills
  <2> QED
    BY <2>2 DEF Fine, IndexFine
<1>14. CASE FillIndex(p)
  <2>1. /\ db'.messages = db.messages /\ db'.found = db.found \cup proc[p].seen
        /\ db'.index = db.index /\ db'.torn = db.torn /\ ~ClearsIndex(proc[p])
    BY <1>14, FillIndexDoes, ColumnNames DEF Alters, ClearsIndex
  <2> QED
    BY <1>0, <2>1 DEF IndexFine, Fine
<1>15. CASE InsertEntry(p)
  <2>1. /\ db'.messages = db.messages /\ db'.found = db.found \cup proc[p].seen
        /\ db'.index = db.index /\ db'.torn = db.torn /\ ~ClearsIndex(proc[p])
    BY <1>15, InsertEntryDoes, ColumnNames DEF Alters, ClearsIndex
  <2> QED
    BY <1>0, <2>1 DEF IndexFine, Fine
<1>16. CASE InsertMessage(p)
  <2>1. PICK m \in Ids \ db.messages :
          /\ db'.messages = db.messages \cup {m}
          /\ proc'[p].pc = "entry" /\ proc'[p].seen = {m}
    BY <1>16, InsertMessageDoes DEF Turns
  <2>2. /\ db'.found = db.found /\ db'.index = db.index /\ db'.torn = db.torn
        /\ proc[p].pc = "row"
    BY <1>16, InsertMessageDoes, ColumnNames DEF Alters
  <2> QED
    BY <1>0, <2>1, <2>2 DEF IndexFine, Fine, ClearsIndex, Fills
<1>17. CASE IngestSource(p)
  <2>1. PICK m \in Ids : db'.messages = db.messages \cup {m} /\ db'.found = db.found \cup {m}
    BY <1>17, IngestSourceDoes
  <2>2. db'.index = db.index /\ db'.torn = db.torn /\ proc' = proc
    BY <1>17, IngestSourceDoes, ColumnNames DEF Alters, Serving
  <2> QED
    BY <1>0, <2>1, <2>2 DEF IndexFine, Fine
<1>18. CASE Import(p)
  BY <1>18, ImportDoes DEF Fine, IndexFine, ClearsIndex, Turns
<1> QED
  BY <1>2, <1>3, <1>4, <1>5, <1>6, <1>7, <1>8, <1>9, <1>10, <1>11, <1>12, <1>13, <1>14,
     <1>15, <1>16, <1>17, <1>18
  DEF WriteStep, DdlStep, DmlStep, WholeStep

LEMMA LedgerStep ==
  ASSUME Transactions, Placed, Sure, MentionsFresh, OneSeen, CountedTyped, NowFine,
         NEW p \in Processes, WriteStep(p)
  PROVE  Fine("ledger", db', proc', Processes, backend)
<1>1. ASSUME proc[p].pc \notin StagesOf("ledger"), \A c \in ColumnsOf("ledger") : db'[c] = db[c],
             "ledger" \in db.torn => "ledger" \in db'.torn
      PROVE  Fine("ledger", db', proc', Processes, backend)
  BY <1>1, FineBeside DEF Parts, Surfaced
<1>0. LedgerFine(db, proc, Processes) /\ \A q \in Processes \ {p} : proc'[q] = proc[q]
  BY WriteSteps DEF NowFine, Parts, Fine, Steps
<1>2. CASE EnsureMessages(p) \/ DropIndex(p) \/ CreateIndex(p)
  BY <1>2, <1>1, ColumnNames, EnsureMessagesDoes, DropIndexDoes, CreateIndexDoes
  DEF Alters, StagesOf, ColumnsOf, Serving
<1>3. CASE EnsureColumns(p) \/ CreateShadow(p) \/ CreateTriggers(p)
  BY <1>3, <1>1, ColumnNames, EnsureColumnsDoes, CreateShadowDoes, CreateTriggersDoes
  DEF Alters, StagesOf, ColumnsOf, Serving
<1>4. CASE CreateUnique(p) \/ ClearIndex(p) \/ FillIndex(p)
  BY <1>4, <1>1, ColumnNames, CreateUniqueDoes, ClearIndexDoes, FillIndexDoes
  DEF Alters, StagesOf, ColumnsOf, Serving
<1>5. CASE FillLastSeen(p) \/ Backfill(p) \/ RebuildShadow(p)
  BY <1>5, <1>1, ColumnNames, FillLastSeenDoes, BackfillDoes, RebuildShadowDoes
  DEF Alters, StagesOf, ColumnsOf, Serving
<1>6. CASE Recount(p) \/ EnsureRest(p) \/ InsertMeta(p)
  BY <1>6, <1>1, ColumnNames, RecountDoes, EnsureRestDoes, InsertMetaDoes
  DEF Alters, StagesOf, ColumnsOf, Serving
<1>7. CASE InsertMessage(p) \/ InsertEntry(p) \/ ReadMessages(p)
  BY <1>7, <1>1, ColumnNames, InsertMessageDoes, InsertEntryDoes, ReadMessagesDoes
  DEF Alters, StagesOf, ColumnsOf, Serving
<1>8. CASE Promote(p)
  BY <1>8, <1>1, ColumnNames, PromoteDoes
  DEF Alters, StagesOf, ColumnsOf, Serving
<1>9. CASE Commit(p) \/ \E r \in Surfaced : LogEvent(p, r) \/ CountEvent(p, r)
  BY <1>9, <1>1, ColumnNames, CommitDoes, LogEventDoes, CountEventDoes
  DEF Alters, StagesOf, ColumnsOf, Serving
<1>10. CASE \E m \in Ids : Insert(p, m) \/ \E c \in db.cands : Merge(p, c, m)
  BY <1>10, <1>1, ColumnNames, InsertDoes, MergeDoes
  DEF Alters, StagesOf, ColumnsOf, Serving
<1>11. CASE EnsureLedger(p)
  <2>1. /\ db'.keyed = db.keyed /\ db'.keys = db.keys /\ db'.old = db.old /\ db'.torn = db.torn
        /\ db'.ledger # "none" /\ ~Moves(proc[p])
    BY <1>11, EnsureLedgerDoes, ColumnNames DEF Alters, Moves
  <2> QED
    BY <1>0, <2>1 DEF LedgerFine, Fine
<1>12. CASE RenameLedger(p)
  <2>1. /\ db'.keyed = db.keyed /\ db'.old = db.keys /\ db'.torn = db.torn
        /\ ~db.renamed /\ proc'[p].pc = "create_ledger"
    BY <1>12, RenameLedgerDoes, ColumnNames DEF Alters, Turns
  <2>2. \A q \in Processes : ~Moves(proc[q])
    BY <2>1 DEF Placed, Place, ThereFor, Migrates
  <2>3. "ledger" \in db.torn \/ db'.keyed \subseteq db'.keys \cup db'.old
    BY <1>0, <2>1, <2>2 DEF LedgerFine
  <2> QED
    BY <2>1, <2>3 DEF LedgerFine, Fine, Moves
<1>13. CASE CreateLedger(p)
  <2>1. /\ db'.keyed = db.keyed /\ db'.keys = db.keys /\ db'.old = db.old /\ db'.torn = db.torn
        /\ db'.ledger # "none" /\ Moves(proc'[p])
    BY <1>13, CreateLedgerDoes, ColumnNames DEF Alters, Moves, Turns
  <2> QED
    BY <1>0, <2>1 DEF LedgerFine, Fine
<1>14. CASE CopyLedger(p)
  <2>1. /\ db'.keyed = db.keyed /\ db'.keys = db.keys \cup db.old /\ db'.torn = db.torn
        /\ db'.ledger # "none"
    BY <1>14, CopyLedgerDoes, ColumnNames DEF Alters
  <2> QED
    BY <1>0, <2>1 DEF LedgerFine, Fine
<1>15. CASE DropLedger(p)
  <2>1. /\ db'.keyed = db.keyed /\ db'.keys = db.keys /\ db'.torn = db.torn
        /\ db'.renamed = FALSE /\ proc[p].pc = "drop_ledger"
    BY <1>15, DropLedgerDoes, ColumnNames DEF Alters
  <2>2. \A q \in Processes : ~Moves(proc[q])
    BY <2>1 DEF Placed, Migrates, Moves
  <2> QED
    BY <1>0, <2>1, <2>2 DEF LedgerFine, Fine
<1>16. CASE IngestSource(p)
  <2>1. PICK m \in Ids : db'.keyed = db.keyed \cup {m} /\ db'.keys = db.keys \cup {m}
    BY <1>16, IngestSourceDoes
  <2>2. db'.ledger # "none" /\ db'.old = db.old /\ db'.torn = db.torn /\ proc' = proc
    BY <1>16, IngestSourceDoes, ColumnNames DEF Alters, Serving
  <2> QED
    BY <1>0, <2>1, <2>2 DEF LedgerFine, Fine
<1>17. CASE Import(p)
  <2>1. /\ db.keys \subseteq Artifact.keys /\ db'.keys = Artifact.keys
        /\ db'.keyed = db.keyed \cup Artifact.keys
        /\ db'.ledger # "none" /\ db'.old = db.old /\ db'.torn = db.torn /\ ~Moves(proc[p])
    BY <1>17, ImportDoes, ColumnNames DEF Alters, Moves
  <2> QED
    BY <1>0, <2>1 DEF LedgerFine, Fine
<1> QED
  BY <1>2, <1>3, <1>4, <1>5, <1>6, <1>7, <1>8, <1>9, <1>10, <1>11, <1>12, <1>13, <1>14,
     <1>15, <1>16, <1>17
  DEF WriteStep, DdlStep, DmlStep, WholeStep

\* The backfill changes no candidate's id.
LEMMA DatedByIds ==
  ASSUME NEW cands, cands \subseteq CandidateRows, NEW read
  PROVE  {c.id : c \in DatedBy(cands, read)} = {c.id : c \in cands}
<1> DEFINE Day(c) == IF c.mentioned = Undated /\ \E r \in read : r.id = c.id
                       THEN [c EXCEPT !.mentioned = Earliest((CHOOSE r \in read : r.id = c.id).sources)]
                       ELSE c
<1>1. DatedBy(cands, read) = {Day(c) : c \in cands}
  BY DEF DatedBy
<1>2. \A c \in cands : Day(c).id = c.id
  BY DEF CandidateRows
<1> HIDE DEF Day
<1> QED
  BY <1>1, <1>2

\* Whoever rebuilds the shadow knows that its triggers are there.
LEMMA RebuildersKnowTriggers ==
  ASSUME Transactions, Placed, Sure, NEW p \in Processes, RebuildShadow(p)
  PROVE  db.triggers
<1>1. Sees(p) = db /\ proc[p].pc = "rebuild_shadow"
  BY RebuildShadowDoes DEF MayWrite, Sees, Transactions
<1>2. CASE proc[p].job = "init"
  BY <1>1, <1>2 DEF Sure, Reached, PastTriggers
<1>3. CASE proc[p].job # "init"
  BY <1>1, <1>3 DEF Placed, Place, InPlace, Sure, Remembers, Initialised, Onward
<1> QED
  BY <1>2, <1>3

LEMMA ShadowStep ==
  ASSUME Transactions, Placed, Sure, MentionsFresh, OneSeen, CountedTyped, NowFine,
         NEW p \in Processes, WriteStep(p)
  PROVE  Fine("shadow", db', proc', Processes, backend)
<1>1. ASSUME proc[p].pc \notin StagesOf("shadow"), \A c \in ColumnsOf("shadow") : db'[c] = db[c],
             "shadow" \in db.torn => "shadow" \in db'.torn
      PROVE  Fine("shadow", db', proc', Processes, backend)
  BY <1>1, FineBeside DEF Parts, Surfaced
<1>0. ShadowFine(db, proc, Processes, backend) /\ \A q \in Processes \ {p} : proc'[q] = proc[q]
  BY WriteSteps DEF NowFine, Parts, Fine, Steps
<1>2. CASE EnsureMessages(p) \/ DropIndex(p) \/ CreateIndex(p)
  BY <1>2, <1>1, ColumnNames, EnsureMessagesDoes, DropIndexDoes, CreateIndexDoes
  DEF Alters, StagesOf, ColumnsOf, Serving
<1>3. CASE EnsureLedger(p) \/ RenameLedger(p) \/ CreateLedger(p)
  BY <1>3, <1>1, ColumnNames, EnsureLedgerDoes, RenameLedgerDoes, CreateLedgerDoes
  DEF Alters, StagesOf, ColumnsOf, Serving
<1>4. CASE DropLedger(p) \/ EnsureColumns(p) \/ CreateUnique(p)
  BY <1>4, <1>1, ColumnNames, DropLedgerDoes, EnsureColumnsDoes, CreateUniqueDoes
  DEF Alters, StagesOf, ColumnsOf, Serving
<1>5. CASE ClearIndex(p) \/ FillIndex(p) \/ CopyLedger(p)
  BY <1>5, <1>1, ColumnNames, ClearIndexDoes, FillIndexDoes, CopyLedgerDoes
  DEF Alters, StagesOf, ColumnsOf, Serving
<1>6. CASE FillLastSeen(p) \/ Recount(p) \/ EnsureRest(p)
  BY <1>6, <1>1, ColumnNames, FillLastSeenDoes, RecountDoes, EnsureRestDoes
  DEF Alters, StagesOf, ColumnsOf, Serving
<1>7. CASE InsertMeta(p) \/ InsertMessage(p) \/ InsertEntry(p)
  BY <1>7, <1>1, ColumnNames, InsertMetaDoes, InsertMessageDoes, InsertEntryDoes
  DEF Alters, StagesOf, ColumnsOf, Serving
<1>8. CASE ReadMessages(p) \/ IngestSource(p) \/ Promote(p)
  BY <1>8, <1>1, ColumnNames, ReadMessagesDoes, IngestSourceDoes, PromoteDoes
  DEF Alters, StagesOf, ColumnsOf, Serving
<1>9. CASE Commit(p) \/ \E r \in Surfaced : LogEvent(p, r) \/ CountEvent(p, r)
  BY <1>9, <1>1, ColumnNames, CommitDoes, LogEventDoes, CountEventDoes
  DEF Alters, StagesOf, ColumnsOf, Serving
<1>10. CASE CreateShadow(p)
  <2>1. /\ db'.triggers = db.triggers /\ db'.shadowed = db.shadowed /\ db'.torn = db.torn
        /\ CandidateIds(db') = CandidateIds(db)
    BY <1>10, CreateShadowDoes, ColumnNames DEF Alters, CandidateIds
  <2>2. CASE db.shadow
    <3>1. ~Builds(proc[p], backend)
      BY <1>10, CreateShadowDoes, ContributorsStages DEF Sure, Contributes, StagesOf, Parts
    <3> QED
      BY <1>0, <2>1, <2>2, <3>1 DEF ShadowFine, Fine
  <2>3. CASE ~db.shadow
    <3>1. Sees(p) = db /\ proc[p].pc = "create_shadow" /\ proc'[p].pc = "triggers"
      BY <1>10, CreateShadowDoes DEF MayWrite, Sees, Transactions, Turns
    <3>2. proc[p].fresh /\ proc'[p].fresh
      BY <1>10, <2>3, <3>1, CreateShadowDoes DEF Sure, Looked, Turns
    <3>3. CASE backend = "sqlite"
      BY <3>1, <3>2, <3>3 DEF Builds, ShadowFine, Fine
    <3>4. CASE backend = "libsql"
      <4>1. writer # p
        BY <3>4, SchemaAssumption DEF Transactions
      <4>2. proc'[p].open = proc[p].open \cup {"shadow"}
        BY <1>10, <2>3, <4>1, CreateShadowDoes DEF Turns, Opening
      <4> QED
        BY <4>2 DEF Builds, ShadowFine, Fine
    <3> QED
      BY <3>3, <3>4 DEF Transactions
  <2> QED
    BY <2>2, <2>3
<1>11. CASE CreateTriggers(p)
  <2>1. /\ db'.shadowed = db.shadowed /\ db'.torn = db.torn /\ db'.shadow = db.shadow
        /\ CandidateIds(db') = CandidateIds(db) /\ db'.triggers
    BY <1>11, CreateTriggersDoes, ColumnNames DEF Alters, CandidateIds
  <2>2. /\ proc[p].pc = "triggers" /\ proc'[p].open = proc[p].open /\ proc'[p].fresh = proc[p].fresh
        /\ proc[p].fresh => proc'[p].pc = "rebuild_shadow"
    BY <1>11, CreateTriggersDoes DEF Turns
  <2>3. Builds(proc[p], backend) => Builds(proc'[p], backend)
    BY <2>2 DEF Builds
  <2> QED
    BY <1>0, <2>1, <2>3 DEF ShadowFine, Fine
<1>12. CASE RebuildShadow(p)
  <2>1. db'.shadowed = CandidateIds(db) /\ CandidateIds(db') = CandidateIds(db) /\ db'.triggers
    BY <1>12, RebuildShadowDoes, RebuildersKnowTriggers, ColumnNames DEF Alters, CandidateIds
  <2> QED
    BY <2>1 DEF ShadowFine, Fine
<1>13. CASE Backfill(p)
  <2>1. /\ db'.shadowed = db.shadowed /\ db'.torn = db.torn /\ db'.shadow = db.shadow
        /\ db'.triggers = db.triggers /\ proc[p].pc = "backfill"
    BY <1>13, BackfillDoes, ColumnNames DEF Alters
  <2>2. CandidateIds(db') = CandidateIds(db)
    <3>1. db'.cands = DatedBy(db.cands, proc[p].seen)
      BY <1>13, BackfillDoes
    <3>2. {c.id : c \in DatedBy(db.cands, proc[p].seen)} = {c.id : c \in db.cands}
      <4>1. PICK cands, read : cands = db.cands /\ read = proc[p].seen
        OBVIOUS
      <4>2. cands \subseteq CandidateRows
        BY <4>1 DEF MentionsFresh, CandsFresh
      <4> QED
        BY <4>1, <4>2, DatedByIds
    <3> QED
      BY <3>1, <3>2 DEF CandidateIds
  <2>3. ~Builds(proc[p], backend)
    BY <2>1, ContributorsStages DEF Sure, Contributes, StagesOf, Parts
  <2> QED
    BY <1>0, <2>1, <2>2, <2>3 DEF ShadowFine, Fine
<1>14. CASE Import(p)
  <2>1. /\ db'.shadowed = db.shadowed \cup (CandidateIds(Artifact) \ CandidateIds(db))
        /\ db'.torn = db.torn /\ db'.shadow = db.shadow
        /\ db'.triggers = db.triggers /\ proc[p].pc = "insert"
    BY <1>14, ImportDoes, ColumnNames DEF Alters
  <2>2. CandidateIds(db') \subseteq CandidateIds(db) \cup (CandidateIds(Artifact) \ CandidateIds(db))
    <3>1. db'.cands = DatedBy(Joined(db), Lacking(Joined(db)))
      BY <1>14, ImportDoes
    <3>2. Joined(db) \subseteq CandidateRows
      BY JoinedFresh DEF MentionsFresh, CandsFresh
    <3>3. {c.id : c \in DatedBy(Joined(db), Lacking(Joined(db)))} = {c.id : c \in Joined(db)}
      BY <3>2, DatedByIds
    <3> QED
      BY <3>1, <3>3 DEF CandidateIds, Joined
  <2>3. ~Builds(proc[p], backend)
    BY <2>1, ContributorsStages DEF Sure, Contributes, StagesOf, Parts
  <2> QED
    BY <1>0, <2>1, <2>2, <2>3 DEF ShadowFine, Fine
<1>15. CASE \E m \in Ids : Insert(p, m)
  <2>1. PICK m \in Ids : Insert(p, m)
    BY <1>15
  <2>2. PICK new : new = Candidate(m, {m}, Date[m])
    OBVIOUS
  <2>3. db'.cands = db.cands \cup {new} /\ new.id = m
    BY <2>1, <2>2, InsertDoes DEF Candidate
  <2>4. CandidateIds(db') = CandidateIds(db) \cup {m}
    BY <2>3 DEF CandidateIds
  <2>5. /\ db'.shadowed = IF db.triggers THEN db.shadowed \cup {m} ELSE db.shadowed
        /\ db'.torn = db.torn /\ db'.shadow = db.shadow /\ db'.triggers = db.triggers
        /\ proc' = proc
    BY <2>1, InsertDoes, ColumnNames DEF Alters, Serving
  <2> QED
    BY <1>0, <2>4, <2>5 DEF ShadowFine, Fine
<1>16. CASE \E m \in Ids : \E c \in db.cands : Merge(p, c, m)
  <2>1. PICK m \in Ids, c \in db.cands : Merge(p, c, m)
    BY <1>16
  <2>2. PICK new : new = Candidate(c.id, c.sources \cup {m}, Earliest(c.sources \cup {m}))
    OBVIOUS
  <2>3. db'.cands = (db.cands \ {c}) \cup {new} /\ new.id = c.id
    BY <2>1, <2>2, MergeDoes DEF Candidate
  <2>4. CandidateIds(db') \subseteq CandidateIds(db)
    BY <2>3 DEF CandidateIds
  <2>5. /\ db'.shadowed = db.shadowed /\ db'.torn = db.torn /\ db'.shadow = db.shadow
        /\ db'.triggers = db.triggers /\ proc' = proc
    BY <2>1, MergeDoes, ColumnNames DEF Alters, Serving
  <2> QED
    BY <1>0, <2>4, <2>5 DEF ShadowFine, Fine
<1> QED
  BY <1>2, <1>3, <1>4, <1>5, <1>6, <1>7, <1>8, <1>9, <1>10, <1>11, <1>12, <1>13, <1>14,
     <1>15, <1>16
  DEF WriteStep, DdlStep, DmlStep, WholeStep

\* With counters of naturals.
LEMMA CountsTyped ==
  ASSUME CountersTyped(db), NEW r \in Surfaced, NEW P, IsFiniteSet(P), NEW f
  PROVE  /\ db.events[r] \in Nat /\ db.count[r] \in Nat /\ db.inherited \in Nat
         /\ IsFiniteSet(Counting(f, P, r)) /\ Cardinality(Counting(f, P, r)) \in Nat
<1>1. Counting(f, P, r) \subseteq P
  BY DEF Counting
<1>2. IsFiniteSet(Counting(f, P, r))
  BY <1>1, FS_Subset
<1> QED
  BY <1>2, FS_CardinalityType DEF CountersTyped

LEMMA ArithmeticOfLog ==
  ASSUME NEW n \in Nat, NEW c \in Nat, NEW e \in Nat, NEW i \in Nat, c + n \in {e, e + i}
  PROVE  c + (n + 1) \in {e + 1, e + 1 + i}
OBVIOUS

LEMMA ArithmeticOfCount ==
  ASSUME NEW n \in Nat, NEW c \in Nat, NEW e \in Nat, NEW i \in Nat, n # 0, c + n \in {e, e + i}
  PROVE  (c + 1) + (n - 1) \in {e, e + i}
OBVIOUS

LEMMA CounterParts ==
  ASSUME NEW r \in Surfaced
  PROVE  /\ r \in Parts /\ StagesOf(r) = {"count"} /\ ColumnsOf(r) = {"count", "events", "inherited"}
         /\ \A d, f, P, b : Fine(r, d, f, P, b) <=> CounterFine(d, f, P, r)
BY DEF Parts, Surfaced, StagesOf, ColumnsOf, Fine

LEMMA CountersStep ==
  ASSUME Transactions, Placed, Sure, MentionsFresh, OneSeen, CountedTyped, NowFine,
         NEW p \in Processes, WriteStep(p), NEW x \in Surfaced
  PROVE  Fine(x, db', proc', Processes, backend)
<1>1. ASSUME proc[p].pc # "count", proc'[p].pc # "count", x \in db.torn => x \in db'.torn,
             db'.count = db.count, db'.events = db.events, db'.inherited = db.inherited
      PROVE  Fine(x, db', proc', Processes, backend)
  <2>1. \A c \in ColumnsOf(x) : db'[c] = db[c]
    BY <1>1, CounterParts
  <2> QED
    BY <1>1, <2>1, FineBeside, CounterParts
<1>0. CounterFine(db, proc, Processes, x) /\ \A q \in Processes \ {p} : proc'[q] = proc[q]
  BY WriteSteps, CounterParts DEF NowFine, Steps
<1>2. CASE EnsureMessages(p) \/ DropIndex(p) \/ CreateIndex(p)
  BY <1>2, <1>1, ColumnNames, EnsureMessagesDoes, DropIndexDoes, CreateIndexDoes
  DEF Alters, Serving, Turns
<1>3. CASE EnsureLedger(p) \/ RenameLedger(p) \/ CreateLedger(p)
  <2>1. CASE EnsureLedger(p)
    BY <2>1, <1>1, ColumnNames, EnsureLedgerDoes
    DEF Alters, Serving, Turns
  <2>2. CASE RenameLedger(p)
    BY <2>2, <1>1, ColumnNames, RenameLedgerDoes
    DEF Alters, Serving, Turns
  <2>3. CASE CreateLedger(p)
    BY <2>3, <1>1, ColumnNames, CreateLedgerDoes
    DEF Alters, Serving, Turns
  <2> QED
    BY <1>3, <2>1, <2>2, <2>3
<1>4. CASE DropLedger(p) \/ EnsureColumns(p) \/ CreateShadow(p)
  <2>1. CASE DropLedger(p)
    BY <2>1, <1>1, ColumnNames, DropLedgerDoes
    DEF Alters, Serving, Turns
  <2>2. CASE EnsureColumns(p)
    BY <2>2, <1>1, ColumnNames, EnsureColumnsDoes
    DEF Alters, Serving, Turns
  <2>3. CASE CreateShadow(p)
    BY <2>3, <1>1, ColumnNames, CreateShadowDoes
    DEF Alters, Serving, Turns
  <2> QED
    BY <1>4, <2>1, <2>2, <2>3
<1>5. CASE CreateTriggers(p) \/ CreateUnique(p) \/ ClearIndex(p)
  <2>1. CASE CreateTriggers(p)
    BY <2>1, <1>1, ColumnNames, CreateTriggersDoes
    DEF Alters, Serving, Turns
  <2>2. CASE CreateUnique(p)
    BY <2>2, <1>1, ColumnNames, CreateUniqueDoes
    DEF Alters, Serving, Turns
  <2>3. CASE ClearIndex(p)
    BY <2>3, <1>1, ColumnNames, ClearIndexDoes
    DEF Alters, Serving, Turns
  <2> QED
    BY <1>5, <2>1, <2>2, <2>3
<1>6. CASE FillIndex(p) \/ CopyLedger(p) \/ FillLastSeen(p)
  <2>1. CASE FillIndex(p)
    BY <2>1, <1>1, ColumnNames, FillIndexDoes
    DEF Alters, Serving, Turns
  <2>2. CASE CopyLedger(p)
    BY <2>2, <1>1, ColumnNames, CopyLedgerDoes
    DEF Alters, Serving, Turns
  <2>3. CASE FillLastSeen(p)
    BY <2>3, <1>1, ColumnNames, FillLastSeenDoes
    DEF Alters, Serving, Turns
  <2> QED
    BY <1>6, <2>1, <2>2, <2>3
<1>7. CASE Backfill(p) \/ RebuildShadow(p) \/ EnsureRest(p)
  <2>1. CASE Backfill(p)
    BY <2>1, <1>1, ColumnNames, BackfillDoes DEF Alters, Serving, Turns
  <2>2. CASE RebuildShadow(p)
    BY <2>2, <1>1, ColumnNames, RebuildShadowDoes
    DEF Alters, Serving, Turns, Surfaced
  <2>3. CASE EnsureRest(p)
    BY <2>3, <1>1, ColumnNames, EnsureRestDoes
    DEF Alters, Serving, Turns
  <2> QED
    BY <1>7, <2>1, <2>2, <2>3
<1>8. CASE InsertMeta(p) \/ InsertMessage(p) \/ InsertEntry(p)
  <2>1. CASE InsertMeta(p) \/ InsertEntry(p)
    <3>1. CASE InsertMeta(p)
      BY <3>1, <1>1, ColumnNames, InsertMetaDoes
      DEF Alters, Serving, Turns
    <3>2. CASE InsertEntry(p)
      BY <3>2, <1>1, ColumnNames, InsertEntryDoes
      DEF Alters, Serving, Turns
    <3> QED
      BY <2>1, <3>1, <3>2
  <2>2. CASE InsertMessage(p)
    <3>1. proc[p].pc = "row" /\ proc'[p].pc = "entry" /\ Alters({"messages"})
      BY <2>2, InsertMessageDoes DEF Turns
    <3> QED
      BY <1>1, <3>1, ColumnNames DEF Alters
  <2> QED
    BY <1>8, <2>1, <2>2
<1>9. CASE ReadMessages(p) \/ Import(p) \/ IngestSource(p)
  <2>1. CASE ReadMessages(p)
    BY <2>1, <1>1, ColumnNames, ReadMessagesDoes DEF Alters, Turns, Surfaced
  <2>2. CASE Import(p)
    BY <2>2, <1>1, ColumnNames, ImportDoes DEF Alters, Turns
  <2>3. CASE IngestSource(p)
    BY <2>3, <1>1, ColumnNames, IngestSourceDoes DEF Alters, Serving
  <2> QED
    BY <1>9, <2>1, <2>2, <2>3
<1>10. CASE Commit(p)
  BY <1>10, <1>1, ColumnNames, CommitDoes
  DEF Alters, Serving
<1>11. CASE \E m \in Ids : Insert(p, m) \/ \E c \in db.cands : Merge(p, c, m)
  BY <1>11, <1>1, ColumnNames, InsertDoes, MergeDoes
  DEF Alters, Serving
<1>12. CASE \E r \in Surfaced : LogEvent(p, r)
  <2>1. PICK r \in Surfaced : LogEvent(p, r)
    BY <1>12
  <2>2. /\ proc[p].pc = "event" /\ proc'[p].pc = "count" /\ proc[p].seen = {r}
        /\ proc'[p].seen = {r}
    BY <2>1, LogEventDoes DEF OneSeen, Turns
  <2>3. /\ db'.count = db.count /\ db'.inherited = db.inherited /\ db'.torn = db.torn
        /\ db'.events = [db.events EXCEPT ![r] = @ + 1]
    BY <2>1, LogEventDoes, ColumnNames DEF Alters
  <2>4. ASSUME NEW n, n = Cardinality(Counting(proc, Processes, x)),
               db.count[x] + n \in {db.events[x], db.events[x] + Inherits(db, x)}
        PROVE  db'.count[x] + Cardinality(Counting(proc', Processes, x))
                 \in {db'.events[x], db'.events[x] + Inherits(db', x)}
    <3>1. n \in Nat /\ db.events[x] \in Nat /\ db.count[x] \in Nat /\ Inherits(db, x) \in Nat
      BY <2>4, CountsTyped, SchemaAssumption DEF CountedTyped, Inherits
    <3>4. Inherits(db', x) = Inherits(db, x)
      BY <2>3 DEF Inherits
    <3>2. CASE x = r
      <4>1. /\ Counting(proc', Processes, r) = Counting(proc, Processes, r) \cup {p}
            /\ p \notin Counting(proc, Processes, r)
        BY <1>0, <2>2 DEF Counting
      <4>2. Cardinality(Counting(proc', Processes, r)) = n + 1
        <5>1. IsFiniteSet(Counting(proc, Processes, r))
          BY CountsTyped, SchemaAssumption DEF CountedTyped
        <5>2. PICK counting : counting = Counting(proc, Processes, r)
          OBVIOUS
        <5>3. Cardinality(counting \cup {p}) = Cardinality(counting) + 1
          BY <4>1, <5>1, <5>2, FS_AddElement
        <5> QED
          BY <2>4, <3>2, <4>1, <5>2, <5>3
      <4>3. db'.events[r] = db.events[r] + 1
        BY <2>3 DEF CountedTyped, CountersTyped
      <4> QED
        BY <2>3, <2>4, <3>1, <3>2, <3>4, <4>2, <4>3, ArithmeticOfLog
    <3>3. CASE x # r
      <4>1. Counting(proc', Processes, x) = Counting(proc, Processes, x)
        BY <1>0, <2>2, <3>3 DEF Counting
      <4>2. db'.events[x] = db.events[x]
        BY <2>3, <3>3 DEF CountedTyped, CountersTyped
      <4> QED
        BY <2>3, <2>4, <3>4, <4>1, <4>2
    <3> QED
      BY <3>2, <3>3
  <2> QED
    BY <1>0, <2>3, <2>4, CounterParts DEF CounterFine
<1>13. CASE \E r \in Surfaced : CountEvent(p, r)
  <2>1. PICK r \in Surfaced : CountEvent(p, r)
    BY <1>13
  <2>2. proc[p].pc = "count" /\ proc'[p].pc = "commit" /\ proc[p].seen = {r}
    BY <2>1, CountEventDoes DEF OneSeen, Turns
  <2>3. /\ db'.events = db.events /\ db'.inherited = db.inherited /\ db'.torn = db.torn
        /\ db'.count = [db.count EXCEPT ![r] = @ + 1]
    BY <2>1, CountEventDoes, ColumnNames DEF Alters
  <2>4. ASSUME NEW n, n = Cardinality(Counting(proc, Processes, x)),
               db.count[x] + n \in {db.events[x], db.events[x] + Inherits(db, x)}
        PROVE  db'.count[x] + Cardinality(Counting(proc', Processes, x))
                 \in {db'.events[x], db'.events[x] + Inherits(db', x)}
    <3>1. n \in Nat /\ db.events[x] \in Nat /\ db.count[x] \in Nat /\ Inherits(db, x) \in Nat
      BY <2>4, CountsTyped, SchemaAssumption DEF CountedTyped, Inherits
    <3>4. Inherits(db', x) = Inherits(db, x)
      BY <2>3 DEF Inherits
    <3>2. CASE x = r
      <4>1. /\ Counting(proc', Processes, r) = Counting(proc, Processes, r) \ {p}
            /\ p \in Counting(proc, Processes, r)
        BY <1>0, <2>2 DEF Counting
      <4>2. Cardinality(Counting(proc', Processes, r)) = n - 1 /\ n # 0
        <5>1. IsFiniteSet(Counting(proc, Processes, r))
          BY CountsTyped, SchemaAssumption DEF CountedTyped
        <5>2. Cardinality(Counting(proc', Processes, r)) = n - 1
          BY <2>4, <3>2, <4>1, <5>1, FS_RemoveElement
        <5>3. n # 0
          BY <2>4, <3>2, <4>1, <5>1, FS_EmptySet
        <5> QED
          BY <5>2, <5>3
      <4>3. db'.count[r] = db.count[r] + 1
        BY <2>3 DEF CountedTyped, CountersTyped
      <4> QED
        BY <2>3, <2>4, <3>1, <3>2, <3>4, <4>2, <4>3, ArithmeticOfCount
    <3>3. CASE x # r
      <4>1. Counting(proc', Processes, x) = Counting(proc, Processes, x)
        BY <1>0, <2>2, <3>3 DEF Counting
      <4>2. db'.count[x] = db.count[x]
        BY <2>3, <3>3 DEF CountedTyped, CountersTyped
      <4> QED
        BY <2>3, <2>4, <3>4, <4>1, <4>2
    <3> QED
      BY <3>2, <3>3
  <2> QED
    BY <1>0, <2>3, <2>4, CounterParts DEF CounterFine
<1>14. CASE Recount(p)
  <2>1. /\ db'.events = db.events /\ db'.inherited = db.inherited
        /\ proc[p].pc # "count" /\ proc'[p].pc # "count" /\ MayWrite(p)
    BY <1>14, RecountDoes, ColumnNames DEF Alters
  <2>2. PICK r \in Surfaced :
          /\ db'.count = [db.count EXCEPT ![r] = db.events[r]]
          /\ db'.torn = (db.torn \ {r}) \cup {y \in {r} : \E q \in Processes : r \in proc[q].open}
    BY <1>14, RecountDoes
  <2>3. Counting(proc', Processes, x) = Counting(proc, Processes, x)
    BY <1>0, <2>1 DEF Counting
  <2>4. CASE x # r
    <3>1. db'.count[x] = db.count[x] /\ (x \in db.torn => x \in db'.torn)
      BY <2>2, <2>4 DEF CountedTyped, CountersTyped
    <3>2. Inherits(db', x) = Inherits(db, x)
      BY <2>1 DEF Inherits
    <3> QED
      BY <1>0, <2>1, <2>3, <3>1, <3>2, CounterParts DEF CounterFine
  <2>5. CASE x = r /\ \E q \in Processes : r \in proc[q].open
    <3>1. x \in db'.torn
      BY <2>2, <2>5
    <3> QED
      BY <3>1, CounterParts DEF CounterFine
  <2>6. CASE x = r /\ ~\E q \in Processes : r \in proc[q].open
    <3>1. ASSUME NEW q \in Processes
          PROVE  ~(proc[q].pc = "count" /\ x \in proc[q].seen)
      BY <2>1, <2>6, SchemaAssumption DEF Placed, Place, OpenAt, MayWrite, Surfaced
    <3>2. Counting(proc', Processes, x) = {}
      BY <2>3, <3>1 DEF Counting
    <3>3. db'.count[x] = db.events[x] /\ db.events[x] + 0 = db.events[x]
      BY <2>2, <2>6 DEF CountedTyped, CountersTyped
    <3> QED
      BY <2>1, <3>2, <3>3, FS_EmptySet, CounterParts DEF CounterFine
  <2> QED
    BY <2>4, <2>5, <2>6
<1>15. CASE Promote(p)
  <2>1. /\ writer = Nobody /\ ~db.fact /\ proc' = proc
        /\ db'.events = db.events /\ db'.inherited = db.count["candidate"] /\ db'.torn = db.torn
        /\ db'.count = [db.count EXCEPT !["fact"] = db.count["candidate"]]
    BY <1>15, PromoteDoes, ColumnNames DEF Alters, Serving
  <2>2. /\ db.events["fact"] = 0
        /\ db'.count["fact"] = db.count["candidate"]
        /\ db'.count["candidate"] = db.count["candidate"]
        /\ db.count["candidate"] \in Nat
    BY <2>1 DEF CountedTyped, CountersTyped, Surfaced
  <2>3. CASE x = "fact"
    <3>1. Counting(proc', Processes, "fact") = {}
      BY <2>1, SchemaAssumption DEF Counting, Sure, Looked, Sees, Transactions
    <3>2. Inherits(db', x) = db.count["candidate"]
      BY <2>1, <2>3 DEF Inherits
    <3>3. db'.count[x] + Cardinality(Counting(proc', Processes, x))
            \in {db'.events[x], db'.events[x] + Inherits(db', x)}
      BY <2>1, <2>2, <2>3, <3>1, <3>2, FS_EmptySet
    <3> QED
      BY <3>3, CounterParts DEF CounterFine
  <2>4. CASE x = "candidate"
    <3>1. Inherits(db', x) = 0 /\ Inherits(db, x) = 0
      BY <2>4 DEF Inherits
    <3> QED
      BY <1>0, <2>1, <2>2, <2>4, <3>1, CounterParts DEF CounterFine
  <2> QED
    BY <2>3, <2>4 DEF Surfaced
<1> QED
  BY <1>2, <1>3, <1>4, <1>5, <1>6, <1>7, <1>8, <1>9, <1>10, <1>11, <1>12, <1>13, <1>14,
     <1>15
  DEF WriteStep, DdlStep, DmlStep, WholeStep

LEMMA NowFineStep ==
  ASSUME Transactions, Placed, Sure, MentionsFresh, OneSeen, CountedTyped, NowFine,
         NEW p \in Processes, WriteStep(p)
  PROVE  NowFine'
<1>1. \A part \in Parts : Fine(part, db', proc', Processes, backend)
  <2>1. \A part \in Surfaced : Fine(part, db', proc', Processes, backend)
    BY CountersStep
  <2> QED
    BY <2>1, IndexStep, LedgerStep, ShadowStep DEF Parts
<1> QED
  BY <1>1, WriteSteps DEF NowFine, Steps

LEMMA CountedTypedStep ==
  ASSUME Transactions, Placed, Sure, CountedTyped, SchemaNext
  PROVE  CountedTyped'
<1>1. ASSUME NEW p \in Processes, WriteStep(p)
      PROVE  CountersTyped(db')
  <2>0. ASSUME db'.events = db.events, db'.count = db.count, db'.inherited = db.inherited,
               db'.fact = db.fact
        PROVE  CountersTyped(db')
    BY <2>0 DEF CountedTyped, CountersTyped
  <2>1. CASE EnsureMessages(p) \/ DropIndex(p) \/ CreateIndex(p) \/ EnsureLedger(p)
    BY <2>1, <2>0, ColumnNames, EnsureMessagesDoes, DropIndexDoes, CreateIndexDoes,
       EnsureLedgerDoes
    DEF Alters
  <2>2. CASE RenameLedger(p) \/ CreateLedger(p) \/ DropLedger(p) \/ EnsureColumns(p)
    BY <2>2, <2>0, ColumnNames, RenameLedgerDoes, CreateLedgerDoes, DropLedgerDoes,
       EnsureColumnsDoes
    DEF Alters
  <2>3. CASE CreateShadow(p) \/ CreateTriggers(p) \/ CreateUnique(p) \/ ClearIndex(p)
    BY <2>3, <2>0, ColumnNames, CreateShadowDoes, CreateTriggersDoes, CreateUniqueDoes,
       ClearIndexDoes
    DEF Alters
  <2>4. CASE FillIndex(p) \/ CopyLedger(p) \/ FillLastSeen(p) \/ Backfill(p)
    BY <2>4, <2>0, ColumnNames, FillIndexDoes, CopyLedgerDoes, FillLastSeenDoes, BackfillDoes
    DEF Alters
  <2>5. CASE RebuildShadow(p) \/ EnsureRest(p) \/ InsertMeta(p) \/ InsertMessage(p)
    BY <2>5, <2>0, ColumnNames, RebuildShadowDoes, EnsureRestDoes, InsertMetaDoes,
       InsertMessageDoes
    DEF Alters
  <2>6. CASE InsertEntry(p) \/ ReadMessages(p) \/ Import(p) \/ IngestSource(p)
    BY <2>6, <2>0, ColumnNames, InsertEntryDoes, ReadMessagesDoes, ImportDoes, IngestSourceDoes
    DEF Alters
  <2>7. CASE Commit(p) \/ \E m \in Ids : Insert(p, m) \/ \E c \in db.cands : Merge(p, c, m)
    BY <2>7, <2>0, ColumnNames, CommitDoes, InsertDoes, MergeDoes DEF Alters
  <2>8. CASE Recount(p)
    <3>1. PICK r \in Surfaced : db'.count = [db.count EXCEPT ![r] = db.events[r]]
      BY <2>8, RecountDoes
    <3>2. db'.count \in [Surfaced -> Nat]
      BY <3>1 DEF CountedTyped, CountersTyped
    <3>3. db'.events = db.events /\ db'.inherited = db.inherited /\ db'.fact = db.fact
      BY <2>8, RecountDoes, ColumnNames DEF Alters
    <3> QED
      BY <3>2, <3>3 DEF CountedTyped, CountersTyped
  <2>9. CASE Promote(p)
    BY <2>9, PromoteDoes, ColumnNames DEF Alters, CountedTyped, CountersTyped, Surfaced
  <2>10. CASE \E r \in Surfaced : LogEvent(p, r)
    <3>1. PICK r \in Surfaced : LogEvent(p, r)
      BY <2>10
    <3>2. r = "fact" => db.fact
      BY <3>1, LogEventDoes DEF Sure, Looked, MayWrite, Sees, Transactions
    <3>3. /\ db'.events = [db.events EXCEPT ![r] = @ + 1] /\ db'.count = db.count
          /\ db'.inherited = db.inherited /\ db'.fact = db.fact
      BY <3>1, LogEventDoes, ColumnNames DEF Alters
    <3> QED
      BY <3>2, <3>3 DEF CountedTyped, CountersTyped, Surfaced
  <2>11. CASE \E r \in Surfaced : CountEvent(p, r)
    <3>1. PICK r \in Surfaced : CountEvent(p, r)
      BY <2>11
    <3>2. /\ db'.count = [db.count EXCEPT ![r] = @ + 1] /\ db'.events = db.events
          /\ db'.inherited = db.inherited /\ db'.fact = db.fact
      BY <3>1, CountEventDoes, ColumnNames DEF Alters
    <3> QED
      BY <3>2 DEF CountedTyped, CountersTyped
  <2> QED
    BY <1>1, <2>1, <2>2, <2>3, <2>4, <2>5, <2>6, <2>7, <2>8, <2>9, <2>10, <2>11
    DEF WriteStep, DdlStep, DmlStep, WholeStep
<1>2. ASSUME NEW p \in Processes, WriteStep(p)
      PROVE  CountedTyped'
  BY <1>1, <1>2, WriteSteps, WriterSees DEF CountedTyped
<1>3. ASSUME NEW p \in Processes, ReadStep(p)
      PROVE  CountedTyped'
  BY <1>3, ReadSteps DEF CountedTyped, CountersTyped, Read
<1>4. ASSUME NEW p \in Processes, Break(p)
      PROVE  CountedTyped'
  <2>1. ASSUME NEW d, NEW e, CountersTyped(d), e.events = d.events, e.count = d.count,
               e.inherited = d.inherited, e.fact = d.fact
        PROVE  CountersTyped(e)
    BY <2>1 DEF CountersTyped
  <2>2. /\ disk'.events = disk.events /\ disk'.count = disk.count
        /\ disk'.inherited = disk.inherited /\ disk'.fact = disk.fact
    BY <1>4, BreakDoes, ColumnNames
  <2>3. CASE writer = p
    BY <1>4, <2>1, <2>2, <2>3, BreakDoes, ColumnNames DEF CountedTyped
  <2>4. CASE writer # p
    BY <1>4, <2>1, <2>2, <2>4, BreakDoes, ColumnNames DEF CountedTyped
  <2> QED
    BY <2>3, <2>4
<1>5. CASE RetireTwins
  BY <1>5, RetireDoes, ColumnNames DEF CountedTyped, CountersTyped, Alters
<1> QED
  BY <1>2, <1>3, <1>4, <1>5, StepKinds

\* What only reads has no part in its hands, before or after.
LEMMA ReadersAside ==
  ASSUME Transactions, Placed, Sure, NEW p \in Processes, ReadStep(p), NEW part \in Parts
  PROVE  ~Contributes(part, proc[p], backend) /\ proc'[p].pc # "count" /\ proc'[p].open = proc[p].open
<1>1. /\ proc[p].pc \in {"idle", "look_index", "look_ledger", "read_undated", "look_shadow",
                         "look_unique", "look_meta"}
      /\ proc'[p].pc # "count" /\ proc'[p].open = proc[p].open
  <2> USE DEF Turns, Enters
  <2>1. CASE StartInit(p) \/ StartVectors(p) \/ StartAppend(p) \/ StartRepair(p) \/ StartImport(p)
    BY <2>1, StartsDo
  <2>2. CASE Forget(p) \/ \E r \in Surfaced : Retrieve(p, r)
    BY <2>2, StartsDo, ForgetDoes
  <2>3. CASE LookAtIndex(p) \/ LookAtLedger(p) \/ ReadUndated(p)
    BY <2>3, LookAtIndexDoes, LookAtLedgerDoes, ReadUndatedDoes
  <2>4. CASE LookForShadow(p) \/ LookAtFacts(p) \/ LookAtMeta(p)
    BY <2>4, LookForShadowDoes, LookAtFactsDoes, LookAtMetaDoes
  <2> QED
    BY <2>1, <2>2, <2>3, <2>4 DEF ReadStep
<1>2. proc[p].pc \notin StagesOf(part)
  BY <1>1 DEF StagesOf, Parts
<1> QED
  BY <1>1, <1>2, ContributorsStages DEF Sure

\* Within a transaction what was opened stays so.
LEMMA OpensKept ==
  ASSUME Transactions, Placed, NEW p \in Processes, WriteStep(p), writer' = p
  PROVE  proc[p].open \subseteq proc'[p].open
<1>1. backend = "sqlite" /\ p # Nobody
  BY WriteSteps, SchemaAssumption DEF Writes
<1> USE DEF Turns
<1>2. CASE EnsureMessages(p) \/ DropIndex(p) \/ CreateIndex(p)
  BY <1>2, <1>1, EnsureMessagesDoes, DropIndexDoes, CreateIndexDoes
  DEF Opening, Closing
<1>3. CASE EnsureLedger(p) \/ RenameLedger(p) \/ CreateLedger(p)
  BY <1>3, <1>1, EnsureLedgerDoes, RenameLedgerDoes, CreateLedgerDoes
  DEF Opening, Closing
<1>4. CASE DropLedger(p) \/ EnsureColumns(p) \/ CreateShadow(p)
  BY <1>4, <1>1, DropLedgerDoes, EnsureColumnsDoes, CreateShadowDoes
  DEF Opening, Closing
<1>5. CASE CreateTriggers(p) \/ CreateUnique(p) \/ ClearIndex(p)
  BY <1>5, <1>1, CreateTriggersDoes, CreateUniqueDoes, ClearIndexDoes
  DEF Opening, Closing
<1>6. CASE FillIndex(p) \/ CopyLedger(p) \/ FillLastSeen(p)
  BY <1>6, <1>1, FillIndexDoes, CopyLedgerDoes, FillLastSeenDoes
  DEF Opening, Closing
<1>7. CASE Backfill(p) \/ RebuildShadow(p) \/ Recount(p)
  BY <1>7, <1>1, BackfillDoes, RebuildShadowDoes, RecountDoes
  DEF Opening, Closing
<1>8. CASE EnsureRest(p) \/ InsertMeta(p) \/ InsertMessage(p)
  BY <1>8, <1>1, EnsureRestDoes, InsertMetaDoes, InsertMessageDoes
  DEF Opening, Closing
<1>9. CASE InsertEntry(p) \/ ReadMessages(p)
  BY <1>9, <1>1, InsertEntryDoes, ReadMessagesDoes
  DEF Opening, Closing
<1>10. CASE \E r \in Surfaced : LogEvent(p, r) \/ CountEvent(p, r)
  BY <1>10, <1>1, LogEventDoes, CountEventDoes DEF Closing
<1>11. CASE \/ Commit(p) \/ Import(p) \/ IngestSource(p) \/ Promote(p)
           \/ \E m \in Ids : Insert(p, m) \/ \E c \in db.cands : Merge(p, c, m)
  BY <1>11, <1>1, CommitDoes, ImportDoes, IngestSourceDoes, PromoteDoes, InsertDoes, MergeDoes
  DEF Serving
<1> QED
  BY <1>2, <1>3, <1>4, <1>5, <1>6, <1>7, <1>8, <1>9, <1>10, <1>11
  DEF WriteStep, DdlStep, DmlStep, WholeStep

LEMMA TornFine ==
  ASSUME NEW part \in Parts, NEW d, part \in d.torn, NEW f, NEW P, NEW b
  PROVE  Fine(part, d, f, P, b)
BY DEF Parts, Surfaced, Fine, IndexFine, LedgerFine, ShadowFine, CounterFine

LEMMA PartColumns ==
  \A part \in Parts : ColumnsOf(part) \subseteq Columns \ {"torn", "twins"}
BY ColumnNames DEF Parts, Surfaced, ColumnsOf

LEMMA ReadFine ==
  ASSUME Transactions, Placed, Sure, NowFine, ThenFine, NEW p \in Processes, ReadStep(p)
  PROVE  NowFine' /\ ThenFine'
<1>1. Read /\ \A q \in Processes \ {p} : proc'[q] = proc[q]
  BY ReadSteps DEF Steps
<1>2. PICK f, g : f = proc /\ g = proc'
  OBVIOUS
<1>3. ASSUME NEW part \in Parts, NEW d, NEW P, P \subseteq Processes, Fine(part, d, proc, P, backend)
      PROVE  Fine(part, d, proc', P, backend)
  <2>1. /\ \A q \in P \ {p} : g[q] = f[q]
        /\ ~Contributes(part, f[p], backend)
        /\ part \in Surfaced => ~Contributes(part, g[p], backend)
    BY <1>1, <1>2, <1>3, ReadersAside DEF Contributes, Surfaced
  <2>2. Fine(part, d, g, P, backend)
    BY <1>2, <1>3, <2>1, FineAside
  <2> QED
    BY <1>2, <2>2
<1>4. NowFine'
  BY <1>1, <1>3 DEF NowFine, Read
<1>5. ThenFine'
  <2>1. ASSUME NEW part \in Parts, writer # Nobody, part \notin proc'[writer].open
        PROVE  Fine(part, disk, proc', Processes \ {writer}, backend)
    <3>1. writer \in Processes
      BY <2>1 DEF Transactions
    <3>2. part \notin proc[writer].open
      BY <1>1, <2>1, <3>1, ReadersAside
    <3> QED
      BY <1>3, <2>1, <3>2 DEF ThenFine
  <2> QED
    BY <1>1, <2>1 DEF ThenFine, Read
<1> QED
  BY <1>4, <1>5

LEMMA WriteFine ==
  ASSUME Transactions, Placed, Sure, NowFine, ThenFine, NEW p \in Processes, WriteStep(p)
  PROVE  ThenFine'
<1>1. SUFFICES ASSUME writer' = p, NEW part \in Parts, part \notin proc'[p].open
               PROVE  Fine(part, disk, proc', Processes \ {p}, backend)
  BY WriteSteps DEF ThenFine, Writes, Steps
<1>2. /\ part \notin proc[p].open /\ writer \in {Nobody, p}
      /\ \A q \in Processes \ {p} : proc'[q] = proc[q]
  BY <1>1, OpensKept, WriteSteps DEF Steps, Writes
<1>3. PICK f, g, d : f = proc /\ g = proc' /\ d = disk
  OBVIOUS
<1>4. ASSUME NEW P, Fine(part, d, f, P, backend), P \in {Processes, Processes \ {p}},
             p \in P => ~Contributes(part, f[p], backend)
      PROVE  Fine(part, disk, proc', Processes \ {p}, backend)
  <2>1. Fine(part, d, g, Processes \ {p}, backend)
    BY <1>2, <1>3, <1>4, FineAside
  <2> QED
    BY <1>3, <2>1
<1>5. CASE writer = p
  <2>1. Fine(part, disk, proc, Processes \ {p}, backend)
    BY <1>1, <1>2, <1>5, SchemaAssumption DEF ThenFine
  <2> QED
    BY <1>3, <1>4, <2>1
<1>6. CASE writer = Nobody
  <2>1. Fine(part, disk, proc, Processes, backend)
    BY <1>6 DEF NowFine, Transactions
  <2>2. ~Contributes(part, proc[p], backend)
    BY <1>2, <1>6, ContributorsOpen, SchemaAssumption DEF Transactions
  <2> QED
    BY <1>3, <1>4, <2>1, <2>2
<1> QED
  BY <1>2, <1>5, <1>6

\* A crash leaves undone what the process had open, and what it had not it does
\* not contribute to.
LEMMA BreakFine ==
  ASSUME Transactions, Placed, NowFine, ThenFine, NEW p \in Processes, Break(p)
  PROVE  NowFine' /\ ThenFine'
<1>1. /\ \A q \in Processes \ {p} : proc'[q] = proc[q]
      /\ proc'[p].pc = "idle" /\ backend' = backend
      /\ writer' = IF writer = p THEN Nobody ELSE writer
  BY BreakStep
<1>2. PICK f, g, d, e, v, w : f = proc /\ g = proc' /\ d = db /\ e = db' /\ v = disk /\ w = disk'
  OBVIOUS
<1>3. ASSUME NEW part \in Parts
      PROVE  /\ \A c \in ColumnsOf(part) :
                  w[c] = v[c] /\ e[c] = (IF writer = p THEN v[c] ELSE d[c])
             /\ part \in v.torn => part \in w.torn
             /\ part \in (IF writer = p THEN v.torn ELSE d.torn) => part \in e.torn
             /\ part \in proc[p].open => part \in w.torn /\ part \in e.torn
             /\ part \in Surfaced => ~Contributes(part, g[p], backend)
  BY <1>1, <1>2, BreakDoes, PartColumns DEF Contributes, Surfaced
<1>4. ASSUME NEW part \in Parts, part \notin proc[p].open, writer # p
      PROVE  ~Contributes(part, f[p], backend)
  BY <1>2, <1>4, ContributorsOpen DEF Transactions
<1>5. ASSUME NEW part \in Parts
      PROVE  Fine(part, e, g, Processes, backend)
  <2>1. CASE part \in proc[p].open
    BY <1>3, <2>1, TornFine
  <2>2. CASE part \notin proc[p].open /\ writer = p
    <3>1. Fine(part, v, f, Processes \ {p}, backend)
      BY <1>2, <2>2, SchemaAssumption DEF ThenFine
    <3>2. \A c \in ColumnsOf(part) : e[c] = v[c]
      BY <1>3, <2>2
    <3>3. part \in v.torn => part \in e.torn
      BY <1>3, <2>2
    <3> QED
      BY <1>1, <1>2, <1>3, <3>1, <3>2, <3>3, FineAside
  <2>3. CASE part \notin proc[p].open /\ writer # p
    <3>1. Fine(part, d, f, Processes, backend)
      BY <1>2 DEF NowFine
    <3>2. \A c \in ColumnsOf(part) : e[c] = d[c]
      BY <1>3, <2>3
    <3>3. part \in d.torn => part \in e.torn
      BY <1>3, <2>3
    <3> QED
      BY <1>1, <1>2, <1>3, <1>4, <2>3, <3>1, <3>2, <3>3, FineAside
  <2> QED
    BY <2>1, <2>2, <2>3
<1>6. ASSUME NEW part \in Parts, writer' # Nobody, part \notin proc'[writer'].open
      PROVE  Fine(part, w, g, Processes \ {writer}, backend)
  <2>1. writer # p /\ writer' = writer /\ writer # Nobody /\ writer \in Processes
    BY <1>1, <1>6 DEF Transactions
  <2>2. CASE part \in proc[p].open
    BY <1>3, <2>2, TornFine
  <2>3. CASE part \notin proc[p].open
    <3>1. Fine(part, v, f, Processes \ {writer}, backend)
      BY <1>1, <1>2, <1>6, <2>1 DEF ThenFine
    <3>2. \A c \in ColumnsOf(part) : w[c] = v[c]
      BY <1>3
    <3> QED
      BY <1>1, <1>2, <1>3, <1>4, <2>1, <2>3, <3>1, <3>2, FineAside
  <2> QED
    BY <2>2, <2>3
<1>7. NowFine'
  BY <1>1, <1>2, <1>5 DEF NowFine
<1>8. ThenFine'
  BY <1>1, <1>2, <1>6 DEF ThenFine
<1> QED
  BY <1>7, <1>8

LEMMA RetireFine ==
  ASSUME Transactions, NowFine, RetireTwins
  PROVE  NowFine' /\ ThenFine'
<1>1. /\ writer' = Nobody /\ proc' = proc /\ backend' = backend
      /\ \A c \in Columns \ {"twins"} : db'[c] = db[c]
  BY RetireDoes DEF Alters
<1>2. PICK f, d, e : f = proc /\ d = db /\ e = db'
  OBVIOUS
<1>3. ASSUME NEW part \in Parts
      PROVE  Fine(part, e, f, Processes, backend)
  <2>1. Fine(part, d, f, Processes, backend) /\ Nobody \notin Processes
    BY <1>2, SchemaAssumption DEF NowFine
  <2>2. (\A c \in ColumnsOf(part) : e[c] = d[c]) /\ e.torn = d.torn
    BY <1>1, <1>2, PartColumns, ColumnNames
  <2> QED
    BY <2>1, <2>2, FineAside
<1> QED
  BY <1>1, <1>2, <1>3 DEF NowFine, ThenFine

LEMMA FineStep ==
  ASSUME Transactions, Placed, Sure, MentionsFresh, OneSeen, CountedTyped, NowFine, ThenFine,
         SchemaNext
  PROVE  NowFine' /\ ThenFine'
BY StepKinds, ReadFine, WriteFine, NowFineStep, BreakFine, RetireFine

-------------------------------------------------------------------------------
(* An index that was dropped is there again, or somebody is to create it *)

\* Where no index is, whoever has passed it had before.
LEMMA NeededBefore ==
  ASSUME Transactions, Placed, NEW p \in Processes, ReadStep(p) \/ WriteStep(p),
         db.index = "none", db'.index = "none", Needed'
  PROVE  Needed
<1>1. \A q \in Processes \ {p} : proc'[q] = proc[q]
  BY ReadSteps, WriteSteps DEF Steps
<1>2. InPlace(p)
  BY DEF Placed, Place
<1>3. ASSUME proc'[p].memo # {}
      PROVE  Needed
  <2>1. CASE Commit(p)
    BY <1>2, <2>1, CommitDoes
    DEF Needed, InPlace, PastCreate, PastEnsure, PastLedger, PastColumns,
       PastShadow, PastTriggers, PastUnique
  <2>2. CASE ~Commit(p)
    BY <1>3, <2>2, MemoKept DEF Needed
  <2> QED
    BY <2>1, <2>2
<1>4. ASSUME proc'[p].job = "init", proc'[p].pc \in PastCreate
      PROVE  proc[p].memo # {} \/ (proc[p].job = "init" /\ proc[p].pc \in PastCreate)
  <2>0. Sees(p).index = "none"
    BY DEF Sees, Transactions
  <2> USE DEF Turns, Enters
  <2> USE DEF PastCreate, PastEnsure, PastLedger, PastColumns, PastShadow, PastTriggers, PastUnique
  <2>1. CASE StartInit(p) \/ StartVectors(p) \/ StartAppend(p) \/ StartRepair(p) \/ StartImport(p)
    BY <1>4, <2>1, StartsDo
  <2>2. CASE Forget(p) \/ \E r \in Surfaced : Retrieve(p, r)
    BY <1>4, <2>2, StartsDo, ForgetDoes
  <2>3. CASE LookAtIndex(p)
    BY <1>4, <2>0, <2>3, LookAtIndexDoes
  <2>4. CASE LookAtLedger(p) \/ ReadUndated(p) \/ LookForShadow(p)
    BY <1>4, <2>4, LookAtLedgerDoes, ReadUndatedDoes, LookForShadowDoes
  <2>5. CASE LookAtFacts(p) \/ LookAtMeta(p)
    BY <1>4, <2>5, LookAtFactsDoes, LookAtMetaDoes
  <2>6. CASE EnsureMessages(p) \/ DropIndex(p) \/ CreateIndex(p)
    BY <2>6, <1>4, EnsureMessagesDoes, DropIndexDoes, CreateIndexDoes
    DEF Serving
  <2>7. CASE EnsureLedger(p) \/ RenameLedger(p) \/ CreateLedger(p)
    BY <2>7, <1>4, EnsureLedgerDoes, RenameLedgerDoes, CreateLedgerDoes
    DEF Serving
  <2>8. CASE DropLedger(p) \/ EnsureColumns(p) \/ CreateShadow(p)
    BY <2>8, <1>4, DropLedgerDoes, EnsureColumnsDoes, CreateShadowDoes
    DEF Serving
  <2>9. CASE CreateTriggers(p) \/ CreateUnique(p) \/ ClearIndex(p)
    BY <2>9, <1>4, CreateTriggersDoes, CreateUniqueDoes, ClearIndexDoes
    DEF Serving
  <2>10. CASE FillIndex(p) \/ CopyLedger(p) \/ FillLastSeen(p)
    BY <2>10, <1>4, FillIndexDoes, CopyLedgerDoes, FillLastSeenDoes
    DEF Serving
  <2>11. CASE Backfill(p) \/ RebuildShadow(p) \/ Recount(p)
    BY <2>11, <1>4, BackfillDoes, RebuildShadowDoes, RecountDoes
    DEF Serving
  <2>12. CASE EnsureRest(p) \/ InsertMeta(p) \/ InsertMessage(p)
    <3>1. CASE EnsureRest(p)
      BY <3>1, <1>4, EnsureRestDoes DEF Serving
    <3>2. CASE InsertMeta(p)
      BY <3>2, <1>4, InsertMetaDoes DEF Serving
    <3>3. CASE InsertMessage(p)
      BY <3>3, <1>4, InsertMessageDoes DEF Serving
    <3> QED
      BY <2>12, <3>1, <3>2, <3>3
  <2>13. CASE InsertEntry(p) \/ ReadMessages(p) \/ Import(p)
    BY <2>13, <1>4, InsertEntryDoes, ReadMessagesDoes, ImportDoes
    DEF Serving
  <2>14. CASE IngestSource(p) \/ Promote(p)
    BY <2>14, <1>4, IngestSourceDoes, PromoteDoes
    DEF Serving
  <2>15. CASE Commit(p) \/ \E r \in Surfaced : LogEvent(p, r) \/ CountEvent(p, r)
    BY <2>15, <1>4, CommitDoes, LogEventDoes, CountEventDoes
    DEF Serving
  <2>16. CASE \E m \in Ids : Insert(p, m) \/ \E c \in db.cands : Merge(p, c, m)
    BY <2>16, <1>4, InsertDoes, MergeDoes
    DEF Serving
  <2> QED
    BY <1>2, <2>1, <2>2, <2>3, <2>4, <2>5, <2>6, <2>7, <2>8, <2>9, <2>10, <2>11, <2>12, <2>13,
       <2>14,
       <2>15, <2>16
    DEF ReadStep, WriteStep, DdlStep, DmlStep, WholeStep
<1> QED
  BY <1>1, <1>3, <1>4 DEF Needed

\* What is left undone of the index stays so until the messages are read anew.
LEMMA IndexTornKept ==
  ASSUME Transactions, Placed, NEW p \in Processes, WriteStep(p), ~ReadMessages(p),
         "index" \in db.torn
  PROVE  "index" \in db'.torn
<1>1. CASE EnsureMessages(p) \/ DropIndex(p) \/ CreateIndex(p)
  BY <1>1, ColumnNames, EnsureMessagesDoes, DropIndexDoes, CreateIndexDoes
  DEF Alters
<1>2. CASE EnsureLedger(p) \/ RenameLedger(p) \/ CreateLedger(p)
  BY <1>2, ColumnNames, EnsureLedgerDoes, RenameLedgerDoes, CreateLedgerDoes
  DEF Alters
<1>3. CASE DropLedger(p) \/ EnsureColumns(p) \/ CreateShadow(p)
  BY <1>3, ColumnNames, DropLedgerDoes, EnsureColumnsDoes, CreateShadowDoes
  DEF Alters
<1>4. CASE CreateTriggers(p) \/ CreateUnique(p) \/ ClearIndex(p)
  BY <1>4, ColumnNames, CreateTriggersDoes, CreateUniqueDoes, ClearIndexDoes
  DEF Alters
<1>5. CASE FillIndex(p) \/ CopyLedger(p) \/ FillLastSeen(p)
  BY <1>5, ColumnNames, FillIndexDoes, CopyLedgerDoes, FillLastSeenDoes
  DEF Alters
<1>6. CASE Backfill(p) \/ RebuildShadow(p) \/ Recount(p)
  BY <1>6, ColumnNames, BackfillDoes, RebuildShadowDoes, RecountDoes
  DEF Alters
<1>7. CASE EnsureRest(p) \/ InsertMeta(p) \/ InsertMessage(p)
  BY <1>7, ColumnNames, EnsureRestDoes, InsertMetaDoes, InsertMessageDoes
  DEF Alters
<1>8. CASE InsertEntry(p) \/ Import(p) \/ IngestSource(p)
  BY <1>8, ColumnNames, InsertEntryDoes, ImportDoes, IngestSourceDoes
  DEF Alters
<1>9. CASE Promote(p)
  BY <1>9, ColumnNames, PromoteDoes
  DEF Alters
<1>10. CASE Commit(p) \/ \E r \in Surfaced : LogEvent(p, r) \/ CountEvent(p, r)
  BY <1>10, ColumnNames, CommitDoes, LogEventDoes, CountEventDoes
  DEF Alters
<1>11. CASE \E m \in Ids : Insert(p, m) \/ \E c \in db.cands : Merge(p, c, m)
  BY <1>11, ColumnNames, InsertDoes, MergeDoes
  DEF Alters
<1> QED
  BY <1>1, <1>2, <1>3, <1>4, <1>5, <1>6, <1>7, <1>8, <1>9, <1>10, <1>11
  DEF WriteStep, DdlStep, DmlStep, WholeStep

\* Nothing else drops it.
LEMMA IndexOnlyDropped ==
  ASSUME Transactions, Placed, NEW p \in Processes, ReadStep(p) \/ WriteStep(p), ~DropIndex(p),
         db'.index = "none"
  PROVE  db.index = "none"
<1>1. CASE ReadStep(p)
  BY <1>1, ReadSteps DEF Read
<1>2. CASE WriteStep(p)
  <2>1. CASE EnsureMessages(p) \/ CreateIndex(p) \/ EnsureLedger(p)
    BY <2>1, ColumnNames, EnsureMessagesDoes, CreateIndexDoes, EnsureLedgerDoes
    DEF Alters
  <2>2. CASE RenameLedger(p) \/ CreateLedger(p) \/ DropLedger(p)
    BY <2>2, ColumnNames, RenameLedgerDoes, CreateLedgerDoes, DropLedgerDoes
    DEF Alters
  <2>3. CASE EnsureColumns(p) \/ CreateShadow(p) \/ CreateTriggers(p)
    BY <2>3, ColumnNames, EnsureColumnsDoes, CreateShadowDoes, CreateTriggersDoes
    DEF Alters
  <2>4. CASE CreateUnique(p) \/ ClearIndex(p) \/ FillIndex(p)
    BY <2>4, ColumnNames, CreateUniqueDoes, ClearIndexDoes, FillIndexDoes
    DEF Alters
  <2>5. CASE CopyLedger(p) \/ FillLastSeen(p) \/ Backfill(p)
    BY <2>5, ColumnNames, CopyLedgerDoes, FillLastSeenDoes, BackfillDoes
    DEF Alters
  <2>6. CASE RebuildShadow(p) \/ Recount(p) \/ EnsureRest(p)
    BY <2>6, ColumnNames, RebuildShadowDoes, RecountDoes, EnsureRestDoes
    DEF Alters
  <2>7. CASE InsertMeta(p) \/ InsertMessage(p) \/ InsertEntry(p)
    BY <2>7, ColumnNames, InsertMetaDoes, InsertMessageDoes, InsertEntryDoes
    DEF Alters
  <2>8. CASE ReadMessages(p) \/ Import(p) \/ IngestSource(p)
    BY <2>8, ColumnNames, ReadMessagesDoes, ImportDoes, IngestSourceDoes
    DEF Alters
  <2>9. CASE Promote(p)
    BY <2>9, ColumnNames, PromoteDoes
    DEF Alters
  <2>10. CASE Commit(p) \/ \E r \in Surfaced : LogEvent(p, r) \/ CountEvent(p, r)
    BY <2>10, ColumnNames, CommitDoes, LogEventDoes, CountEventDoes
    DEF Alters
  <2>11. CASE \E m \in Ids : Insert(p, m) \/ \E c \in db.cands : Merge(p, c, m)
    BY <2>11, ColumnNames, InsertDoes, MergeDoes
    DEF Alters
  <2> QED
    BY <1>2, <2>1, <2>2, <2>3, <2>4, <2>5, <2>6, <2>7, <2>8, <2>9, <2>10, <2>11
    DEF WriteStep, DdlStep, DmlStep, WholeStep
<1> QED
  BY <1>1, <1>2

LEMMA IndexThereStep ==
  ASSUME Transactions, Placed, IndexThere, SchemaNext
  PROVE  IndexThere'
<1> SUFFICES ASSUME db'.index = "none", Needed'
             PROVE  "index" \in db'.torn \/ \E q \in Processes : CreatesIndex(proc'[q])
  BY DEF IndexThere
<1>1. ASSUME NEW p \in Processes, DropIndex(p)
      PROVE  CreatesIndex(proc'[p])
  <2>1. InPlace(p) /\ proc[p].pc = "drop_index"
    BY <1>1, DropIndexDoes DEF Placed, Place
  <2>2. writer # p
    BY <2>1 DEF InPlace, OutOfTransaction
  <2> QED
    BY <1>1, <2>2, DropIndexDoes DEF CreatesIndex, Turns, Opening
<1>2. ASSUME NEW p \in Processes, ReadStep(p) \/ WriteStep(p), ~DropIndex(p)
      PROVE  "index" \in db'.torn \/ \E q \in Processes : CreatesIndex(proc'[q])
  <2>1. db.index = "none"
    BY <1>2, IndexOnlyDropped
  <2>2. "index" \in db.torn \/ \E q \in Processes : CreatesIndex(proc[q])
    BY <1>2, <2>1, NeededBefore DEF IndexThere
  <2>3. \A q \in Processes \ {p} : proc'[q] = proc[q]
    BY <1>2, ReadSteps, WriteSteps DEF Steps
  <2>4. CASE ReadMessages(p)
    <3>1. ThereFor(p) /\ OpenAt(p) /\ proc[p].pc = "read_messages"
      BY <2>4, ReadMessagesDoes DEF Placed, Place
    <3>2. "index" \in proc[p].open
      BY <2>1, <3>1 DEF ThereFor, OpenAt
    <3> QED
      BY <2>4, <3>2, ReadMessagesDoes DEF CreatesIndex, Turns
  <2>5. CASE ~ReadMessages(p) /\ "index" \in db.torn
    <3>1. CASE ReadStep(p)
      BY <2>5, <3>1, ReadSteps DEF Read
    <3> QED
      BY <1>2, <2>5, <3>1, IndexTornKept
  <2>6. ~CreatesIndex(proc[p])
    <3>1. ASSUME proc[p].pc \in {"create_index", "fill_index"}
          PROVE  CreateIndex(p) \/ FillIndex(p)
      <4>1. ~Recount(p)
        BY <3>1, RecountDoes
      <4> QED
        BY <1>2, <3>1, <4>1
        DEF ReadStep, WriteStep, DdlStep, DmlStep, WholeStep, StartInit, StartVectors,
            StartAppend, StartRepair, StartImport, LookAtIndex, LookAtLedger, ReadUndated, LookForShadow,
            LookAtFacts, LookAtMeta, Retrieve, Forget, EnsureMessages, DropIndex, EnsureLedger,
            RenameLedger, CreateLedger, DropLedger, EnsureColumns, CreateShadow, CreateTriggers,
            CreateUnique, ClearIndex, CopyLedger, FillLastSeen, Backfill, RebuildShadow,
            EnsureRest, InsertMeta, InsertMessage, InsertEntry, LogEvent, CountEvent, ReadMessages,
            Commit, Import, IngestSource, Promote, Insert, Merge, Serves, MayStart, At
    <3>2. ~CreateIndex(p) /\ ~FillIndex(p)
      BY <2>1, CreateIndexDoes, FillIndexDoes
    <3> QED
      BY <3>1, <3>2 DEF CreatesIndex
  <2> QED
    BY <2>2, <2>3, <2>4, <2>5, <2>6
<1>3. ASSUME NEW p \in Processes, Break(p)
      PROVE  "index" \in db'.torn \/ \E q \in Processes : CreatesIndex(proc'[q])
  <2>1. /\ \A q \in Processes \ {p} : proc'[q] = proc[q]
        /\ proc'[p].job = "none" /\ proc'[p].memo \in {proc[p].memo, {}}
    BY <1>3, BreakStep
  <2>2. db.index = "none" /\ db.torn \cup proc[p].open \subseteq db'.torn
    BY <1>3, BreakDoes, ColumnNames DEF Transactions
  <2>3. Needed
    BY <2>1 DEF Needed
  <2>4. "index" \in db.torn \/ \E q \in Processes : CreatesIndex(proc[q])
    BY <2>2, <2>3 DEF IndexThere
  <2> QED
    BY <2>1, <2>2, <2>4 DEF CreatesIndex
<1>4. CASE RetireTwins
  <2>1. db.index = db'.index /\ db'.torn = db.torn /\ proc' = proc
    BY <1>4, RetireDoes, ColumnNames DEF Alters
  <2> QED
    BY <2>1 DEF IndexThere, Needed
<1> QED
  BY <1>1, <1>2, <1>3, <1>4, StepKinds

-------------------------------------------------------------------------------
(* At first, and where nothing changes *)

LEMMA NoneCounted ==
  ASSUME NEW f, NEW P, NEW r, \A q \in P : f[q].pc # "count"
  PROVE  Cardinality(Counting(f, P, r)) = 0
<1>1. Counting(f, P, r) = {}
  BY DEF Counting
<1> QED
  BY <1>1, FS_EmptySet

LEMMA StartsWhole ==
  ASSUME SchemaStart
  PROVE  IndexThere /\ OneSeen /\ Forms /\ NowFine /\ ThenFine /\ CountedTyped
<1>1. db \in Shapes /\ disk = db /\ writer = Nobody
      /\ \A p \in Processes : proc[p].pc = "idle" /\ proc[p].job = "none" /\ proc[p].memo = {}
  BY DEF SchemaStart, Resting
<1>2. /\ Formed(db) /\ db.renamed = FALSE /\ db.found = db.messages /\ db.keyed = db.keys
      /\ db.shadow = FALSE /\ db.events = Zero /\ db.count = Zero /\ db.inherited = 0
  BY <1>1, ShapesKnown
<1>3. IndexThere /\ OneSeen /\ Forms /\ ThenFine
  BY <1>1, <1>2 DEF IndexThere, Needed, OneSeen, Forms, ThenFine
<1>4. CountedTyped
  BY <1>1, <1>2 DEF CountedTyped, CountersTyped, Zero, Surfaced
<1>5. IndexFine(db, proc, Processes)
  BY <1>2 DEF IndexFine
<1>6. LedgerFine(db, proc, Processes)
  BY <1>2 DEF LedgerFine
<1>7. ShadowFine(db, proc, Processes, backend)
  BY <1>2 DEF ShadowFine
<1>8. \A r \in Surfaced : CounterFine(db, proc, Processes, r)
  <2>1. \A r \in Surfaced : Cardinality(Counting(proc, Processes, r)) = 0
    BY <1>1, NoneCounted
  <2>2. \A r \in Surfaced : db.count[r] = 0 /\ db.events[r] = 0
    BY <1>2 DEF Zero
  <2> QED
    BY <2>1, <2>2 DEF CounterFine
<1>9. NowFine
  BY <1>5, <1>6, <1>7, <1>8, CounterParts DEF NowFine, Parts, Fine
<1> QED
  BY <1>3, <1>4, <1>9

LEMMA PartsStutter ==
  ASSUME UNCHANGED schemaVars
  PROVE  /\ IndexThere => IndexThere'
         /\ OneSeen => OneSeen'
         /\ Forms => Forms'
         /\ NowFine /\ ThenFine => NowFine' /\ ThenFine'
         /\ CountedTyped => CountedTyped'
<1> USE DEF schemaVars
<1>1. IndexThere => IndexThere'
  BY DEF IndexThere, Needed
<1>2. OneSeen => OneSeen'
  BY DEF OneSeen
<1>3. Forms => Forms'
  BY DEF Forms
<1>4. NowFine /\ ThenFine => NowFine' /\ ThenFine'
  BY DEF NowFine, ThenFine
<1>5. CountedTyped => CountedTyped'
  BY DEF CountedTyped
<1> QED
  BY <1>1, <1>2, <1>3, <1>4, <1>5

-------------------------------------------------------------------------------
(* The promise *)

\* What nobody has open, and is not left undone, is whole.
LEMMA ClosedIsWhole ==
  ASSUME Transactions, Placed, Sure, Forms, IndexThere, NowFine, ThenFine, CountedTyped,
         NEW p \in Processes, proc[p].memo # {}, NEW part \in Parts, part \notin disk.torn,
         \A q \in Processes : part \notin proc[q].open
  PROVE  Whole(part, disk)
<1>1. PICK P \in SUBSET Processes : /\ Fine(part, disk, proc, P, backend)
                                    /\ \A q \in P : writer # q
  <2>1. CASE writer = Nobody
    BY <2>1, SchemaAssumption DEF Transactions, NowFine
  <2>2. CASE writer # Nobody
    BY <2>2 DEF Transactions, ThenFine
  <2> QED
    BY <2>1, <2>2
<1>2. \A q \in P : ~Contributes(part, proc[q], backend)
  BY <1>1, ContributorsOpen DEF Transactions
<1>3. Initialised(disk) /\ Formed(disk)
  BY DEF Sure, Remembers, Forms
<1>4. CASE part = "index"
  <2>1. disk.index # "none"
    <3>1. Needed /\ db.torn \subseteq disk.torn /\ db.index = disk.index
      BY DEF Needed, Transactions
    <3> QED
      BY <1>4, <3>1 DEF IndexThere, CreatesIndex
  <2>2. disk.index = "current"
    BY <1>3, <2>1 DEF Initialised, Formed
  <2>3. IndexFine(disk, proc, P) /\ \A q \in P : ~ClearsIndex(proc[q]) /\ ~Fills(proc[q])
    BY <1>1, <1>2, <1>4 DEF Fine, Contributes
  <2>4. disk.messages \subseteq disk.found
    BY <1>4, <2>2, <2>3 DEF IndexFine
  <2> QED
    BY <1>4, <2>2, <2>4 DEF Whole
<1>5. CASE part = "ledger"
  <2>1. LedgerFine(disk, proc, P) /\ \A q \in P : ~Moves(proc[q])
    BY <1>1, <1>2, <1>5 DEF Fine, Contributes
  <2>2. disk.keyed \subseteq disk.keys
    BY <1>5, <2>1 DEF LedgerFine
  <2>3. disk.ledger # "none"
    BY <1>3, <1>5, <2>1 DEF LedgerFine, Initialised, Moves
  <2> QED
    BY <1>3, <1>5, <2>2, <2>3 DEF Initialised, Formed, Whole
<1>6. CASE part = "shadow"
  <2>1. ShadowFine(disk, proc, P, backend) /\ \A q \in P : ~Builds(proc[q], backend)
    BY <1>1, <1>2, <1>6 DEF Fine, Contributes
  <2> QED
    BY <1>3, <1>6, <2>1 DEF ShadowFine, Initialised, Whole
<1>7. CASE part \in Surfaced
  <2>1. CounterFine(disk, proc, P, part) /\ \A q \in P : ~(proc[q].pc = "count" /\ part \in proc[q].seen)
    BY <1>1, <1>2, <1>7, CounterParts DEF Contributes, Surfaced
  <2>2. Counting(proc, P, part) = {}
    BY <2>1 DEF Counting
  <2>3. disk.count[part] \in Nat /\ disk.events[part] \in Nat
    BY <1>7 DEF CountedTyped, CountersTyped
  <2>4. disk.count[part] \in {disk.events[part], disk.events[part] + Inherits(disk, part)}
    BY <2>1, <2>2, <2>3, FS_EmptySet DEF CounterFine
  <2>5. CASE part = "candidate"
    BY <2>3, <2>4, <2>5 DEF Whole, Inherits
  <2>6. CASE part = "fact"
    BY <2>4, <2>6 DEF Whole, Inherits
  <2> QED
    BY <1>7, <2>5, <2>6 DEF Surfaced
<1> QED
  BY <1>4, <1>5, <1>6, <1>7 DEF Parts

LEMMA PartsStep ==
  ASSUME Transactions, Placed, Sure, MentionsFresh, IndexThere, OneSeen, Forms, CountedTyped,
         NowFine, ThenFine, SchemaNext
  PROVE  /\ Transactions' /\ Placed' /\ Sure' /\ MentionsFresh' /\ IndexThere' /\ OneSeen'
         /\ Forms' /\ CountedTyped' /\ NowFine' /\ ThenFine'
<1>1. Transactions' /\ Placed' /\ Sure' /\ MentionsFresh'
  BY TransactionsStep, PlacedStep, SureStep, DaysStep
<1>2. IndexThere' /\ OneSeen' /\ Forms'
  BY IndexThereStep, OneSeenStep, FormsStep
<1>3. CountedTyped' /\ NowFine' /\ ThenFine'
  BY CountedTypedStep, FineStep
<1> QED
  BY <1>1, <1>2, <1>3

\* Once somebody holds the database initialised, each of its parts is whole but
\* while a process has it open between two statements that commit, or left it
\* so; and no statement takes back a column, the constraint on facts or the
\* model of the vectors.
THEOREM PartsAreWhole == SchemaSpec => []PartsWhole
<1> DEFINE Ind == /\ Transactions /\ Placed /\ Sure /\ MentionsFresh /\ IndexThere /\ OneSeen
                  /\ Forms /\ CountedTyped /\ NowFine /\ ThenFine
<1>1. SchemaStart => Ind
  BY StartsInPlace, StartsFresh, StartsWhole
<1>2. Ind /\ [SchemaNext]_schemaVars => Ind'
  <2> SUFFICES ASSUME Ind, [SchemaNext]_schemaVars
               PROVE  Ind'
    OBVIOUS
  <2>1. CASE SchemaNext
    BY <2>1, PartsStep
  <2>2. CASE UNCHANGED schemaVars
    BY <2>2, Stutters, PartsStutter
  <2> QED
    BY <2>1, <2>2
<1>3. Ind => PartsWhole
  <2> SUFFICES ASSUME Ind
               PROVE  PartsWhole
    OBVIOUS
  <2>1. ASSUME NEW p \in Processes, proc[p].memo # {}
        PROVE  /\ \A part \in Parts \ disk.torn :
                    (\A q \in Processes : part \notin proc[q].open) => Whole(part, disk)
               /\ disk.dated /\ disk.unique /\ ~disk.twins
    <3>1. \A part \in Parts \ disk.torn :
            (\A q \in Processes : part \notin proc[q].open) => Whole(part, disk)
      BY <2>1, ClosedIsWhole
    <3>2. disk.dated /\ disk.unique /\ ~disk.twins
      BY <2>1 DEF Sure, Remembers, Initialised
    <3> QED
      BY <3>1, <3>2
  <2>2. (\E p \in Processes : "vec" \in proc[p].memo) => disk.meta
    BY DEF Sure, Remembers
  <2> QED
    BY <2>1, <2>2 DEF PartsWhole
<1> QED
  BY <1>1, <1>2, <1>3, PTL DEF SchemaSpec
===============================================================================
