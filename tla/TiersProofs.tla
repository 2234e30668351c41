------------------------------ MODULE TiersProofs ------------------------------
(***************************************************************************)
(* What Tiers guarantees for any number of Light and Deep cycles, rows and *)
(* candidates, on either backend.  Every invariant is proved on top of the *)
(* type invariant, which carries what a cycle may hold between its steps.  *)
(***************************************************************************)
EXTENDS Tiers, TLAPS

\* A Light cycle's window lies after the watermark it read and within the
\* transcript, and what it keeps within the window.
LightShape(r, last) ==
  /\ r.observed <= r.upto
  /\ r.upto <= last
  /\ r.found \subseteq r.observed + 1 .. r.upto

\* A Deep cycle that is committing a promotion has one in hand.
DeepShape(r) ==
  r.pc \in {"claim", "insert", "embed", "link", "supersede"} => r.current \in Ids

\* What a Deep cycle's step leaves alone, and at most resets.
DeepRest(d) ==
  /\ UNCHANGED <<transcriptVars, watermark, commits, light>>
  /\ missed' = missed \/ missed' = [missed EXCEPT ![d] = {}]

TypeInv ==
  /\ TypeOK
  /\ \A l \in LightRuns : LightShape(light[l], lastMessage)
  /\ \A d \in DeepRuns : DeepShape(deep[d])

-------------------------------------------------------------------------------
\* The operators the actions are built from.

LEMMA EmptyTypes ==
  /\ EmptyStore \in Store
  /\ NoLight \in LightRun
  /\ NoDeep \in DeepRun
<1>1. NoCandidate \in Candidate /\ NoFact \in Fact
  BY DEF NoCandidate, Candidate, NoFact, Fact
<1>2. EmptyStore \in Store
  BY <1>1 DEF EmptyStore, Store
<1>3. NoLight \in LightRun
  BY TiersAssumption DEF NoLight, LightRun
<1>4. NoDeep \in DeepRun
  BY DEF NoDeep, DeepRun
<1>5. QED
  BY <1>2, <1>3, <1>4

LEMMA BackfilledType ==
  ASSUME NEW cand \in [Ids -> Candidate], NEW due \in SUBSET Ids,
         NEW into \in [due -> Ids \cup {None}], NEW flagged \in SUBSET due
  PROVE  Backfilled(cand, due, into, flagged) \in [Ids -> Candidate]
<1>1. SUFFICES ASSUME NEW c \in Ids
               PROVE  Backfilled(cand, due, into, flagged)[c] \in Candidate
  BY DEF Backfilled
<1>2. cand[c] \in Candidate
  OBVIOUS
<1>3. MergedSources(cand, due, into, c) \in SUBSET Rows
  <2>1. \A m \in {n \in due : into[n] = c} : cand[m].sources \in SUBSET Rows
    BY DEF Candidate
  <2>2. QED
    BY <1>2, <2>1 DEF MergedSources, Candidate
<1>4. CASE c \in due /\ into[c] # None
  <2>1. [cand[c] EXCEPT !.marks = {"stale"}] \in Candidate
    BY <1>2 DEF Candidate
  <2>2. QED
    BY <1>4, <2>1 DEF Backfilled
<1>5. CASE ~(c \in due /\ into[c] # None)
  <2> DEFINE marks == IF c \in due /\ c \in flagged THEN {"needs_review"} ELSE cand[c].marks
             embedded == cand[c].embedded \/ c \in due
             sources == MergedSources(cand, due, into, c)
  <2>1. marks \in SUBSET {"promoted", "retired", "stale", "needs_review"}
    BY <1>2 DEF Candidate
  <2>2. embedded \in BOOLEAN
    OBVIOUS
  <2>3. Backfilled(cand, due, into, flagged)[c]
          = [cand[c] EXCEPT !.sources = sources, !.embedded = embedded, !.marks = marks]
    BY <1>5 DEF Backfilled
  <2> HIDE DEF marks, embedded, sources
  <2>4. sources \in SUBSET Rows
    BY <1>3 DEF sources
  <2>5. [cand[c] EXCEPT !.sources = sources, !.embedded = embedded, !.marks = marks] \in Candidate
    BY <1>2, <2>1, <2>2, <2>4 DEF Candidate
  <2>6. QED
    BY <2>3, <2>5
<1>6. QED
  BY <1>4, <1>5

\* The store a step writes is a store.
LEMMA StoreTypes ==
  ASSUME NEW s \in Store, NEW c \in Ids
  PROVE  /\ \A f \in Ids \cup {None} : Retired(s, c, f) \in Store
         /\ [s EXCEPT !.cand[c].marks = @ \cup {"promoted"}] \in Store
         /\ \A e, m \in SUBSET Rows : [s EXCEPT !.fact[c] =
              [NoFact EXCEPT !.status = "bare", !.sources = e, !.missed = m]] \in Store
         /\ [s EXCEPT !.fact[c].status = "live"] \in Store
         /\ \A b \in Ids : [s EXCEPT !.fact[c].status = "retired", !.fact[c].by = b] \in Store
<1>1. s.cand[c] \in Candidate /\ s.fact[c] \in Fact
  BY DEF Store
<1>2. \A k \in Candidate : [s EXCEPT !.cand[c] = k] \in Store
  BY DEF Store
<1>3. \A k \in Fact : [s EXCEPT !.fact[c] = k] \in Store
  BY DEF Store
<1>4. \A f \in Ids \cup {None} : Retired(s, c, f) \in Store
  <2> TAKE f \in Ids \cup {None}
  <2>1. [s.cand[c] EXCEPT !.marks = @ \cup {"retired"}, !.by = f] \in Candidate
    BY <1>1 DEF Candidate
  <2>2. [s EXCEPT !.cand[c].marks = @ \cup {"retired"}, !.cand[c].by = f]
          = [s EXCEPT !.cand[c] = [s.cand[c] EXCEPT !.marks = @ \cup {"retired"}, !.by = f]]
    BY <1>1 DEF Store, Candidate
  <2>3. QED
    BY <1>2, <2>1, <2>2 DEF Retired
<1>5. [s EXCEPT !.cand[c].marks = @ \cup {"promoted"}] \in Store
  <2>1. [s.cand[c] EXCEPT !.marks = @ \cup {"promoted"}] \in Candidate
    BY <1>1 DEF Candidate
  <2>2. QED
    BY <1>2, <2>1 DEF Store
<1>6. \A e, m \in SUBSET Rows : [s EXCEPT !.fact[c] =
        [NoFact EXCEPT !.status = "bare", !.sources = e, !.missed = m]] \in Store
  <2>1. \A e, m \in SUBSET Rows :
          [NoFact EXCEPT !.status = "bare", !.sources = e, !.missed = m] \in Fact
    BY DEF NoFact, Fact
  <2>2. QED
    BY <1>3, <2>1
<1>7. [s EXCEPT !.fact[c].status = "live"] \in Store
  <2>1. [s.fact[c] EXCEPT !.status = "live"] \in Fact
    BY <1>1 DEF Fact
  <2>2. QED
    BY <1>3, <2>1 DEF Store
<1>8. \A b \in Ids : [s EXCEPT !.fact[c].status = "retired", !.fact[c].by = b] \in Store
  <2> TAKE b \in Ids
  <2>1. [s.fact[c] EXCEPT !.status = "retired", !.by = b] \in Fact
    BY <1>1 DEF Fact
  <2>2. [s EXCEPT !.fact[c].status = "retired", !.fact[c].by = b]
          = [s EXCEPT !.fact[c] = [s.fact[c] EXCEPT !.status = "retired", !.by = b]]
    BY <1>1 DEF Store, Fact
  <2>3. QED
    BY <1>3, <2>1, <2>2
<1>9. QED
  BY <1>4, <1>5, <1>6, <1>7, <1>8

LEMMA ViewType ==
  ASSUME TypeOK, NEW d \in DeepRuns
  PROVE  View(d) \in Store
  BY DEF TypeOK, View

LEMMA WriteTypes ==
  ASSUME TypeOK, NEW d \in DeepRuns, NEW new \in Store, Write(d, new)
  PROVE  /\ db' \in Store
         /\ txnImage' \in Store
         /\ txnOwner' \in DeepRuns \cup {Nobody}
  BY DEF TypeOK, Write

LEMMA LargerSmaller ==
  ASSUME NEW m \in Nat, NEW n \in Nat
  PROVE  /\ Larger(m, n) \in {m, n} /\ Larger(m, n) >= m /\ Larger(m, n) >= n
         /\ Smaller(m, n) \in {m, n} /\ Smaller(m, n) <= m /\ Smaller(m, n) <= n
  BY DEF Larger, Smaller

-------------------------------------------------------------------------------
\* Type correctness: the initial states.

LEMMA TypeInit == Init => TypeInv
<1> SUFFICES ASSUME Init PROVE TypeInv
  OBVIOUS
<1>1. db \in Store
  <2>1. PICK imported \in 0 .. MaxCandidates :
          /\ watermark = 0 => imported = 0
          /\ db = [EmptyStore EXCEPT !.cand = [c \in Ids |->
               IF c <= imported THEN [NoCandidate EXCEPT !.sources = {1}]
                                ELSE NoCandidate]]
    BY DEF Init
  <2> DEFINE row(c) == IF c <= imported THEN [NoCandidate EXCEPT !.sources = {1}]
                                        ELSE NoCandidate
  <2>2. ASSUME NEW c \in Ids PROVE row(c) \in Candidate
    <3>1. NoCandidate \in Candidate
      BY DEF NoCandidate, Candidate
    <3>2. CASE c <= imported
      <4>1. watermark \in 0 .. MaxMessages /\ watermark # 0
        BY <2>1, <3>2, TiersAssumption DEF Init, Ids
      <4>2. {1} \in SUBSET Rows
        BY <4>1, TiersAssumption DEF Rows
      <4>3. QED
        BY <3>1, <3>2, <4>2 DEF Candidate
    <3>3. CASE ~(c <= imported)
      BY <3>1, <3>3
    <3>4. QED
      BY <3>2, <3>3
  <2>3. [c \in Ids |-> row(c)] \in [Ids -> Candidate]
    BY <2>2
  <2>4. db = [EmptyStore EXCEPT !.cand = [c \in Ids |-> row(c)]]
    BY <2>1
  <2> HIDE DEF row
  <2>5. QED
    BY <2>3, <2>4, EmptyTypes DEF Store
<1>2. commits \in [Rows -> 0 .. 2]
  BY DEF Init, Rows
<1>3. watermark \in 0 .. lastMessage /\ lastMessage \in 0 .. MaxMessages
  BY TiersAssumption DEF Init
<1>4. TypeOK
  BY <1>1, <1>2, <1>3, EmptyTypes DEF Init, TypeOK
<1>5. \A l \in LightRuns : LightShape(light[l], lastMessage)
  BY <1>3, TiersAssumption DEF Init, LightShape, NoLight
<1>6. \A d \in DeepRuns : DeepShape(deep[d])
  BY DEF Init, DeepShape, NoDeep
<1>7. QED
  BY <1>4, <1>5, <1>6 DEF TypeInv

-------------------------------------------------------------------------------
\* Type correctness: Light's steps.

\* What is merged into a candidate is a set of rows.
LEMMA MissMergedType ==
  ASSUME TypeInv, MissMerged, db' \in Store
  PROVE  missed' \in [DeepRuns -> SUBSET Rows]
<1> DEFINE merged(d) == LET c == deep[d].current IN
             IF deep[d].pc # "claim" THEN missed[d]
             ELSE missed[d] \cup (db'.cand[c].sources \ db.cand[c].sources)
<1>1. ASSUME NEW d \in DeepRuns PROVE merged(d) \in SUBSET Rows
  <2>1. missed[d] \in SUBSET Rows
    BY DEF TypeInv, TypeOK
  <2>2. ASSUME deep[d].pc = "claim" PROVE db'.cand[deep[d].current].sources \in SUBSET Rows
    <3>1. deep[d].current \in Ids
      BY <2>2 DEF TypeInv, DeepShape
    <3>2. db'.cand[deep[d].current] \in Candidate
      BY <3>1 DEF Store
    <3>3. QED
      BY <3>2 DEF Candidate
  <2>3. QED
    BY <2>1, <2>2
<1>2. missed' = [d \in DeepRuns |-> merged(d)]
  BY DEF MissMerged
<1> HIDE DEF merged
<1>3. QED
  BY <1>1, <1>2

LEMMA LightFrame ==
  ASSUME TypeInv, NEW l \in LightRuns, NEW r \in LightRun,
         LightShape(r, lastMessage),
         light' = [light EXCEPT ![l] = r],
         UNCHANGED <<transcriptVars, txnOwner, txnImage, deep>>,
         missed' \in [DeepRuns -> SUBSET Rows],
         db' \in Store, watermark' \in 0 .. lastMessage, commits' \in [Rows -> 0 .. 2]
  PROVE  TypeInv'
  BY DEF TypeInv, TypeOK, transcriptVars

\* A Light cycle is itself well typed.
LEMMA LightTyped ==
  ASSUME TypeInv, NEW l \in LightRuns
  PROVE  /\ light[l] \in LightRun /\ LightShape(light[l], lastMessage)
         /\ lastMessage \in Nat /\ lastMessage <= MaxMessages
         /\ watermark \in Nat /\ watermark <= lastMessage
         /\ light[l].observed \in Nat /\ light[l].upto \in Nat
         /\ db \in Store /\ commits \in [Rows -> 0 .. 2]
<1>1. light[l] \in LightRun
  BY DEF TypeInv, TypeOK
<1>2. QED
  BY <1>1, TiersAssumption DEF TypeInv, TypeOK, LightRun

\* A step that only moves a Light cycle.
LEMMA LightMoves ==
  ASSUME TypeInv, NEW l \in LightRuns, NEW r \in LightRun,
         LightShape(r, lastMessage),
         light' = [light EXCEPT ![l] = r],
         UNCHANGED <<transcriptVars, watermark, commits, missed, dbVars, deep>>
  PROVE  TypeInv'
  BY DEF TypeInv, TypeOK, transcriptVars, dbVars

LEMMA StoreCandidateType ==
  ASSUME TypeInv, NEW sources \in SUBSET Rows, StoreCandidate(sources)
  PROVE  db' \in Store
<1>1. db \in Store
  BY DEF TypeInv, TypeOK
<1>2. \A c \in Ids : \A k \in Candidate : [db EXCEPT !.cand[c] = k] \in Store
  BY <1>1 DEF Store
<1>3. ASSUME NEW m \in Ids, db' = [db EXCEPT !.cand[m].sources = @ \cup sources]
      PROVE  db' \in Store
  <2>1. db.cand[m] \in Candidate
    BY <1>1 DEF Store
  <2>2. [db.cand[m] EXCEPT !.sources = @ \cup sources] \in Candidate
    BY <2>1 DEF Candidate
  <2>3. QED
    BY <1>1, <1>2, <1>3, <2>2
<1>4. ASSUME NEW c \in Ids, NEW review \in BOOLEAN,
             db' = [db EXCEPT !.cand[c] =
               [NoCandidate EXCEPT !.sources = sources, !.embedded = TRUE,
                                   !.marks = IF review THEN {"needs_review"} ELSE {}]]
      PROVE  db' \in Store
  <2> DEFINE marks == IF review THEN {"needs_review"} ELSE {}
  <2>1. marks \in SUBSET {"promoted", "retired", "stale", "needs_review"}
    OBVIOUS
  <2> HIDE DEF marks
  <2>2. [NoCandidate EXCEPT !.sources = sources, !.embedded = TRUE, !.marks = marks] \in Candidate
    BY <2>1 DEF NoCandidate, Candidate
  <2>3. QED
    BY <1>2, <1>4, <2>2 DEF marks
<1>5. QED
  BY <1>3, <1>4 DEF StoreCandidate

LEMMA LightStepType ==
  ASSUME TypeInv, NEW l \in LightRuns, LightStep(l)
  PROVE  TypeInv'
<1> USE LightTyped, TiersAssumption
<1>1. CASE LightRead(l)
  <2> DEFINE pc == IF WindowEnd > watermark THEN "extract" ELSE "load"
             r == [NoLight EXCEPT !.pc = pc, !.observed = watermark, !.upto = WindowEnd]
  <2>1. WindowEnd \in Nat /\ WindowEnd <= lastMessage /\ watermark <= WindowEnd
    BY DEF WindowEnd, Smaller
  <2>2. pc \in {"extract", "load"}
    OBVIOUS
  <2> HIDE DEF pc
  <2>3. r \in LightRun
    <3>1. WindowEnd \in 0 .. MaxMessages /\ watermark \in 0 .. MaxMessages
      BY <2>1
    <3> HIDE DEF WindowEnd
    <3>2. QED
      BY <2>2, <3>1 DEF NoLight, LightRun
  <2>4. LightShape(r, lastMessage)
    BY <2>1 DEF LightShape, NoLight
  <2>5. light' = [light EXCEPT ![l] = r]
    BY <1>1 DEF LightRead, pc
  <2> HIDE DEF r
  <2>6. QED
    BY <1>1, <2>3, <2>4, <2>5, LightMoves DEF LightRead
<1>2. CASE LightExtract(l)
  <2>1. PICK cited \in SUBSET Rows : light' = [light EXCEPT
          ![l].pc = "load",
          ![l].found = KeepValidSources(cited, light[l].observed + 1 .. light[l].upto)]
    BY <1>2 DEF LightExtract
  <2> DEFINE found == KeepValidSources(cited, light[l].observed + 1 .. light[l].upto)
             r == [light[l] EXCEPT !.pc = "load", !.found = found]
  <2>2. found \in SUBSET Rows /\ found \subseteq light[l].observed + 1 .. light[l].upto
    BY DEF KeepValidSources
  <2>3. light' = [light EXCEPT ![l] = r]
    BY <2>1 DEF TypeInv, TypeOK, LightRun
  <2> HIDE DEF found
  <2>4. r \in LightRun /\ LightShape(r, lastMessage)
    BY <2>2 DEF LightRun, LightShape
  <2> HIDE DEF r
  <2>5. QED
    BY <1>2, <2>3, <2>4, LightMoves DEF LightExtract
<1>3. CASE LightLoad(l)
  <2> DEFINE todo == {c \in Ids : Missing(db.cand[c])}
             pc == IF todo = {} THEN "commit" ELSE "backfill"
             r == [light[l] EXCEPT !.todo = todo, !.pc = pc]
  <2>1. todo \in SUBSET Ids /\ pc \in {"commit", "backfill"}
    OBVIOUS
  <2>2. light' = [light EXCEPT ![l] = r]
    BY <1>3 DEF LightLoad, TypeInv, TypeOK, LightRun
  <2> HIDE DEF todo, pc
  <2>3. r \in LightRun /\ LightShape(r, lastMessage)
    BY <2>1 DEF LightRun, LightShape
  <2> HIDE DEF r
  <2>4. QED
    BY <1>3, <2>2, <2>3, LightMoves DEF LightLoad
<1>4. CASE LightBackfill(l)
  <2> DEFINE due == StillMissing(db.cand, light[l].todo)
             r == [light[l] EXCEPT !.pc = "commit"]
  <2>1. due \in SUBSET Ids
    BY DEF StillMissing, LightRun
  <2>2. PICK into \in [due -> Ids \cup {None}], flagged \in SUBSET due :
          db' = [db EXCEPT !.cand = Backfilled(@, due, into, flagged)]
    BY <1>4 DEF LightBackfill
  <2> HIDE DEF due
  <2>3. Backfilled(db.cand, due, into, flagged) \in [Ids -> Candidate]
    BY <2>1, BackfilledType DEF Store
  <2>4. db' \in Store
    BY <2>2, <2>3 DEF Store
  <2>5. light' = [light EXCEPT ![l] = r]
    BY <1>4 DEF LightBackfill, TypeInv, TypeOK, LightRun
  <2>6. r \in LightRun /\ LightShape(r, lastMessage)
    BY DEF LightRun, LightShape
  <2> HIDE DEF r
  <2>7. /\ UNCHANGED <<transcriptVars, txnOwner, txnImage, deep>>
        /\ watermark' \in 0 .. lastMessage /\ commits' \in [Rows -> 0 .. 2]
        /\ MissMerged
    BY <1>4 DEF LightBackfill
  <2>8. missed' \in [DeepRuns -> SUBSET Rows]
    BY <2>4, <2>7, MissMergedType
  <2>9. QED
    BY <2>4, <2>5, <2>6, <2>7, <2>8, LightFrame
<1>5. ASSUME light' = [light EXCEPT ![l] = NoLight],
             UNCHANGED <<transcriptVars, txnOwner, txnImage, deep>>,
             db' \in Store, watermark' \in 0 .. lastMessage,
             commits' \in [Rows -> 0 .. 2], missed' \in [DeepRuns -> SUBSET Rows]
      PROVE  TypeInv'
  <2>1. LightShape(NoLight, lastMessage)
    BY DEF LightShape, NoLight
  <2>2. QED
    BY <1>5, <2>1, EmptyTypes, LightFrame
<1>6. CASE LightCommit(l)
  <2>1. CASE Superseded(l)
    <3>1. /\ db' \in Store /\ MissMerged
          /\ watermark' \in 0 .. lastMessage /\ commits' \in [Rows -> 0 .. 2]
      BY <1>6, <2>1 DEF LightCommit
    <3>2. missed' \in [DeepRuns -> SUBSET Rows]
      BY <3>1, MissMergedType
    <3>3. QED
      BY <1>5, <1>6, <3>1, <3>2 DEF LightCommit
  <2>2. CASE ~Superseded(l)
    <3>1. db' \in Store
      <4>1. light[l].found \in SUBSET Rows
        BY DEF LightRun
      <4>2. QED
        BY <1>6, <2>2, <4>1, StoreCandidateType DEF LightCommit
    <3>2. watermark' \in 0 .. lastMessage
      BY <1>6, <2>2 DEF LightCommit, Larger, LightShape
    <3>3. commits' \in [Rows -> 0 .. 2]
      BY <1>6, <2>2 DEF LightCommit, Smaller
    <3>4. missed' \in [DeepRuns -> SUBSET Rows]
      BY <1>6, <3>1, MissMergedType DEF LightCommit
    <3>5. QED
      BY <1>5, <1>6, <3>1, <3>2, <3>3, <3>4 DEF LightCommit
  <2>3. QED
    BY <2>1, <2>2
<1>7. CASE LightFails(l)
  BY <1>5, <1>7 DEF LightFails, dbVars, TypeInv, TypeOK
<1>8. QED
  BY <1>1, <1>2, <1>3, <1>4, <1>6, <1>7 DEF LightStep

-------------------------------------------------------------------------------
\* Type correctness: Deep's steps.

LEMMA DeepTyped ==
  ASSUME TypeInv, NEW d \in DeepRuns
  PROVE  /\ deep[d] \in DeepRun /\ DeepShape(deep[d])
         /\ db \in Store /\ txnImage \in Store /\ View(d) \in Store
         /\ txnOwner \in DeepRuns \cup {Nobody}
  BY ViewType DEF TypeInv, TypeOK

LEMMA DeepFrame ==
  ASSUME TypeInv, NEW d \in DeepRuns, NEW run \in DeepRun, DeepShape(run),
         Step(d, run), DeepRest(d),
         db' \in Store, txnImage' \in Store, txnOwner' \in DeepRuns \cup {Nobody}
  PROVE  TypeInv'
<1>1. missed' \in [DeepRuns -> SUBSET Rows]
  BY DEF TypeInv, TypeOK, DeepRest
<1>2. QED
  BY <1>1 DEF TypeInv, TypeOK, transcriptVars, Step, DeepRest

\* A step that writes a store, and one that writes nothing.
LEMMA DeepWrites ==
  ASSUME TypeInv, NEW d \in DeepRuns, NEW run \in DeepRun, DeepShape(run),
         Step(d, run), NEW new \in Store, Write(d, new), DeepRest(d)
  PROVE  TypeInv'
<1>1. TypeOK
  BY DEF TypeInv
<1>2. QED
  BY <1>1, WriteTypes, DeepFrame

LEMMA DeepMoves ==
  ASSUME TypeInv, NEW d \in DeepRuns, NEW run \in DeepRun, DeepShape(run),
         Step(d, run), UNCHANGED dbVars, DeepRest(d)
  PROVE  TypeInv'
<1>1. db' \in Store /\ txnImage' \in Store /\ txnOwner' \in DeepRuns \cup {Nobody}
  BY DeepTyped DEF dbVars
<1>2. QED
  BY <1>1, DeepFrame

LEMMA ContinueType ==
  ASSUME NEW run \in DeepRun
  PROVE  Continue(run) \in DeepRun /\ DeepShape(Continue(run))
<1> DEFINE pc == IF run.current = None THEN "decide"
                 ELSE IF run.supersedes[run.current] = {} /\ run.beats[run.current] = {}
                      THEN "decide" ELSE "supersede"
<1>1. pc \in {"decide", "supersede"} /\ (pc = "supersede" => run.current # None)
  OBVIOUS
<1>2. Continue(run) = [run EXCEPT !.pc = pc]
  BY DEF Continue
<1> HIDE DEF pc
<1>3. QED
  BY <1>1, <1>2 DEF DeepRun, DeepShape

LEMMA RaiseType ==
  ASSUME TypeInv, NEW d \in DeepRuns, Raise(d), DeepRest(d)
  PROVE  TypeInv'
<1> DEFINE run == [deep[d] EXCEPT !.pc = "raised"]
<1>1. run \in DeepRun /\ DeepShape(run)
  BY DeepTyped DEF DeepRun, DeepShape
<1>2. Step(d, run) /\ UNCHANGED dbVars
  BY DEF Raise
<1> HIDE DEF run
<1>3. QED
  BY <1>1, <1>2, DeepMoves

LEMMA RetireCandidateType ==
  ASSUME TypeInv, NEW d \in DeepRuns, NEW c \in Ids, NEW f \in Ids,
         NEW run \in DeepRun, RetireCandidate(d, c, f, run), DeepRest(d)
  PROVE  TypeInv'
<1>1. Continue(run) \in DeepRun /\ DeepShape(Continue(run))
  BY ContinueType
<1>2. Retired(View(d), c, f) \in Store
  BY DeepTyped, StoreTypes
<1>3. CASE Raise(d)
  BY <1>3, RaiseType
<1>4. CASE Write(d, Retired(View(d), c, f)) /\ Step(d, Continue(run))
  BY <1>1, <1>2, <1>4, DeepWrites
<1>5. CASE UNCHANGED dbVars /\ Step(d, Continue(run))
  BY <1>1, <1>5, DeepMoves
<1>6. QED
  BY <1>3, <1>4, <1>5 DEF RetireCandidate

LEMMA DeepReadType ==
  ASSUME TypeInv, NEW d \in DeepRuns, DeepRead(d)
  PROVE  TypeInv'
<1>1. PICK selected \in SUBSET Ids :
        deep' = [deep EXCEPT ![d] = [NoDeep EXCEPT !.pc = "judge", !.selected = selected]]
  BY DEF DeepRead
<1> DEFINE run == [NoDeep EXCEPT !.pc = "judge", !.selected = selected]
<1>2. run \in DeepRun /\ DeepShape(run)
  BY EmptyTypes DEF DeepRun, DeepShape
<1>3. Step(d, run)
  BY <1>1 DEF Step
<1> HIDE DEF run
<1>4. QED
  BY <1>2, <1>3, DeepMoves DEF DeepRead, DeepRest

LEMMA DeepJudgeType ==
  ASSUME TypeInv, NEW d \in DeepRuns, DeepJudge(d)
  PROVE  TypeInv'
<1>1. PICK c \in deep[d].selected :
        LET left == deep[d].selected \ {c}
            run == [deep[d] EXCEPT !.selected = left,
                                   !.pc = IF left = {} THEN "decide" ELSE "judge"]
        IN  \/ \E f \in Neighbours :
                 deep' = [deep EXCEPT ![d] = [run EXCEPT !.blocked[c] = f]]
            \/ \E old \in SUBSET Neighbours, beaten \in SUBSET run.wins :
                 deep' = [deep EXCEPT ![d] = Survives(run, c, old, beaten)]
            \/ \E p \in run.wins, beaten \in SUBSET run.wins :
                 /\ p \notin beaten
                 /\ deep' = [deep EXCEPT ![d] =
                      [run EXCEPT !.wins = @ \ beaten, !.beats[p] = @ \cup {c}]]
  BY DEF DeepJudge
<1> DEFINE left == deep[d].selected \ {c}
           pc == IF left = {} THEN "decide" ELSE "judge"
           run == [deep[d] EXCEPT !.selected = left, !.pc = pc]
<1>2. deep[d] \in DeepRun /\ c \in Ids
  BY DeepTyped DEF DeepRun
<1>3. pc \in {"decide", "judge"} /\ left \in SUBSET Ids
  BY <1>2 DEF DeepRun
<1>4. \/ \E f \in Neighbours :
           deep' = [deep EXCEPT ![d] = [run EXCEPT !.blocked[c] = f]]
      \/ \E old \in SUBSET Neighbours, beaten \in SUBSET run.wins :
           deep' = [deep EXCEPT ![d] = Survives(run, c, old, beaten)]
      \/ \E p \in run.wins, beaten \in SUBSET run.wins :
           /\ p \notin beaten
           /\ deep' = [deep EXCEPT ![d] =
                [run EXCEPT !.wins = @ \ beaten, !.beats[p] = @ \cup {c}]]
  BY <1>1
<1> HIDE DEF left, pc
<1>5. run \in DeepRun /\ run.pc \in {"decide", "judge"}
  BY <1>2, <1>3 DEF DeepRun
<1> HIDE DEF run
<1>6. \A r \in DeepRun : r.pc = run.pc /\ deep' = [deep EXCEPT ![d] = r] => TypeInv'
  <2> SUFFICES ASSUME NEW r \in DeepRun, r.pc = run.pc, deep' = [deep EXCEPT ![d] = r]
               PROVE  TypeInv'
    OBVIOUS
  <2>1. DeepShape(r) /\ Step(d, r)
    BY <1>5 DEF DeepShape, Step
  <2>2. QED
    BY <2>1, DeepMoves DEF DeepJudge, DeepRest
<1>7. ASSUME NEW f \in Neighbours,
             deep' = [deep EXCEPT ![d] = [run EXCEPT !.blocked[c] = f]]
      PROVE  TypeInv'
  <2>1. [run EXCEPT !.blocked[c] = f] \in DeepRun
    BY <1>2, <1>5 DEF DeepRun, Neighbours
  <2>2. [run EXCEPT !.blocked[c] = f].pc = run.pc
    BY <1>5 DEF DeepRun
  <2>3. QED
    BY <1>6, <1>7, <2>1, <2>2
<1>8. ASSUME NEW old \in SUBSET Neighbours, NEW beaten \in SUBSET run.wins,
             deep' = [deep EXCEPT ![d] = Survives(run, c, old, beaten)]
      PROVE  TypeInv'
  <2> DEFINE lost == beaten \cup UNION {run.beats[b] : b \in beaten}
  <2>1. lost \in SUBSET Ids
    <3>1. \A b \in beaten : run.beats[b] \in SUBSET Ids
      BY <1>5 DEF DeepRun
    <3>2. QED
      BY <1>5, <3>1 DEF DeepRun
  <2>2. Survives(run, c, old, beaten)
          = [run EXCEPT !.wins = (@ \ beaten) \cup {c}, !.supersedes[c] = old, !.beats[c] = lost]
    BY DEF Survives
  <2> HIDE DEF lost
  <2>3. Survives(run, c, old, beaten) \in DeepRun
    <3> DEFINE wins == (run.wins \ beaten) \cup {c}
               supersedes == [run.supersedes EXCEPT ![c] = old]
               beats == [run.beats EXCEPT ![c] = lost]
    <3>1. /\ wins \in SUBSET Ids
          /\ supersedes \in [Ids -> SUBSET Ids]
          /\ beats \in [Ids -> SUBSET Ids]
      BY <1>2, <1>5, <2>1 DEF DeepRun, Neighbours
    <3>2. Survives(run, c, old, beaten)
            = [run EXCEPT !.wins = wins, !.supersedes = supersedes, !.beats = beats]
      BY <1>5, <2>2 DEF DeepRun
    <3> HIDE DEF wins, supersedes, beats
    <3>3. QED
      BY <1>5, <3>1, <3>2 DEF DeepRun
  <2>4. Survives(run, c, old, beaten).pc = run.pc
    BY <1>5, <2>2 DEF DeepRun
  <2>5. QED
    BY <1>6, <1>8, <2>3, <2>4
<1>9. ASSUME NEW p \in run.wins, NEW beaten \in SUBSET run.wins,
             deep' = [deep EXCEPT ![d] =
               [run EXCEPT !.wins = @ \ beaten, !.beats[p] = @ \cup {c}]]
      PROVE  TypeInv'
  <2> DEFINE r == [run EXCEPT !.wins = @ \ beaten, !.beats[p] = @ \cup {c}]
  <2>1. r \in DeepRun
    BY <1>2, <1>5 DEF DeepRun
  <2>2. r.pc = run.pc
    BY <1>5 DEF DeepRun
  <2>3. deep' = [deep EXCEPT ![d] = r]
    BY <1>9
  <2> HIDE DEF r
  <2>4. QED
    BY <1>6, <2>1, <2>2, <2>3
<1>10. QED
  BY <1>4, <1>7, <1>8, <1>9
LEMMA DeepDecideType ==
  ASSUME TypeInv, NEW d \in DeepRuns, DeepRetire(d) \/ DeepCheck(d)
  PROVE  TypeInv'
<1> USE DEF DeepRest
<1>1. deep[d] \in DeepRun
  BY DeepTyped
<1>2. CASE DeepRetire(d)
  <2>1. PICK c \in {b \in Ids : deep[d].blocked[b] # None} :
          RetireCandidate(d, c, deep[d].blocked[c],
                          [deep[d] EXCEPT !.blocked[c] = None, !.current = None])
    BY <1>2 DEF DeepRetire
  <2> DEFINE run == [deep[d] EXCEPT !.blocked[c] = None, !.current = None]
  <2>2. run \in DeepRun /\ deep[d].blocked[c] \in Ids /\ c \in Ids
    BY <1>1, <2>1 DEF DeepRun
  <2>3. RetireCandidate(d, c, deep[d].blocked[c], run)
    BY <2>1
  <2> HIDE DEF run
  <2>4. QED
    BY <1>2, <2>2, <2>3, RetireCandidateType DEF DeepRetire
<1>3. CASE DeepCheck(d)
  <2>1. PICK c \in deep[d].wins :
          \/ Raise(d)
          \/ Step(d, [deep[d] EXCEPT !.wins = @ \ {c}]) /\ UNCHANGED dbVars
          \/ /\ Step(d, [[deep[d] EXCEPT !.wins = @ \ {c}] EXCEPT
                           !.pc = "claim", !.current = c,
                           !.evidence = View(d).cand[c].sources])
             /\ UNCHANGED dbVars
    BY <1>3 DEF DeepCheck
  <2> DEFINE run == [deep[d] EXCEPT !.wins = @ \ {c}]
  <2>2. c \in Ids /\ run \in DeepRun /\ run.pc = "decide"
    BY <1>1, <1>3 DEF DeepRun, DeepCheck
  <2>3. View(d).cand[c].sources \in SUBSET Rows
    BY <2>2, DeepTyped DEF Store, Candidate
  <2>4. CASE Raise(d)
    BY <1>3, <2>4, RaiseType DEF DeepCheck
  <2>5. CASE Step(d, run) /\ UNCHANGED dbVars
    <3>1. DeepShape(run)
      BY <2>2 DEF DeepShape
    <3> HIDE DEF run
    <3>2. QED
      BY <1>3, <2>2, <2>5, <3>1, DeepMoves DEF DeepCheck
  <2>6. CASE /\ Step(d, [run EXCEPT !.pc = "claim", !.current = c,
                                    !.evidence = View(d).cand[c].sources])
             /\ UNCHANGED dbVars
    <3> DEFINE claiming == [run EXCEPT !.pc = "claim", !.current = c,
                                       !.evidence = View(d).cand[c].sources]
    <3> HIDE DEF run
    <3>1. claiming \in DeepRun /\ DeepShape(claiming)
      BY <2>2, <2>3 DEF DeepRun, DeepShape
    <3>2. Step(d, claiming)
      BY <2>6
    <3> HIDE DEF claiming
    <3>3. QED
      BY <1>3, <2>6, <3>1, <3>2, DeepMoves DEF DeepCheck
  <2>7. QED
    BY <2>1, <2>4, <2>5, <2>6
<1>4. QED
  BY <1>2, <1>3

LEMMA DeepPromoteType ==
  ASSUME TypeInv, NEW d \in DeepRuns,
         DeepClaim(d) \/ DeepInsert(d) \/ DeepEmbed(d) \/ DeepLink(d)
  PROVE  TypeInv'
<1> DEFINE c == deep[d].current
           s == View(d)
<1>1. deep[d] \in DeepRun /\ s \in Store /\ c \in Ids
  BY DeepTyped DEF DeepShape, DeepClaim, DeepInsert, DeepEmbed, DeepLink
<1>2. DeepRest(d)
  BY DEF DeepRest, DeepClaim, DeepInsert, DeepEmbed, DeepLink
<1>3. CASE DeepClaim(d)
  <2>1. \/ /\ Write(d, [s EXCEPT !.cand[c].marks = @ \cup {"promoted"}])
           /\ Step(d, [deep[d] EXCEPT !.pc = "insert"])
        \/ Write(d, s) /\ Step(d, LostClaim(deep[d]))
    BY <1>3 DEF DeepClaim
  <2> HIDE DEF s
  <2>2. [s EXCEPT !.cand[c].marks = @ \cup {"promoted"}] \in Store
    BY <1>1, StoreTypes
  <2>3. /\ [deep[d] EXCEPT !.pc = "insert"] \in DeepRun
        /\ DeepShape([deep[d] EXCEPT !.pc = "insert"])
    BY <1>1 DEF DeepRun, DeepShape
  <2>4. LostClaim(deep[d]) \in DeepRun /\ DeepShape(LostClaim(deep[d]))
    BY <1>1 DEF LostClaim, DeepRun, DeepShape
  <2> HIDE DEF c
  <2>5. QED
    BY <1>1, <1>2, <2>1, <2>2, <2>3, <2>4, DeepWrites
<1>4. CASE DeepInsert(d)
  <2>1. /\ Write(d, [s EXCEPT !.fact[c] =
             [NoFact EXCEPT !.status = "bare", !.sources = deep[d].evidence,
                            !.missed = missed[d]]])
        /\ Step(d, [deep[d] EXCEPT !.pc = "embed"])
    BY <1>4 DEF DeepInsert
  <2> HIDE DEF s
  <2>2. [s EXCEPT !.fact[c] =
          [NoFact EXCEPT !.status = "bare", !.sources = deep[d].evidence,
                         !.missed = missed[d]]] \in Store
    <3>1. deep[d].evidence \in SUBSET Rows /\ missed[d] \in SUBSET Rows
      BY <1>1 DEF DeepRun, TypeInv, TypeOK
    <3>2. QED
      BY <1>1, <3>1, StoreTypes
  <2>3. /\ [deep[d] EXCEPT !.pc = "embed"] \in DeepRun
        /\ DeepShape([deep[d] EXCEPT !.pc = "embed"])
    BY <1>1 DEF DeepRun, DeepShape
  <2> HIDE DEF c
  <2>4. QED
    BY <1>2, <2>1, <2>2, <2>3, DeepWrites
<1>5. CASE DeepEmbed(d)
  <2>1. /\ Write(d, [s EXCEPT !.fact[c].status = "live"])
        /\ Step(d, [deep[d] EXCEPT !.pc = "link"])
    BY <1>5 DEF DeepEmbed
  <2> HIDE DEF s
  <2>2. [s EXCEPT !.fact[c].status = "live"] \in Store
    BY <1>1, StoreTypes
  <2>3. /\ [deep[d] EXCEPT !.pc = "link"] \in DeepRun
        /\ DeepShape([deep[d] EXCEPT !.pc = "link"])
    BY <1>1 DEF DeepRun, DeepShape
  <2> HIDE DEF c
  <2>4. QED
    BY <1>2, <2>1, <2>2, <2>3, DeepWrites
<1>6. CASE DeepLink(d)
  <2>1. Write(d, s) /\ Step(d, Continue(deep[d]))
    BY <1>6 DEF DeepLink
  <2> HIDE DEF s
  <2>2. Continue(deep[d]) \in DeepRun /\ DeepShape(Continue(deep[d]))
    BY <1>1, ContinueType
  <2> HIDE DEF c
  <2>3. QED
    BY <1>1, <1>2, <2>1, <2>2, DeepWrites
<1>7. QED
  BY <1>3, <1>4, <1>5, <1>6

LEMMA DeepRetireBeatenType ==
  ASSUME TypeInv, NEW d \in DeepRuns, DeepSupersede(d) \/ DeepBeat(d)
  PROVE  TypeInv'
<1> DEFINE c == deep[d].current
           s == View(d)
<1>1. deep[d] \in DeepRun /\ s \in Store /\ c \in Ids
  BY DeepTyped DEF DeepShape, DeepSupersede, DeepBeat
<1>2. DeepRest(d)
  BY DEF DeepRest, DeepSupersede, DeepBeat
<1>3. CASE DeepSupersede(d)
  <2>1. PICK f \in deep[d].supersedes[c] :
          /\ Write(d, IF s.fact[f].status = "retired" THEN s
                      ELSE [s EXCEPT !.fact[f].status = "retired", !.fact[f].by = c])
          /\ Step(d, Continue([deep[d] EXCEPT !.supersedes[c] = @ \ {f}]))
    BY <1>3 DEF DeepSupersede
  <2> DEFINE new == IF s.fact[f].status = "retired" THEN s
                    ELSE [s EXCEPT !.fact[f].status = "retired", !.fact[f].by = c]
             run == [deep[d] EXCEPT !.supersedes[c] = @ \ {f}]
  <2>2. Write(d, new) /\ Step(d, Continue(run))
    BY <2>1
  <2> HIDE DEF s
  <2>3. f \in Ids /\ run \in DeepRun
    BY <1>1 DEF DeepRun
  <2>4. new \in Store
    BY <1>1, <2>3, StoreTypes
  <2>5. Continue(run) \in DeepRun /\ DeepShape(Continue(run))
    BY <2>3, ContinueType
  <2> HIDE DEF new, run
  <2>6. QED
    BY <1>2, <2>2, <2>4, <2>5, DeepWrites
<1>4. CASE DeepBeat(d)
  <2>1. PICK b \in deep[d].beats[c] :
          RetireCandidate(d, b, c, [deep[d] EXCEPT !.beats[c] = @ \ {b}])
    BY <1>4 DEF DeepBeat
  <2> DEFINE run == [deep[d] EXCEPT !.beats[c] = @ \ {b}]
  <2>2. b \in Ids /\ run \in DeepRun
    BY <1>1 DEF DeepRun
  <2>3. RetireCandidate(d, b, c, run)
    BY <2>1
  <2> HIDE DEF run, c
  <2>4. QED
    BY <1>1, <1>2, <2>2, <2>3, RetireCandidateType
<1>5. QED
  BY <1>3, <1>4

LEMMA DeepEndType ==
  ASSUME TypeInv, NEW d \in DeepRuns, DeepFinish(d) \/ DeepFails(d)
  PROVE  TypeInv'
<1>1. NoDeep \in DeepRun /\ DeepShape(NoDeep) /\ EmptyStore \in Store
  BY EmptyTypes DEF NoDeep, DeepShape
<1>2. Step(d, NoDeep) /\ DeepRest(d)
  BY DEF DeepRest, DeepFinish, DeepFails
<1>3. db' \in Store /\ txnImage' \in Store /\ txnOwner' \in DeepRuns \cup {Nobody}
  <2>1. CASE DeepFinish(d)
    BY <1>1, <2>1, DeepTyped DEF DeepFinish
  <2>2. CASE DeepFails(d)
    BY <1>1, <2>2, DeepTyped DEF DeepFails
  <2>3. QED
    BY <2>1, <2>2
<1>4. QED
  BY <1>1, <1>2, <1>3, DeepFrame

LEMMA DeepStepType ==
  ASSUME TypeInv, NEW d \in DeepRuns, DeepStep(d)
  PROVE  TypeInv'
  BY DeepReadType, DeepJudgeType, DeepDecideType, DeepPromoteType,
     DeepRetireBeatenType, DeepEndType DEF DeepStep

LEMMA TypeNext == TypeInv /\ [Next]_vars => TypeInv'
<1> SUFFICES ASSUME TypeInv, [Next]_vars PROVE TypeInv'
  OBVIOUS
<1>1. CASE AppendMessage
  <2>1. lastMessage \in 0 .. MaxMessages /\ watermark \in 0 .. lastMessage
    BY DEF TypeInv, TypeOK
  <2>2. lastMessage' \in 0 .. MaxMessages /\ watermark' \in 0 .. lastMessage'
    BY <1>1, <2>1, TiersAssumption DEF AppendMessage
  <2>3. TypeOK'
    BY <1>1, <2>2 DEF AppendMessage, TypeInv, TypeOK, dbVars
  <2>4. \A l \in LightRuns : LightShape(light[l], lastMessage)'
    <3> TAKE l \in LightRuns
    <3>1. LightShape(light[l], lastMessage') /\ light' = light
      BY <1>1, <2>1, LightTyped, TiersAssumption DEF AppendMessage, LightShape
    <3>2. QED
      BY <3>1 DEF LightShape
  <2>5. QED
    BY <1>1, <2>3, <2>4 DEF AppendMessage, TypeInv
<1>2. CASE \E l \in LightRuns : LightStep(l)
  BY <1>2, LightStepType
<1>3. CASE \E d \in DeepRuns : DeepStep(d)
  BY <1>3, DeepStepType
<1>4. CASE UNCHANGED vars
  BY <1>4 DEF TypeInv, TypeOK, vars, transcriptVars, dbVars
<1>5. QED
  BY <1>1, <1>2, <1>3, <1>4 DEF Next

LEMMA TypeInvariant == Spec => []TypeInv
  BY TypeInit, TypeNext, PTL DEF Spec

\* Every variable keeps its type, in particular the watermark stays within the
\* transcript, for any number of cycles, rows and candidates (pipeline.py
\* 424-545, deep.py 219-390).
THEOREM TypeCorrect == Spec => []TypeOK
<1>1. TypeInv => TypeOK
  BY DEF TypeInv
<1>2. QED
  BY <1>1, TypeInvariant, PTL

-------------------------------------------------------------------------------
\* Extraction: the watermark and what has been committed move together.

LEMMA ExtractNext ==
  ASSUME TypeInv, ExtractedOnce, [Next]_vars
  PROVE  ExtractedOnce'
<1>1. ASSUME NEW l \in LightRuns, LightCommit(l), ~Superseded(l)
      PROVE  ExtractedOnce'
  <2> DEFINE from == light[l].observed
             upto == light[l].upto
  <2>1. from \in Nat /\ upto \in Nat /\ from <= upto /\ from = watermark
    BY <1>1, LightTyped DEF Superseded, LightShape
  <2>2. watermark' = upto
    BY <1>1, <2>1 DEF LightCommit, Larger
  <2>3. \A m \in Rows : commits'[m] =
          IF m \in from + 1 .. upto THEN Smaller(2, commits[m] + 1) ELSE commits[m]
    BY <1>1 DEF LightCommit
  <2> HIDE DEF from, upto
  <2>4. ASSUME NEW m \in Rows
        PROVE  commits'[m] = IF m <= watermark' THEN 1 ELSE 0
    <3>1. m \in Nat
      BY DEF Rows
    <3>2. commits[m] = IF m <= from THEN 1 ELSE 0
      BY <2>1 DEF ExtractedOnce
    <3>3. CASE m <= from
      BY <2>1, <2>2, <2>3, <3>1, <3>2, <3>3
    <3>4. CASE from < m /\ m <= upto
      <4>1. commits[m] = 0 /\ m \in from + 1 .. upto
        BY <2>1, <3>1, <3>2, <3>4
      <4>2. Smaller(2, commits[m] + 1) = 1
        BY <4>1 DEF Smaller
      <4>3. QED
        BY <2>2, <2>3, <3>4, <4>1, <4>2
    <3>5. CASE upto < m
      BY <2>1, <2>2, <2>3, <3>1, <3>2, <3>5
    <3>6. QED
      BY <2>1, <3>1, <3>3, <3>4, <3>5
  <2>5. QED
    BY <2>4 DEF ExtractedOnce
<1>2. ASSUME UNCHANGED <<watermark, commits>>
      PROVE  ExtractedOnce'
  BY <1>2 DEF ExtractedOnce
<1>3. ASSUME NEW l \in LightRuns, LightStep(l)
      PROVE  ExtractedOnce'
  <2>1. CASE LightCommit(l)
    BY <1>1, <1>2, <2>1 DEF LightCommit
  <2>2. CASE ~LightCommit(l)
    BY <1>2, <1>3, <2>2 DEF LightStep, LightRead, LightExtract, LightLoad,
                            LightBackfill, LightFails
  <2>3. QED
    BY <2>1, <2>2
<1>4. ASSUME NEW d \in DeepRuns, DeepStep(d)
      PROVE  ExtractedOnce'
  BY <1>2, <1>4 DEF DeepStep, DeepRead, DeepJudge, DeepRetire, DeepCheck, DeepClaim,
                    DeepInsert, DeepEmbed, DeepLink,
                    DeepSupersede, DeepBeat, DeepFinish, DeepFails
<1>5. CASE AppendMessage
  BY <1>2, <1>5 DEF AppendMessage
<1>6. CASE UNCHANGED vars
  BY <1>2, <1>6 DEF vars
<1>7. QED
  BY <1>3, <1>4, <1>5, <1>6 DEF Next

\* However many Light cycles cross, a row is extracted by one committed cycle
\* exactly when the watermark has reached it (candidates.py 1116-1260): the
\* compare-and-set makes the window of the cycle that commits start where the
\* last committed one ended.
THEOREM EachRowOnce == Spec => []ExtractedOnce
<1>1. Init => ExtractedOnce
  BY DEF Init, ExtractedOnce
<1>2. TypeInv /\ ExtractedOnce /\ [Next]_vars => ExtractedOnce'
  BY ExtractNext
<1>3. QED
  BY <1>1, <1>2, TypeInvariant, PTL DEF Spec

-------------------------------------------------------------------------------
\* Fates: what a candidate's marks may be, in the database and in the
\* transaction that is going to replace it.

OneMark(marks) ==
  \/ \E mark \in {"promoted", "retired", "stale"} : marks \subseteq {mark}
  \/ marks \subseteq {"retired", "needs_review"}

StoreFate(s) == \A c \in Ids : OneMark(s.cand[c].marks)

FateInv == StoreFate(db) /\ StoreFate(txnImage)

LEMMA StoreFates ==
  ASSUME NEW s \in Store, StoreFate(s), NEW c \in Ids
  PROVE  /\ \A f : StoreFate(Retired(s, c, f))
         /\ Claimable(s.cand[c]) =>
              StoreFate([s EXCEPT !.cand[c].marks = @ \cup {"promoted"}])
         /\ \A k : StoreFate([s EXCEPT !.fact[c] = k])
         /\ StoreFate([s EXCEPT !.fact[c].status = "live"])
         /\ \A b : StoreFate([s EXCEPT !.fact[c].status = "retired", !.fact[c].by = b])
<1>1. s.cand \in [Ids -> Candidate] /\ s.cand[c] \in Candidate
  BY DEF Store
<1>2. \A f : StoreFate(Retired(s, c, f))
  <2> TAKE f
  <2>1. CASE ~Retirable(s.cand[c])
    BY <2>1 DEF Retired
  <2>2. CASE Retirable(s.cand[c])
    <3> DEFINE t == [s EXCEPT !.cand[c].marks = @ \cup {"retired"}, !.cand[c].by = f]
    <3>1. t.cand[c].marks = s.cand[c].marks \cup {"retired"}
      BY <1>1 DEF Store, Candidate
    <3>2. OneMark(t.cand[c].marks)
      BY <2>2, <3>1 DEF Retirable, OneMark
    <3>3. \A e \in Ids : e # c => t.cand[e] = s.cand[e]
      BY <1>1 DEF Store
    <3>4. Retired(s, c, f) = t
      BY <2>2 DEF Retired
    <3> HIDE DEF t
    <3>5. QED
      BY <3>2, <3>3, <3>4 DEF StoreFate
  <2>3. QED
    BY <2>1, <2>2
<1>3. ASSUME Claimable(s.cand[c])
      PROVE  StoreFate([s EXCEPT !.cand[c].marks = @ \cup {"promoted"}])
  <2> DEFINE t == [s EXCEPT !.cand[c].marks = @ \cup {"promoted"}]
  <2>1. t.cand[c].marks = {"promoted"}
    BY <1>1, <1>3 DEF Store, Candidate, Claimable, Live
  <2>2. \A e \in Ids : e # c => t.cand[e] = s.cand[e]
    BY <1>1 DEF Store
  <2> HIDE DEF t
  <2>3. StoreFate(t)
    BY <2>1, <2>2 DEF StoreFate, OneMark
  <2>4. QED
    BY <2>3 DEF t
<1>4. \A k : [s EXCEPT !.fact[c] = k].cand = s.cand
  BY DEF Store
<1>5. [s EXCEPT !.fact[c].status = "live"].cand = s.cand
  BY DEF Store
<1>6. \A b : [s EXCEPT !.fact[c].status = "retired", !.fact[c].by = b].cand = s.cand
  BY DEF Store
<1>7. QED
  BY <1>2, <1>3, <1>4, <1>5, <1>6 DEF StoreFate

LEMMA BackfilledFate ==
  ASSUME NEW cand \in [Ids -> Candidate], \A c \in Ids : OneMark(cand[c].marks),
         NEW due \in SUBSET Ids, \A c \in due : Missing(cand[c]),
         NEW into, NEW flagged
  PROVE  \A c \in Ids : OneMark(Backfilled(cand, due, into, flagged)[c].marks)
<1> TAKE c \in Ids
<1>1. cand[c] \in Candidate
  OBVIOUS
<1>2. CASE c \in due /\ into[c] # None
  <2>1. Backfilled(cand, due, into, flagged)[c].marks = {"stale"}
    BY <1>1, <1>2 DEF Backfilled, Candidate
  <2>2. QED
    BY <2>1 DEF OneMark
<1>3. CASE ~(c \in due /\ into[c] # None)
  <2>1. Backfilled(cand, due, into, flagged)[c].marks
          = IF c \in due /\ c \in flagged THEN {"needs_review"} ELSE cand[c].marks
    BY <1>1, <1>3 DEF Backfilled, Candidate
  <2>2. QED
    BY <2>1 DEF OneMark
<1>4. QED
  BY <1>2, <1>3

LEMMA WriteFate ==
  ASSUME FateInv, NEW d \in DeepRuns, NEW new, StoreFate(new), Write(d, new)
  PROVE  FateInv'
  BY DEF FateInv, StoreFate, Write

LEMMA ViewFate ==
  ASSUME FateInv, NEW d \in DeepRuns
  PROVE  StoreFate(View(d))
  BY DEF FateInv, View

LEMMA LightStepFate ==
  ASSUME TypeInv, FateInv, NEW l \in LightRuns, LightStep(l)
  PROVE  FateInv'
<1>1. db \in Store /\ db.cand \in [Ids -> Candidate]
  BY DEF TypeInv, TypeOK, Store
<1>2. CASE LightBackfill(l)
  <2> DEFINE due == StillMissing(db.cand, light[l].todo)
  <2>1. due \in SUBSET Ids /\ \A c \in due : Missing(db.cand[c])
    BY LightTyped DEF StillMissing, LightRun
  <2>2. PICK into \in [due -> Ids \cup {None}], flagged \in SUBSET due :
          db' = [db EXCEPT !.cand = Backfilled(@, due, into, flagged)]
    BY <1>2 DEF LightBackfill
  <2> HIDE DEF due
  <2>3. \A c \in Ids : OneMark(Backfilled(db.cand, due, into, flagged)[c].marks)
    BY <1>1, <2>1, BackfilledFate DEF FateInv, StoreFate
  <2>4. db'.cand = Backfilled(db.cand, due, into, flagged)
    BY <1>1, <2>2 DEF Store
  <2>5. QED
    BY <1>2, <2>3, <2>4 DEF LightBackfill, FateInv, StoreFate
<1>3. ASSUME NEW sources \in SUBSET Rows, StoreCandidate(sources), UNCHANGED txnImage
      PROVE  FateInv'
  <2>1. ASSUME NEW m \in Ids, db' = [db EXCEPT !.cand[m].sources = @ \cup sources]
        PROVE  FateInv'
    <3>1. \A c \in Ids : db'.cand[c].marks = db.cand[c].marks
      BY <1>1, <2>1 DEF Store, Candidate
    <3>2. QED
      BY <1>3, <3>1 DEF FateInv, StoreFate
  <2>2. ASSUME NEW c \in Ids, NEW review \in BOOLEAN,
               db' = [db EXCEPT !.cand[c] =
                 [NoCandidate EXCEPT !.sources = sources, !.embedded = TRUE,
                                     !.marks = IF review THEN {"needs_review"} ELSE {}]]
        PROVE  FateInv'
    <3>1. db'.cand[c].marks = IF review THEN {"needs_review"} ELSE {}
      BY <1>1, <2>2 DEF Store, NoCandidate
    <3>2. OneMark(db'.cand[c].marks)
      BY <3>1 DEF OneMark
    <3>3. \A e \in Ids : e # c => db'.cand[e] = db.cand[e]
      BY <1>1, <2>2 DEF Store
    <3>4. QED
      BY <1>3, <3>2, <3>3 DEF FateInv, StoreFate
  <2>3. QED
    BY <1>3, <2>1, <2>2 DEF StoreCandidate
<1>4. CASE LightCommit(l)
  <2>1. light[l].found \in SUBSET Rows
    BY LightTyped DEF LightRun
  <2>2. CASE UNCHANGED db
    BY <1>4, <2>2 DEF LightCommit, FateInv, StoreFate
  <2>3. CASE StoreCandidate(light[l].found)
    BY <1>3, <1>4, <2>1, <2>3 DEF LightCommit
  <2>4. QED
    BY <1>4, <2>2, <2>3 DEF LightCommit
<1>5. CASE LightRead(l) \/ LightExtract(l) \/ LightLoad(l) \/ LightFails(l)
  BY <1>5 DEF LightRead, LightExtract, LightLoad, LightFails, dbVars, FateInv, StoreFate
<1>6. QED
  BY <1>2, <1>4, <1>5 DEF LightStep

LEMMA RetireCandidateFate ==
  ASSUME TypeInv, FateInv, NEW d \in DeepRuns, NEW c \in Ids, NEW f, NEW run,
         RetireCandidate(d, c, f, run)
  PROVE  FateInv'
<1>1. StoreFate(Retired(View(d), c, f))
  BY DeepTyped, ViewFate, StoreFates
<1>2. CASE Write(d, Retired(View(d), c, f))
  BY <1>1, <1>2, WriteFate
<1>3. CASE UNCHANGED dbVars
  BY <1>3 DEF dbVars, FateInv, StoreFate
<1>4. QED
  BY <1>2, <1>3 DEF RetireCandidate, Raise

LEMMA DeepStepFate ==
  ASSUME TypeInv, FateInv, NEW d \in DeepRuns, DeepStep(d)
  PROVE  FateInv'
<1> DEFINE c == deep[d].current
           s == View(d)
<1>1. deep[d] \in DeepRun /\ s \in Store /\ StoreFate(s)
  BY DeepTyped, ViewFate
<1>2. CASE UNCHANGED dbVars
  BY <1>2 DEF dbVars, FateInv, StoreFate
<1>3. CASE DeepRead(d) \/ DeepJudge(d) \/ DeepCheck(d)
  BY <1>2, <1>3 DEF DeepRead, DeepJudge, DeepCheck, Raise
<1>4. CASE DeepRetire(d)
  <2>1. PICK b \in Ids : \E f, run : RetireCandidate(d, b, f, run)
    BY <1>4 DEF DeepRetire
  <2>2. QED
    BY <2>1, RetireCandidateFate
<1>5. CASE DeepBeat(d)
  <2>1. PICK b \in deep[d].beats[c] : \E f, run : RetireCandidate(d, b, f, run)
    BY <1>5 DEF DeepBeat
  <2>2. b \in Ids
    <3>1. c \in Ids
      BY <1>5, DeepTyped DEF DeepBeat, DeepShape
    <3>2. QED
      BY <1>1, <3>1 DEF DeepRun
  <2>3. QED
    BY <2>1, <2>2, RetireCandidateFate
<1>6. CASE DeepClaim(d)
  <2>1. c \in Ids
    BY <1>6, DeepTyped DEF DeepClaim, DeepShape
  <2>2. \/ /\ Claimable(s.cand[c])
           /\ Write(d, [s EXCEPT !.cand[c].marks = @ \cup {"promoted"}])
        \/ Write(d, s)
    BY <1>6 DEF DeepClaim
  <2> HIDE DEF s, c
  <2>3. QED
    BY <1>1, <2>1, <2>2, StoreFates, WriteFate
<1>7. CASE DeepInsert(d) \/ DeepEmbed(d) \/ DeepLink(d)
  <2>1. c \in Ids
    BY <1>7, DeepTyped DEF DeepInsert, DeepEmbed, DeepLink, DeepShape
  <2>2. \/ \E k : Write(d, [s EXCEPT !.fact[c] = k])
        \/ Write(d, [s EXCEPT !.fact[c].status = "live"])
        \/ Write(d, s)
    BY <1>7 DEF DeepInsert, DeepEmbed, DeepLink
  <2> HIDE DEF s, c
  <2>3. QED
    BY <1>1, <2>1, <2>2, StoreFates, WriteFate
<1>8. CASE DeepSupersede(d)
  <2>1. PICK f \in deep[d].supersedes[c] :
          Write(d, IF s.fact[f].status = "retired" THEN s
                   ELSE [s EXCEPT !.fact[f].status = "retired", !.fact[f].by = c])
    BY <1>8 DEF DeepSupersede
  <2>2. f \in Ids
    <3>1. c \in Ids
      BY <1>8, DeepTyped DEF DeepSupersede, DeepShape
    <3>2. QED
      BY <1>1, <3>1 DEF DeepRun
  <2> HIDE DEF s, c
  <2>3. QED
    BY <1>1, <2>1, <2>2, StoreFates, WriteFate
<1>9. CASE DeepFinish(d) \/ DeepFails(d)
  <2>1. StoreFate(EmptyStore)
    BY DEF StoreFate, OneMark, EmptyStore, NoCandidate
  <2>2. db' \in {db, s} /\ txnImage' \in {txnImage, EmptyStore}
    BY <1>9 DEF DeepFinish, DeepFails
  <2> HIDE DEF s
  <2>3. StoreFate(db') /\ StoreFate(txnImage')
    BY <1>1, <2>1, <2>2 DEF FateInv
  <2>4. QED
    BY <2>3 DEF FateInv, StoreFate
<1>10. QED
  BY <1>3, <1>4, <1>5, <1>6, <1>7, <1>8, <1>9 DEF DeepStep

LEMMA FateInit == Init => FateInv
<1> SUFFICES ASSUME Init PROVE FateInv
  OBVIOUS
<1>1. PICK imported \in 0 .. MaxCandidates :
        db = [EmptyStore EXCEPT !.cand = [c \in Ids |->
          IF c <= imported THEN [NoCandidate EXCEPT !.sources = {1}] ELSE NoCandidate]]
  BY DEF Init
<1>2. \A c \in Ids : db.cand[c].marks = {}
  BY <1>1 DEF EmptyStore, NoCandidate
<1>3. \A c \in Ids : txnImage.cand[c].marks = {}
  BY DEF Init, EmptyStore, NoCandidate
<1>4. QED
  BY <1>2, <1>3 DEF FateInv, StoreFate, OneMark

\* A candidate leaves staging once: promoted, retired or stale, whatever cycles
\* select, claim, retire and backfill it at the same time (candidates.py
\* 546-659, 1284-1335).  OneFate speaks of the database; the image of an open
\* transaction must satisfy it as well, since its commit replaces the database.
THEOREM FateIsOne == Spec => []OneFate
<1>1. FateInv => OneFate
  BY DEF FateInv, StoreFate, OneMark, OneFate
<1>2. TypeInv /\ FateInv /\ [Next]_vars => FateInv'
  <2> SUFFICES ASSUME TypeInv, FateInv, [Next]_vars PROVE FateInv'
    OBVIOUS
  <2>1. CASE AppendMessage
    BY <2>1 DEF AppendMessage, dbVars, FateInv, StoreFate
  <2>2. CASE UNCHANGED vars
    BY <2>2 DEF vars, dbVars, FateInv, StoreFate
  <2>3. QED
    BY <2>1, <2>2, LightStepFate, DeepStepFate DEF Next
<1>3. QED
  BY <1>1, <1>2, FateInit, TypeInvariant, PTL DEF Spec

-------------------------------------------------------------------------------
(***************************************************************************)
(* What the stores mean to each other: that facts and retirements are      *)
(* justified, that evidence is kept, that a promotion on SQLite is all or  *)
(* nothing.  All rest on the fact that a store only grows and that the     *)
(* image of an open transaction has grown from the database it will        *)
(* replace.                                                                *)
(***************************************************************************)

\* Stores only grow: sources are added, a promotion and a fact are never taken
\* back, and the image of an open transaction has grown from the database.

Known(s, c) == s.fact[c].status # "none"

Grows(s, t) ==
  \A c \in Ids : /\ s.cand[c].sources \subseteq t.cand[c].sources
                 /\ "promoted" \in s.cand[c].marks => "promoted" \in t.cand[c].marks
                 /\ Known(s, c) => Known(t, c)

\* A row that does not exist yet carries no mark.
Fresh(s) == \A c \in Ids : s.cand[c].sources = {} => s.cand[c].marks = {}

TxnInv ==
  /\ autocommit => txnOwner = Nobody
  /\ txnOwner # Nobody => Grows(db, txnImage)
  /\ Fresh(db) /\ Fresh(txnImage)

LEMMA GrowsOrder ==
  /\ \A s : Grows(s, s)
  /\ \A r, s, t : Grows(r, s) /\ Grows(s, t) => Grows(r, t)
  BY DEF Grows

\* What the writes of a promotion and of a retirement do to a store.
LEMMA RetiredEffect ==
  ASSUME NEW s \in Store, NEW c \in Ids, NEW f
  PROVE  LET t == Retired(s, c, f) IN
         /\ t.fact = s.fact
         /\ \A e \in Ids : t.cand[e].sources = s.cand[e].sources
         /\ \A e \in Ids : e # c => t.cand[e] = s.cand[e]
         /\ \/ t.cand[c] = s.cand[c]
            \/ /\ t.cand[c].marks = s.cand[c].marks \cup {"retired"}
               /\ t.cand[c].by = f
               /\ s.cand[c].marks \subseteq {"needs_review"} /\ s.cand[c].sources # {}
<1>1. s.cand \in [Ids -> Candidate] /\ s.cand[c] \in Candidate
  BY DEF Store
<1>2. CASE ~Retirable(s.cand[c])
  BY <1>2 DEF Retired
<1>3. CASE Retirable(s.cand[c])
  <2> DEFINE t == [s EXCEPT !.cand[c].marks = @ \cup {"retired"}, !.cand[c].by = f]
  <2>1. Retired(s, c, f) = t
    BY <1>3 DEF Retired
  <2>2. t.fact = s.fact /\ \A e \in Ids : e # c => t.cand[e] = s.cand[e]
    BY <1>1 DEF Store
  <2>3. /\ t.cand[c].sources = s.cand[c].sources
        /\ t.cand[c].marks = s.cand[c].marks \cup {"retired"}
        /\ t.cand[c].by = f
    BY <1>1 DEF Store, Candidate
  <2> HIDE DEF t
  <2>4. QED
    BY <1>3, <2>1, <2>2, <2>3 DEF Retirable
<1>4. QED
  BY <1>2, <1>3

LEMMA ClaimEffect ==
  ASSUME NEW s \in Store, NEW c \in Ids, Claimable(s.cand[c])
  PROVE  LET t == [s EXCEPT !.cand[c].marks = @ \cup {"promoted"}] IN
         /\ t.fact = s.fact
         /\ \A e \in Ids : t.cand[e].sources = s.cand[e].sources
         /\ \A e \in Ids : e # c => t.cand[e] = s.cand[e]
         /\ t.cand[c].marks = {"promoted"} /\ t.cand[c].by = s.cand[c].by
         /\ s.cand[c].sources # {} /\ s.cand[c].marks = {}
<1>1. s.cand \in [Ids -> Candidate] /\ s.cand[c] \in Candidate
  BY DEF Store
<1>2. s.cand[c].marks = {} /\ s.cand[c].sources # {}
  BY DEF Claimable, Live
<1>3. QED
  BY <1>1, <1>2 DEF Store, Candidate

LEMMA InsertEffect ==
  ASSUME NEW s \in Store, NEW c \in Ids, NEW e, NEW m
  PROVE  LET t == [s EXCEPT !.fact[c] =
                     [NoFact EXCEPT !.status = "bare", !.sources = e, !.missed = m]] IN
         /\ t.cand = s.cand
         /\ \A f \in Ids : f # c => t.fact[f] = s.fact[f]
         /\ t.fact[c].status = "bare" /\ t.fact[c].sources = e /\ t.fact[c].missed = m
  BY DEF Store, NoFact

LEMMA EmbedEffect ==
  ASSUME NEW s \in Store, NEW c \in Ids
  PROVE  LET t == [s EXCEPT !.fact[c].status = "live"] IN
         /\ t.cand = s.cand
         /\ \A f \in Ids : f # c => t.fact[f] = s.fact[f]
         /\ t.fact[c].status = "live" /\ t.fact[c].sources = s.fact[c].sources
         /\ t.fact[c].missed = s.fact[c].missed
<1>1. s.fact[c] \in Fact
  BY DEF Store
<1>2. QED
  BY <1>1 DEF Store, Fact

LEMMA SupersedeEffect ==
  ASSUME NEW s \in Store, NEW f \in Ids, NEW c \in Ids
  PROVE  LET t == [s EXCEPT !.fact[f].status = "retired", !.fact[f].by = c] IN
         /\ t.cand = s.cand
         /\ \A g \in Ids : g # f => t.fact[g] = s.fact[g]
         /\ t.fact[f].status = "retired" /\ t.fact[f].by = c
         /\ t.fact[f].sources = s.fact[f].sources
         /\ t.fact[f].missed = s.fact[f].missed
<1>1. s.fact[f] \in Fact
  BY DEF Store
<1>2. QED
  BY <1>1 DEF Store, Fact

\* The five ways in which a step of Deep may change what it sees: four that
\* leave every citation as it is, and the insertion of a fact.
Adjust(s, t) ==
  \/ t = s
  \/ \E c \in Ids, f \in Ids : t = Retired(s, c, f)
  \/ \E c \in Ids : Claimable(s.cand[c]) /\ t = [s EXCEPT !.cand[c].marks = @ \cup {"promoted"}]
  \/ \E c \in Ids : t = [s EXCEPT !.fact[c].status = "live"]
  \/ \E f \in Ids, c \in Ids : t = [s EXCEPT !.fact[f].status = "retired", !.fact[f].by = c]

Change(s, t) ==
  \/ Adjust(s, t)
  \/ \E c \in Ids, e \in SUBSET Rows, m \in SUBSET Rows : t = [s EXCEPT !.fact[c] =
       [NoFact EXCEPT !.status = "bare", !.sources = e, !.missed = m]]

LEMMA ChangeGrows ==
  ASSUME NEW s \in Store, NEW t, Change(s, t)
  PROVE  Grows(s, t)
<1>1. CASE t = s
  BY <1>1, GrowsOrder
<1>2. ASSUME NEW c \in Ids, NEW f \in Ids, t = Retired(s, c, f)
      PROVE  Grows(s, t)
  BY <1>2, RetiredEffect DEF Grows, Known
<1>3. ASSUME NEW c \in Ids, Claimable(s.cand[c]),
             t = [s EXCEPT !.cand[c].marks = @ \cup {"promoted"}]
      PROVE  Grows(s, t)
  BY <1>3, ClaimEffect DEF Grows, Known
<1>4. ASSUME NEW c \in Ids, NEW e \in SUBSET Rows, NEW m \in SUBSET Rows,
             t = [s EXCEPT !.fact[c] =
                    [NoFact EXCEPT !.status = "bare", !.sources = e, !.missed = m]]
      PROVE  Grows(s, t)
  BY <1>4, InsertEffect DEF Grows, Known
<1>5. ASSUME NEW c \in Ids, t = [s EXCEPT !.fact[c].status = "live"]
      PROVE  Grows(s, t)
  BY <1>5, EmbedEffect DEF Grows, Known
<1>6. ASSUME NEW f \in Ids, NEW c \in Ids,
             t = [s EXCEPT !.fact[f].status = "retired", !.fact[f].by = c]
      PROVE  Grows(s, t)
  BY <1>6, SupersedeEffect DEF Grows, Known
<1>7. QED
  BY <1>1, <1>2, <1>3, <1>4, <1>5, <1>6 DEF Change, Adjust

\* A Deep cycle that goes on leaves the stores alone or writes one change; one
\* that ends commits or rolls back.
LEMMA DeepAdjusts ==
  ASSUME TypeInv, NEW d \in DeepRuns, DeepStep(d), ~DeepInsert(d)
  PROVE  \/ UNCHANGED dbVars
         \/ \E t \in Store : Write(d, t) /\ Adjust(View(d), t)
         \/ DeepFinish(d)
         \/ DeepFails(d)
<1> DEFINE c == deep[d].current
           s == View(d)
<1>1. deep[d] \in DeepRun /\ s \in Store
  BY DeepTyped
<1>2. ASSUME NEW b \in Ids, NEW f \in Ids, NEW run, RetireCandidate(d, b, f, run)
      PROVE  UNCHANGED dbVars \/ \E t \in Store : Write(d, t) /\ Adjust(s, t)
  <2>1. Retired(s, b, f) \in Store
    BY <1>1, StoreTypes
  <2>2. Adjust(s, Retired(s, b, f))
    BY DEF Adjust
  <2>3. QED
    BY <1>2, <2>1, <2>2 DEF RetireCandidate, Raise
<1>3. CASE DeepRead(d) \/ DeepJudge(d) \/ DeepCheck(d)
  BY <1>3 DEF DeepRead, DeepJudge, DeepCheck, Raise
<1>4. CASE DeepRetire(d)
  <2>1. PICK b \in Ids : \E run : deep[d].blocked[b] # None
                                    /\ RetireCandidate(d, b, deep[d].blocked[b], run)
    BY <1>4 DEF DeepRetire
  <2>2. deep[d].blocked[b] \in Ids
    BY <1>1, <2>1 DEF DeepRun
  <2>3. QED
    BY <1>2, <2>1, <2>2
<1>5. CASE DeepBeat(d)
  <2>1. c \in Ids
    BY <1>5, DeepTyped DEF DeepBeat, DeepShape
  <2>2. PICK b \in deep[d].beats[c] : \E run : RetireCandidate(d, b, c, run)
    BY <1>5 DEF DeepBeat
  <2>3. b \in Ids
    BY <1>1, <2>1 DEF DeepRun
  <2> HIDE DEF c
  <2>4. QED
    BY <1>2, <2>1, <2>2, <2>3
<1>6. CASE DeepClaim(d) \/ DeepEmbed(d) \/ DeepLink(d)
  <2>1. c \in Ids
    BY <1>6, DeepTyped DEF DeepClaim, DeepEmbed, DeepLink, DeepShape
  <2>2. PICK t : /\ Write(d, t)
                 /\ \/ t = s
                    \/ /\ Claimable(s.cand[c])
                       /\ t = [s EXCEPT !.cand[c].marks = @ \cup {"promoted"}]
                    \/ t = [s EXCEPT !.fact[c].status = "live"]
    BY <1>6 DEF DeepClaim, DeepEmbed, DeepLink
  <2> HIDE DEF s, c
  <2>3. t \in Store
    <3>1. CASE t = [s EXCEPT !.cand[c].marks = @ \cup {"promoted"}]
      BY <1>1, <2>1, <3>1, StoreTypes
    <3>2. CASE t = [s EXCEPT !.fact[c].status = "live"]
      BY <1>1, <2>1, <3>2, StoreTypes
    <3>3. QED
      BY <1>1, <2>2, <3>1, <3>2
  <2>4. Adjust(s, t)
    BY <2>1, <2>2 DEF Adjust
  <2>5. QED
    BY <2>2, <2>3, <2>4 DEF s
<1>7. CASE DeepSupersede(d)
  <2>1. c \in Ids
    BY <1>7, DeepTyped DEF DeepSupersede, DeepShape
  <2>2. PICK f \in deep[d].supersedes[c] :
          Write(d, IF s.fact[f].status = "retired" THEN s
                   ELSE [s EXCEPT !.fact[f].status = "retired", !.fact[f].by = c])
    BY <1>7 DEF DeepSupersede
  <2>3. f \in Ids
    BY <1>1, <2>1 DEF DeepRun
  <2> HIDE DEF s, c
  <2>4. PICK t : Write(d, t) /\ (t = s \/ t = [s EXCEPT !.fact[f].status = "retired",
                                                          !.fact[f].by = c])
    BY <2>2
  <2>5. t \in Store
    <3>1. CASE t = [s EXCEPT !.fact[f].status = "retired", !.fact[f].by = c]
      BY <1>1, <2>1, <2>3, <3>1, StoreTypes
    <3>2. QED
      BY <1>1, <2>4, <3>1
  <2>6. Adjust(s, t)
    BY <2>1, <2>3, <2>4 DEF Adjust
  <2>7. QED
    BY <2>4, <2>5, <2>6 DEF s
<1>8. QED
  BY <1>3, <1>4, <1>5, <1>6, <1>7 DEF DeepStep

LEMMA InsertWrites ==
  ASSUME TypeInv, NEW d \in DeepRuns, DeepInsert(d)
  PROVE  LET c == deep[d].current
             t == [View(d) EXCEPT !.fact[c] =
                     [NoFact EXCEPT !.status = "bare", !.sources = deep[d].evidence,
                                    !.missed = missed[d]]]
         IN  c \in Ids /\ t \in Store /\ Write(d, t) /\ Change(View(d), t)
<1> DEFINE c == deep[d].current
           s == View(d)
           e == deep[d].evidence
           m == missed[d]
           t == [s EXCEPT !.fact[c] =
                   [NoFact EXCEPT !.status = "bare", !.sources = e, !.missed = m]]
<1>1. s \in Store /\ c \in Ids
  BY DeepTyped DEF DeepInsert, DeepShape
<1>2. e \in SUBSET Rows /\ m \in SUBSET Rows
  BY DeepTyped DEF DeepRun, TypeInv, TypeOK
<1>3. Write(d, t)
  BY DEF DeepInsert
<1> HIDE DEF s, c, e, m
<1>4. t \in Store /\ Change(s, t)
  BY <1>1, <1>2, StoreTypes DEF Change
<1>5. QED
  BY <1>1, <1>3, <1>4 DEF s, c, e, m

LEMMA DeepChanges ==
  ASSUME TypeInv, NEW d \in DeepRuns, DeepStep(d)
  PROVE  \/ UNCHANGED dbVars
         \/ \E t \in Store : Write(d, t) /\ Change(View(d), t)
         \/ DeepFinish(d)
         \/ DeepFails(d)
<1>1. CASE DeepInsert(d)
  BY <1>1, InsertWrites
<1>2. CASE ~DeepInsert(d)
  BY <1>2, DeepAdjusts DEF Change
<1>3. QED
  BY <1>1, <1>2

LEMMA ChangeFresh ==
  ASSUME NEW s \in Store, Fresh(s), NEW t, Change(s, t)
  PROVE  Fresh(t)
<1>1. ASSUME NEW c \in Ids, NEW f \in Ids, t = Retired(s, c, f)
      PROVE  Fresh(t)
  BY <1>1, RetiredEffect DEF Fresh
<1>2. ASSUME NEW c \in Ids, Claimable(s.cand[c]),
             t = [s EXCEPT !.cand[c].marks = @ \cup {"promoted"}]
      PROVE  Fresh(t)
  BY <1>2, ClaimEffect DEF Fresh
<1>3. ASSUME t.cand = s.cand
      PROVE  Fresh(t)
  BY <1>3 DEF Fresh
<1>4. ASSUME NEW c \in Ids, NEW e \in SUBSET Rows, NEW m \in SUBSET Rows,
             t = [s EXCEPT !.fact[c] =
                    [NoFact EXCEPT !.status = "bare", !.sources = e, !.missed = m]]
      PROVE  Fresh(t)
  BY <1>3, <1>4, InsertEffect
<1>5. ASSUME NEW c \in Ids, t = [s EXCEPT !.fact[c].status = "live"]
      PROVE  Fresh(t)
  BY <1>3, <1>5, EmbedEffect
<1>6. ASSUME NEW f \in Ids, NEW c \in Ids,
             t = [s EXCEPT !.fact[f].status = "retired", !.fact[f].by = c]
      PROVE  Fresh(t)
  BY <1>3, <1>6, SupersedeEffect
<1>7. QED
  BY <1>1, <1>2, <1>3, <1>4, <1>5, <1>6 DEF Change, Adjust

\* What the backfill and the dedup of a new candidate do.
LEMMA BackfilledEffect ==
  ASSUME NEW cand \in [Ids -> Candidate], NEW due, NEW into, NEW flagged, NEW c \in Ids
  PROVE  /\ Backfilled(cand, due, into, flagged)[c].by = cand[c].by
         /\ c \in due /\ into[c] # None =>
              /\ Backfilled(cand, due, into, flagged)[c].sources = cand[c].sources
              /\ Backfilled(cand, due, into, flagged)[c].marks = {"stale"}
         /\ ~(c \in due /\ into[c] # None) =>
              /\ Backfilled(cand, due, into, flagged)[c].sources
                   = MergedSources(cand, due, into, c)
              /\ Backfilled(cand, due, into, flagged)[c].marks
                   = IF c \in due /\ c \in flagged THEN {"needs_review"} ELSE cand[c].marks
<1>1. cand[c] \in Candidate
  OBVIOUS
<1>2. QED
  BY <1>1 DEF Backfilled, Candidate

LEMMA StoredEffect ==
  ASSUME TypeInv, NEW sources \in SUBSET Rows, StoreCandidate(sources)
  PROVE  /\ db'.fact = db.fact
         /\ \/ \E m \in Ids :
                 /\ Mergeable(db.cand[m])
                 /\ \A e \in Ids : e # m => db'.cand[e] = db.cand[e]
                 /\ db'.cand[m].sources = db.cand[m].sources \cup sources
                 /\ db'.cand[m].marks = db.cand[m].marks
                 /\ db'.cand[m].by = db.cand[m].by
            \/ \E c \in Ids :
                 /\ db.cand[c].sources = {}
                 /\ \A e \in Ids : e # c => db'.cand[e] = db.cand[e]
                 /\ db'.cand[c].sources = sources
                 /\ db'.cand[c].marks \subseteq {"needs_review"}
<1>1. db \in Store /\ db.cand \in [Ids -> Candidate]
  BY DEF TypeInv, TypeOK, Store
<1>2. ASSUME NEW m \in Ids, Mergeable(db.cand[m]),
             db' = [db EXCEPT !.cand[m].sources = @ \cup sources]
      PROVE  /\ db'.fact = db.fact
             /\ \A e \in Ids : e # m => db'.cand[e] = db.cand[e]
             /\ db'.cand[m].sources = db.cand[m].sources \cup sources
             /\ db'.cand[m].marks = db.cand[m].marks
             /\ db'.cand[m].by = db.cand[m].by
  <2>1. db.cand[m] \in Candidate
    BY <1>1
  <2>2. QED
    BY <1>1, <1>2, <2>1 DEF Store, Candidate
<1>3. ASSUME NEW c \in Ids, NEW review \in BOOLEAN,
             db' = [db EXCEPT !.cand[c] =
               [NoCandidate EXCEPT !.sources = sources, !.embedded = TRUE,
                                   !.marks = IF review THEN {"needs_review"} ELSE {}]]
      PROVE  /\ db'.fact = db.fact
             /\ \A e \in Ids : e # c => db'.cand[e] = db.cand[e]
             /\ db'.cand[c].sources = sources
             /\ db'.cand[c].marks \subseteq {"needs_review"}
  <2>1. db'.cand[c].marks = IF review THEN {"needs_review"} ELSE {}
    BY <1>1, <1>3 DEF Store, NoCandidate
  <2>2. db'.cand[c].sources = sources
    BY <1>1, <1>3 DEF Store, NoCandidate
  <2>3. db'.fact = db.fact /\ \A e \in Ids : e # c => db'.cand[e] = db.cand[e]
    BY <1>1, <1>3 DEF Store
  <2>4. QED
    BY <2>1, <2>2, <2>3
<1>4. CASE \E m \in {n \in Ids : Mergeable(db.cand[n])} :
             db' = [db EXCEPT !.cand[m].sources = @ \cup sources]
  BY <1>2, <1>4
<1>5. CASE \E c \in {e \in Ids : db.cand[e].sources = {}}, review \in BOOLEAN :
             db' = [db EXCEPT !.cand[c] =
               [NoCandidate EXCEPT !.sources = sources, !.embedded = TRUE,
                                   !.marks = IF review THEN {"needs_review"} ELSE {}]]
  BY <1>3, <1>5
<1>6. QED
  BY <1>4, <1>5 DEF StoreCandidate

\* A step of Light leaves every transaction alone and writes only while none
\* is open.
LEMMA LightGrows ==
  ASSUME TypeInv, Fresh(db), NEW l \in LightRuns, LightStep(l)
  PROVE  /\ Grows(db, db') /\ Fresh(db')
         /\ UNCHANGED <<autocommit, txnOwner, txnImage, deep>>
         /\ db' = db \/ txnOwner = Nobody
<1>1. db \in Store /\ db.cand \in [Ids -> Candidate]
  BY DEF TypeInv, TypeOK, Store
<1>2. CASE LightBackfill(l)
  <2> DEFINE due == StillMissing(db.cand, light[l].todo)
  <2>1. due \in SUBSET Ids /\ \A c \in due : Missing(db.cand[c])
    BY LightTyped DEF StillMissing, LightRun
  <2>2. PICK into \in [due -> Ids \cup {None}], flagged \in SUBSET due :
          db' = [db EXCEPT !.cand = Backfilled(@, due, into, flagged)]
    BY <1>2 DEF LightBackfill
  <2> HIDE DEF due
  <2>3. db'.cand = Backfilled(db.cand, due, into, flagged) /\ db'.fact = db.fact
    BY <1>1, <2>2 DEF Store
  <2>4. \A c \in due : db.cand[c].marks = {} /\ db.cand[c].sources # {}
    BY <2>1 DEF Missing, Live
  <2>5. \A c \in Ids : db.cand[c].sources \subseteq MergedSources(db.cand, due, into, c)
    BY DEF MergedSources
  <2>6. ASSUME NEW c \in Ids
        PROVE  /\ db.cand[c].sources \subseteq db'.cand[c].sources
               /\ c \notin due => db'.cand[c].marks = db.cand[c].marks
    <3> DEFINE k == Backfilled(db.cand, due, into, flagged)[c]
    <3>1. /\ k.sources \in {db.cand[c].sources, MergedSources(db.cand, due, into, c)}
          /\ c \notin due => k.marks = db.cand[c].marks
      <4>1. CASE c \in due /\ into[c] # None
        BY <1>1, <4>1, BackfilledEffect
      <4>2. CASE ~(c \in due /\ into[c] # None)
        BY <1>1, <4>2, BackfilledEffect
      <4>3. QED
        BY <4>1, <4>2
    <3>2. db'.cand[c] = k
      BY <2>3
    <3> HIDE DEF k
    <3>3. QED
      BY <2>5, <3>1, <3>2
  <2>7. \A c \in Ids : c \notin due => db'.cand[c].marks = db.cand[c].marks
    BY <2>6
  <2>8. Grows(db, db') /\ Fresh(db')
    BY <2>3, <2>4, <2>6, <2>7 DEF Grows, Fresh, Known
  <2>9. QED
    BY <1>2, <2>8 DEF LightBackfill, transcriptVars
<1>3. CASE LightCommit(l)
  <2>1. light[l].found \in SUBSET Rows
    BY LightTyped DEF LightRun
  <2>2. CASE UNCHANGED db
    BY <1>3, <2>2, GrowsOrder DEF LightCommit, transcriptVars, Fresh, Grows, Known
  <2>3. CASE light[l].found # {} /\ StoreCandidate(light[l].found)
    <3>1. Grows(db, db') /\ Fresh(db')
      BY <2>1, <2>3, StoredEffect DEF Grows, Known, Fresh, Mergeable, Live
    <3>2. QED
      BY <1>3, <3>1 DEF LightCommit, transcriptVars
  <2>4. QED
    BY <1>3, <2>2, <2>3 DEF LightCommit
<1>4. CASE LightRead(l) \/ LightExtract(l) \/ LightLoad(l) \/ LightFails(l)
  <2>1. UNCHANGED <<autocommit, db, txnOwner, txnImage, deep>>
    BY <1>4 DEF LightRead, LightExtract, LightLoad, LightFails, dbVars, transcriptVars
  <2>2. QED
    BY <2>1, GrowsOrder DEF Fresh, Grows, Known
<1>5. QED
  BY <1>2, <1>3, <1>4 DEF LightStep

LEMMA StoresGrow ==
  ASSUME TypeInv, TxnInv, [Next]_vars
  PROVE  /\ TxnInv'
         /\ Grows(db, db')
         /\ \A e \in DeepRuns : Grows(View(e), View(e)') \/ deep'[e] = NoDeep
<1>1. /\ Nobody \notin DeepRuns
      /\ \A e \in DeepRuns : Grows(db, View(e))
  BY TiersAssumption, GrowsOrder DEF TxnInv, View
<1>2. ASSUME UNCHANGED <<autocommit, txnOwner, txnImage>>, Grows(db, db'), Fresh(db'),
             db' = db \/ txnOwner = Nobody
      PROVE  /\ TxnInv'
             /\ \A e \in DeepRuns : Grows(View(e), View(e)')
  <2>1. TxnInv'
    BY <1>2 DEF TxnInv, Fresh, Grows, Known
  <2>2. \A e \in DeepRuns : Grows(View(e), View(e)')
    <3> TAKE e \in DeepRuns
    <3>1. View(e)' = IF txnOwner = e THEN txnImage ELSE db'
      BY <1>2 DEF View
    <3>2. QED
      BY <1>2, <3>1, GrowsOrder DEF View
  <2>3. QED
    BY <2>1, <2>2
<1>3. ASSUME NEW l \in LightRuns, LightStep(l)
      PROVE  /\ TxnInv' /\ Grows(db, db')
             /\ \A e \in DeepRuns : Grows(View(e), View(e)')
  BY <1>2, <1>3, LightGrows DEF TxnInv
<1>4. ASSUME UNCHANGED <<autocommit, dbVars>>
      PROVE  /\ TxnInv' /\ Grows(db, db')
             /\ \A e \in DeepRuns : Grows(View(e), View(e)')
  BY <1>2, <1>4, GrowsOrder DEF TxnInv, dbVars, Fresh
<1>5. ASSUME NEW d \in DeepRuns, NEW t \in Store, Write(d, t), Change(View(d), t),
             autocommit' = autocommit
      PROVE  /\ TxnInv' /\ Grows(db, db')
             /\ \A e \in DeepRuns : Grows(View(e), View(e)')
  <2>1. Grows(View(d), t) /\ Grows(db, t)
    BY <1>1, <1>5, DeepTyped, ChangeGrows, GrowsOrder
  <2>2. Fresh(t)
    <3>1. Fresh(View(d))
      BY DEF TxnInv, View
    <3>2. QED
      BY <1>5, <3>1, DeepTyped, ChangeFresh
  <2>3. CASE autocommit
    <3>1. txnOwner = Nobody /\ txnOwner' = Nobody /\ db' = t /\ txnImage' = txnImage
      BY <1>5, <2>3 DEF Write, TxnInv
    <3>2. \A e \in DeepRuns : View(e) = db /\ View(e)' = t
      BY <1>1, <3>1 DEF View
    <3>3. TxnInv'
      BY <2>2, <3>1 DEF TxnInv, Fresh
    <3>4. QED
      BY <2>1, <3>1, <3>2, <3>3
  <2>4. CASE ~autocommit
    <3>1. txnOwner \in {d, Nobody} /\ txnOwner' = d /\ txnImage' = t /\ db' = db
      BY <1>5, <2>4 DEF Write
    <3>2. View(d)' = t /\ \A e \in DeepRuns : e # d => View(e)' = View(e)
      BY <1>1, <3>1 DEF View
    <3>3. TxnInv'
      BY <1>5, <2>1, <2>2, <2>4, <3>1 DEF TxnInv, Fresh, Grows, Known
    <3>4. Grows(db, db')
      BY <3>1, GrowsOrder
    <3>5. \A e \in DeepRuns : Grows(View(e), View(e)')
      BY <2>1, <3>2, GrowsOrder
    <3>6. QED
      BY <3>3, <3>4, <3>5
  <2>5. QED
    BY <2>3, <2>4
<1>6. ASSUME NEW d \in DeepRuns, DeepFinish(d) \/ DeepFails(d)
      PROVE  /\ TxnInv' /\ Grows(db, db')
             /\ \A e \in DeepRuns : Grows(View(e), View(e)') \/ deep'[e] = NoDeep
  <2>1. deep'[d] = NoDeep /\ autocommit' = autocommit
    BY <1>6 DEF DeepFinish, DeepFails, Step, transcriptVars, TypeInv, TypeOK
  <2>2. Fresh(EmptyStore)
    BY DEF Fresh, EmptyStore, NoCandidate
  <2>3. CASE DeepFinish(d)
    <3>1. /\ txnOwner \in {d, Nobody} /\ txnOwner' = Nobody
          /\ db' = View(d) /\ txnImage' = EmptyStore
      BY <2>3 DEF DeepFinish
    <3>2. Grows(db, db')
      BY <1>1, <3>1
    <3>3. \A e \in DeepRuns : e # d => View(e) = db /\ View(e)' = db'
      BY <1>1, <3>1 DEF View
    <3>4. Fresh(View(d))
      BY DEF TxnInv, View
    <3>5. TxnInv'
      BY <2>2, <3>1, <3>4 DEF TxnInv, Fresh
    <3>6. QED
      BY <2>1, <3>2, <3>3, <3>5
  <2>4. CASE DeepFails(d)
    <3>1. CASE txnOwner = d
      <4>1. txnOwner' = Nobody /\ txnImage' = EmptyStore /\ db' = db
        BY <2>4, <3>1 DEF DeepFails
      <4>2. \A e \in DeepRuns : e # d => View(e)' = View(e)
        BY <1>1, <3>1, <4>1 DEF View
      <4>3. TxnInv'
        BY <2>2, <4>1 DEF TxnInv, Fresh
      <4>4. QED
        BY <2>1, <4>1, <4>2, <4>3, GrowsOrder
    <3>2. CASE txnOwner # d
      <4>1. UNCHANGED <<autocommit, dbVars>>
        BY <2>1, <2>4, <3>2 DEF DeepFails, dbVars
      <4>2. QED
        BY <1>4, <4>1
    <3>3. QED
      BY <3>1, <3>2
  <2>5. QED
    BY <1>6, <2>3, <2>4
<1>7. ASSUME NEW d \in DeepRuns, DeepStep(d)
      PROVE  autocommit' = autocommit
  BY <1>7 DEF DeepStep, DeepRead, DeepJudge, DeepRetire, DeepCheck, DeepClaim, DeepInsert,
              DeepEmbed, DeepLink,
              DeepSupersede, DeepBeat, DeepFinish, DeepFails, transcriptVars
<1>8. CASE \E d \in DeepRuns : DeepStep(d)
  BY <1>4, <1>5, <1>6, <1>7, <1>8, DeepChanges
<1>9. CASE AppendMessage \/ UNCHANGED vars
  BY <1>4, <1>9 DEF AppendMessage, vars, dbVars, transcriptVars
<1>10. QED
  BY <1>3, <1>8, <1>9 DEF Next

LEMMA TxnInit == Init => TxnInv
<1> SUFFICES ASSUME Init PROVE TxnInv
  OBVIOUS
<1>1. PICK imported \in 0 .. MaxCandidates :
        db = [EmptyStore EXCEPT !.cand = [c \in Ids |->
          IF c <= imported THEN [NoCandidate EXCEPT !.sources = {1}] ELSE NoCandidate]]
  BY DEF Init
<1>2. \A c \in Ids : db.cand[c].marks = {}
  BY <1>1 DEF EmptyStore, NoCandidate
<1>3. \A c \in Ids : txnImage.cand[c].marks = {}
  BY DEF Init, EmptyStore, NoCandidate
<1>4. QED
  BY <1>2, <1>3 DEF Init, TxnInv, Fresh

LEMMA TxnInvariant == Spec => []TxnInv
<1>1. TypeInv /\ TxnInv /\ [Next]_vars => TxnInv'
  BY StoresGrow
<1>2. QED
  BY <1>1, TxnInit, TypeInvariant, PTL DEF Spec

-------------------------------------------------------------------------------
\* Soundness: provenance and the facts that retired what is retired.

\* What a Deep cycle holds is true of what it sees.
RunHolds(run, s) ==
  /\ \A c \in Ids : run.blocked[c] # None => Known(s, run.blocked[c])
  /\ \A c \in Ids : \A f \in run.supersedes[c] : Known(s, f)
  /\ run.pc \in {"claim", "insert"} =>
       run.evidence # {} /\ run.evidence \subseteq s.cand[run.current].sources
  /\ run.pc = "insert" => "promoted" \in s.cand[run.current].marks
  /\ run.pc \in {"embed", "link", "supersede"} => Known(s, run.current)

Sound(s, last) ==
  \A c \in Ids :
    /\ s.cand[c].sources \subseteq 1 .. last
    /\ Known(s, c) => /\ s.fact[c].sources # {}
                      /\ s.fact[c].sources \subseteq s.cand[c].sources
                      /\ "promoted" \in s.cand[c].marks
    /\ "retired" \in s.cand[c].marks => s.cand[c].by # None /\ Known(s, s.cand[c].by)
    /\ s.fact[c].status = "retired" => s.fact[c].by # None /\ Known(s, s.fact[c].by)

SoundInv ==
  /\ TxnInv
  /\ \A d \in DeepRuns : RunHolds(deep[d], View(d))
  /\ Sound(db, watermark) /\ Sound(txnImage, watermark)

LEMMA RunGrows ==
  ASSUME NEW run \in DeepRun, DeepShape(run), NEW s, NEW t, RunHolds(run, s), Grows(s, t)
  PROVE  RunHolds(run, t)
<1>1. \A c \in Ids : run.blocked[c] \in Ids \cup {None} /\ run.supersedes[c] \subseteq Ids
  BY DEF DeepRun
<1>2. \A c \in Ids : Known(s, c) => Known(t, c)
  BY DEF Grows
<1>3. \A c \in Ids : run.blocked[c] # None => Known(t, run.blocked[c])
  BY <1>1, <1>2 DEF RunHolds
<1>4. \A c \in Ids : \A f \in run.supersedes[c] : Known(t, f)
  BY <1>1, <1>2 DEF RunHolds
<1>5. run.pc \in {"claim", "insert"} =>
        run.evidence # {} /\ run.evidence \subseteq t.cand[run.current].sources
  BY DEF RunHolds, Grows, DeepShape
<1>6. run.pc = "insert" => "promoted" \in t.cand[run.current].marks
  BY DEF RunHolds, Grows, DeepShape
<1>7. run.pc \in {"embed", "link", "supersede"} => Known(t, run.current)
  BY <1>2 DEF RunHolds, DeepShape
<1>8. QED
  BY <1>3, <1>4, <1>5, <1>6, <1>7 DEF RunHolds

\* Decisions alone, for a cycle between two promotions.
Decided(run, s) ==
  /\ \A c \in Ids : run.blocked[c] # None => Known(s, run.blocked[c])
  /\ \A c \in Ids : \A f \in run.supersedes[c] : Known(s, f)

LEMMA DecidedHolds ==
  ASSUME NEW run \in DeepRun, NEW s, Decided(run, s),
         run.pc \in {"idle", "judge", "decide", "raised"}
  PROVE  RunHolds(run, s)
  BY DEF Decided, RunHolds

LEMMA ContinueHolds ==
  ASSUME NEW run \in DeepRun, NEW s, Decided(run, s),
         run.current = None \/ Known(s, run.current)
  PROVE  RunHolds(Continue(run), s)
<1> DEFINE pc == IF run.current = None THEN "decide"
                 ELSE IF run.supersedes[run.current] = {} /\ run.beats[run.current] = {}
                      THEN "decide" ELSE "supersede"
<1>1. pc \in {"decide", "supersede"} /\ (pc = "supersede" => run.current # None)
  OBVIOUS
<1>2. Continue(run) = [run EXCEPT !.pc = pc]
  BY DEF Continue
<1> HIDE DEF pc
<1>3. /\ Continue(run).pc = pc /\ Continue(run).blocked = run.blocked
      /\ Continue(run).supersedes = run.supersedes /\ Continue(run).current = run.current
  BY <1>2 DEF DeepRun
<1>4. QED
  BY <1>1, <1>3 DEF RunHolds, Decided

LEMMA WriteView ==
  ASSUME TxnInv, NEW d \in DeepRuns, NEW t, Write(d, t)
  PROVE  View(d)' = t
  BY TiersAssumption DEF Write, View, TxnInv

LEMMA SoundWrites ==
  ASSUME NEW s \in Store, NEW last \in Nat, Sound(s, last), NEW c \in Ids
  PROVE  /\ \A f \in Ids : Known(s, f) => Sound(Retired(s, c, f), last)
         /\ Claimable(s.cand[c]) =>
              Sound([s EXCEPT !.cand[c].marks = @ \cup {"promoted"}], last)
         /\ \A e, m : e # {} /\ e \subseteq s.cand[c].sources
                      /\ "promoted" \in s.cand[c].marks
              => Sound([s EXCEPT !.fact[c] = [NoFact EXCEPT
                          !.status = "bare", !.sources = e, !.missed = m]], last)
         /\ Known(s, c) => Sound([s EXCEPT !.fact[c].status = "live"], last)
         /\ \A f \in Ids : Known(s, f) /\ Known(s, c) =>
              Sound([s EXCEPT !.fact[f].status = "retired", !.fact[f].by = c], last)
<1>1. None \notin Ids
  BY DEF None, Ids
<1>2. \A f \in Ids : Known(s, f) => Sound(Retired(s, c, f), last)
  <2> SUFFICES ASSUME NEW f \in Ids, Known(s, f) PROVE Sound(Retired(s, c, f), last)
    OBVIOUS
  <2> DEFINE t == Retired(s, c, f)
  <2>1. /\ t.fact = s.fact
        /\ \A e \in Ids : t.cand[e].sources = s.cand[e].sources
        /\ \A e \in Ids : e # c => t.cand[e] = s.cand[e]
        /\ \/ t.cand[c] = s.cand[c]
           \/ /\ t.cand[c].marks = s.cand[c].marks \cup {"retired"}
              /\ t.cand[c].by = f
    BY RetiredEffect
  <2> HIDE DEF t
  <2>2. Sound(t, last)
    BY <1>1, <2>1 DEF Sound, Known
  <2>3. QED
    BY <2>2 DEF t
<1>3. ASSUME Claimable(s.cand[c])
      PROVE  Sound([s EXCEPT !.cand[c].marks = @ \cup {"promoted"}], last)
  <2> DEFINE t == [s EXCEPT !.cand[c].marks = @ \cup {"promoted"}]
  <2>1. /\ t.fact = s.fact
        /\ \A e \in Ids : t.cand[e].sources = s.cand[e].sources
        /\ \A e \in Ids : e # c => t.cand[e] = s.cand[e]
        /\ t.cand[c].marks = {"promoted"}
    BY <1>3, ClaimEffect
  <2> HIDE DEF t
  <2>2. Sound(t, last)
    BY <2>1 DEF Sound, Known
  <2>3. QED
    BY <2>2 DEF t
<1>4. ASSUME NEW e, NEW m, e # {}, e \subseteq s.cand[c].sources,
             "promoted" \in s.cand[c].marks
      PROVE  Sound([s EXCEPT !.fact[c] = [NoFact EXCEPT
                      !.status = "bare", !.sources = e, !.missed = m]], last)
  <2> DEFINE t == [s EXCEPT !.fact[c] = [NoFact EXCEPT
                     !.status = "bare", !.sources = e, !.missed = m]]
  <2>1. /\ t.cand = s.cand
        /\ \A f \in Ids : f # c => t.fact[f] = s.fact[f]
        /\ t.fact[c].status = "bare" /\ t.fact[c].sources = e
    BY InsertEffect
  <2> HIDE DEF t
  <2>2. \A f : Known(s, f) /\ f \in Ids => Known(t, f)
    BY <2>1 DEF Known
  <2>3. \A f \in Ids : s.cand[f].by \in Ids \cup {None} /\ s.fact[f].by \in Ids \cup {None}
    BY DEF Store, Candidate, Fact
  <2>4. Sound(t, last)
    <3>1. ASSUME NEW f \in Ids
          PROVE  "retired" \in t.cand[f].marks => t.cand[f].by # None /\ Known(t, t.cand[f].by)
      BY <2>1, <2>2, <2>3 DEF Sound
    <3>2. ASSUME NEW f \in Ids, t.fact[f].status = "retired"
          PROVE  t.fact[f].by # None /\ Known(t, t.fact[f].by)
      BY <2>1, <2>2, <2>3, <3>2 DEF Sound
    <3>3. ASSUME NEW f \in Ids, Known(t, f)
          PROVE  /\ t.fact[f].sources # {}
                 /\ t.fact[f].sources \subseteq t.cand[f].sources
                 /\ "promoted" \in t.cand[f].marks
      BY <1>4, <2>1, <3>3 DEF Sound, Known
    <3>4. \A f \in Ids : t.cand[f].sources \subseteq 1 .. last
      BY <2>1 DEF Sound
    <3>5. QED
      BY <3>1, <3>2, <3>3, <3>4 DEF Sound
  <2>5. QED
    BY <2>4 DEF t
<1>5. ASSUME Known(s, c)
      PROVE  Sound([s EXCEPT !.fact[c].status = "live"], last)
  <2> DEFINE t == [s EXCEPT !.fact[c].status = "live"]
  <2>1. /\ t.cand = s.cand
        /\ \A f \in Ids : f # c => t.fact[f] = s.fact[f]
        /\ t.fact[c].status = "live" /\ t.fact[c].sources = s.fact[c].sources
    BY EmbedEffect
  <2> HIDE DEF t
  <2>2. \A f \in Ids : s.cand[f].by \in Ids \cup {None} /\ s.fact[f].by \in Ids \cup {None}
    BY DEF Store, Candidate, Fact
  <2>3. \A f \in Ids : Known(t, f) <=> Known(s, f)
    BY <1>5, <2>1 DEF Known
  <2>4. Sound(t, last)
    BY <1>5, <2>1, <2>2, <2>3 DEF Sound
  <2>5. QED
    BY <2>4 DEF t
<1>6. ASSUME NEW f \in Ids, Known(s, f), Known(s, c)
      PROVE  Sound([s EXCEPT !.fact[f].status = "retired", !.fact[f].by = c], last)
  <2> DEFINE t == [s EXCEPT !.fact[f].status = "retired", !.fact[f].by = c]
  <2>1. /\ t.cand = s.cand
        /\ \A g \in Ids : g # f => t.fact[g] = s.fact[g]
        /\ t.fact[f].status = "retired" /\ t.fact[f].by = c
        /\ t.fact[f].sources = s.fact[f].sources
    BY SupersedeEffect
  <2> HIDE DEF t
  <2>2. \A g \in Ids : s.cand[g].by \in Ids \cup {None} /\ s.fact[g].by \in Ids \cup {None}
    BY DEF Store, Candidate, Fact
  <2>3. \A g \in Ids : Known(t, g) <=> Known(s, g)
    BY <1>6, <2>1 DEF Known
  <2>4. Sound(t, last)
    BY <1>1, <1>6, <2>1, <2>2, <2>3 DEF Sound
  <2>5. QED
    BY <2>4 DEF t
<1>7. QED
  BY <1>2, <1>3, <1>4, <1>5, <1>6

LEMMA LightSound ==
  ASSUME TypeInv, SoundInv, NEW l \in LightRuns, LightStep(l)
  PROVE  Sound(db', watermark') /\ Sound(txnImage', watermark')
<1>1. /\ db \in Store /\ db.cand \in [Ids -> Candidate]
      /\ watermark \in Nat /\ watermark <= lastMessage
  BY LightTyped DEF Store
<1>2. ASSUME NEW s, NEW w \in Nat, watermark <= w, Sound(s, watermark)
      PROVE  Sound(s, w)
  <2>1. 1 .. watermark \subseteq 1 .. w
    BY <1>1, <1>2
  <2>2. QED
    BY <1>2, <2>1 DEF Sound
<1>3. CASE LightBackfill(l)
  <2> DEFINE due == StillMissing(db.cand, light[l].todo)
  <2>1. due \in SUBSET Ids /\ \A c \in due : db.cand[c].marks = {}
    BY LightTyped DEF StillMissing, LightRun, Missing, Live
  <2>2. PICK into \in [due -> Ids \cup {None}], flagged \in SUBSET due :
          db' = [db EXCEPT !.cand = Backfilled(@, due, into, flagged)]
    BY <1>3 DEF LightBackfill
  <2> HIDE DEF due
  <2>3. db'.cand = Backfilled(db.cand, due, into, flagged) /\ db'.fact = db.fact
    BY <1>1, <2>2 DEF Store
  <2>4. \A c \in Ids : MergedSources(db.cand, due, into, c) \subseteq 1 .. watermark
    BY <2>1 DEF MergedSources, SoundInv, Sound
  <2>5. ASSUME NEW c \in Ids
        PROVE  /\ db'.cand[c].by = db.cand[c].by
               /\ db'.cand[c].sources \subseteq 1 .. watermark
               /\ "retired" \in db'.cand[c].marks => "retired" \in db.cand[c].marks
    <3>1. db.cand[c].sources \subseteq 1 .. watermark
      BY DEF SoundInv, Sound
    <3>2. CASE c \in due /\ into[c] # None
      BY <1>1, <2>3, <3>1, <3>2, BackfilledEffect
    <3>3. CASE ~(c \in due /\ into[c] # None)
      BY <1>1, <2>3, <2>4, <3>3, BackfilledEffect
    <3>4. QED
      BY <3>2, <3>3
  <2>6. Grows(db, db')
    BY <1>3, LightGrows DEF SoundInv, TxnInv, LightStep
  <2>7. Sound(db', watermark)
    <3>1. \A c \in Ids : Known(db', c) <=> Known(db, c)
      BY <2>3 DEF Known
    <3>2. \A c \in Ids : db.cand[c].by \in Ids \cup {None} /\ db.fact[c].by \in Ids \cup {None}
      BY <1>1 DEF Store, Candidate, Fact
    <3>3. QED
      BY <2>3, <2>5, <2>6, <3>1, <3>2 DEF SoundInv, Sound, Grows
  <2>8. UNCHANGED <<watermark, txnImage>>
    BY <1>3 DEF LightBackfill
  <2>9. QED
    BY <2>7, <2>8 DEF SoundInv
<1>4. CASE LightCommit(l) /\ ~Superseded(l)
  <2> DEFINE found == light[l].found
  <2>1. watermark' \in Nat /\ watermark <= watermark' /\ light[l].upto <= watermark'
    BY <1>4, LightTyped DEF LightCommit, Larger
  <2>2. found \in SUBSET Rows /\ found \subseteq 1 .. watermark'
    <3>1. found \subseteq light[l].observed + 1 .. light[l].upto
      BY LightTyped DEF LightShape
    <3>2. light[l].observed + 1 .. light[l].upto \subseteq 1 .. watermark'
      BY <2>1, LightTyped
    <3>3. QED
      BY <3>1, <3>2, LightTyped DEF LightRun
  <2>3. Sound(db, watermark') /\ Sound(txnImage, watermark')
    BY <1>2, <2>1 DEF SoundInv
  <2>4. CASE db' = db
    BY <1>4, <2>3, <2>4 DEF LightCommit
  <2>5. CASE StoreCandidate(found)
    <3> HIDE DEF found
    <3>1. \A c \in Ids : db.cand[c].by \in Ids \cup {None} /\ db.fact[c].by \in Ids \cup {None}
      BY <1>1 DEF Store, Candidate, Fact
    <3>2. \/ \E m \in Ids :
               /\ \A e \in Ids : e # m => db'.cand[e] = db.cand[e]
               /\ db'.cand[m].sources = db.cand[m].sources \cup found
               /\ db'.cand[m].marks = db.cand[m].marks
               /\ db'.cand[m].by = db.cand[m].by
          \/ \E c \in Ids :
               /\ db.cand[c].sources = {}
               /\ \A e \in Ids : e # c => db'.cand[e] = db.cand[e]
               /\ db'.cand[c].sources = found
               /\ db'.cand[c].marks \subseteq {"needs_review"}
      BY <2>2, <2>5, StoredEffect
    <3>3. db'.fact = db.fact
      BY <2>2, <2>5, StoredEffect
    <3>4. \A c \in Ids : Known(db', c) <=> Known(db, c)
      BY <3>3 DEF Known
    <3>5. ASSUME NEW m \in Ids,
                 \A e \in Ids : e # m => db'.cand[e] = db.cand[e],
                 db'.cand[m].sources = db.cand[m].sources \cup found,
                 db'.cand[m].marks = db.cand[m].marks,
                 db'.cand[m].by = db.cand[m].by
          PROVE  Sound(db', watermark')
      <4>1. ASSUME NEW c \in Ids
            PROVE  /\ db.cand[c].sources \subseteq db'.cand[c].sources
                   /\ db'.cand[c].sources \subseteq 1 .. watermark'
                   /\ db'.cand[c].marks = db.cand[c].marks
                   /\ db'.cand[c].by = db.cand[c].by
        BY <2>2, <2>3, <3>5 DEF Sound
      <4>2. QED
        BY <2>3, <3>1, <3>3, <3>4, <4>1 DEF Sound
    <3>6. ASSUME NEW c \in Ids, db.cand[c].sources = {},
                 \A e \in Ids : e # c => db'.cand[e] = db.cand[e],
                 db'.cand[c].sources = found,
                 db'.cand[c].marks \subseteq {"needs_review"}
          PROVE  Sound(db', watermark')
      <4>1. ~Known(db, c)
        BY <2>3, <3>6 DEF Sound
      <4>2. ASSUME NEW e \in Ids
            PROVE  /\ db'.cand[e].sources \subseteq 1 .. watermark'
                   /\ Known(db, e) => db'.cand[e] = db.cand[e]
                   /\ "retired" \in db'.cand[e].marks => db'.cand[e] = db.cand[e]
        <5>1. CASE e = c
          BY <2>2, <3>6, <4>1, <5>1
        <5>2. CASE e # c
          BY <2>3, <3>6, <5>2 DEF Sound
        <5>3. QED
          BY <5>1, <5>2
      <4>3. ASSUME NEW e \in Ids, Known(db', e)
            PROVE  /\ db'.fact[e].sources # {}
                   /\ db'.fact[e].sources \subseteq db'.cand[e].sources
                   /\ "promoted" \in db'.cand[e].marks
        BY <2>3, <3>3, <3>4, <4>2, <4>3 DEF Sound
      <4>4. ASSUME NEW e \in Ids, "retired" \in db'.cand[e].marks
            PROVE  db'.cand[e].by # None /\ Known(db', db'.cand[e].by)
        BY <2>3, <3>1, <3>4, <4>2, <4>4 DEF Sound
      <4>5. ASSUME NEW e \in Ids, db'.fact[e].status = "retired"
            PROVE  db'.fact[e].by # None /\ Known(db', db'.fact[e].by)
        BY <2>3, <3>1, <3>3, <3>4, <4>5 DEF Sound
      <4>6. QED
        BY <4>2, <4>3, <4>4, <4>5 DEF Sound
    <3>7. Sound(db', watermark')
      BY <3>2, <3>5, <3>6
    <3>8. QED
      BY <1>4, <2>3, <3>7 DEF LightCommit
  <2>6. QED
    BY <1>4, <2>4, <2>5 DEF LightCommit
<1>5. CASE LightCommit(l) /\ Superseded(l)
  BY <1>5 DEF LightCommit, SoundInv
<1>6. CASE LightRead(l) \/ LightExtract(l) \/ LightLoad(l) \/ LightFails(l)
  BY <1>6 DEF LightRead, LightExtract, LightLoad, LightFails, dbVars, SoundInv
<1>7. QED
  BY <1>3, <1>4, <1>5, <1>6 DEF LightStep

\* Deep's own steps: what the cycle that moves holds afterwards, and that what
\* it wrote is sound.
Advanced(d) ==
  /\ RunHolds(deep[d], View(d))'
  /\ Sound(db', watermark') /\ Sound(txnImage', watermark')

LEMMA AdvanceWrite ==
  ASSUME TypeInv, SoundInv, NEW d \in DeepRuns, NEW run \in DeepRun, Step(d, run),
         NEW t, Write(d, t), RunHolds(run, t), Sound(t, watermark), watermark' = watermark
  PROVE  Advanced(d)
<1>1. View(d)' = t
  BY WriteView DEF SoundInv
<1>2. deep'[d] = run
  BY DEF Step, TypeInv, TypeOK
<1>3. RunHolds(deep[d], View(d))'
  BY <1>1, <1>2 DEF RunHolds, Known
<1>4. db' \in {db, t} /\ txnImage' \in {txnImage, t}
  BY DEF Write
<1>5. QED
  BY <1>3, <1>4 DEF Advanced, SoundInv

LEMMA AdvanceMove ==
  ASSUME TypeInv, SoundInv, NEW d \in DeepRuns, NEW run \in DeepRun, Step(d, run),
         UNCHANGED dbVars, RunHolds(run, View(d)), watermark' = watermark
  PROVE  Advanced(d)
<1>1. View(d)' = View(d)
  BY DEF View, dbVars
<1>2. deep'[d] = run
  BY DEF Step, TypeInv, TypeOK
<1>3. RunHolds(deep[d], View(d))'
  BY <1>1, <1>2 DEF RunHolds, Known
<1>4. QED
  BY <1>3 DEF Advanced, SoundInv, dbVars

\* What a cycle holds before a step, in the words of the lemmas above.
LEMMA Held ==
  ASSUME TypeInv, SoundInv, NEW d \in DeepRuns
  PROVE  /\ RunHolds(deep[d], View(d)) /\ Decided(deep[d], View(d))
         /\ Sound(View(d), watermark) /\ watermark \in Nat
         /\ Grows(db, View(d))
<1>1. RunHolds(deep[d], View(d))
  BY DEF SoundInv
<1>2. Sound(View(d), watermark)
  BY DEF SoundInv, View
<1>3. Grows(db, View(d))
  BY TiersAssumption, GrowsOrder DEF SoundInv, TxnInv, View
<1>4. watermark \in Nat
  BY TiersAssumption DEF TypeInv, TypeOK
<1>5. QED
  BY <1>1, <1>2, <1>3, <1>4 DEF RunHolds, Decided

LEMMA AdvanceRaise ==
  ASSUME TypeInv, SoundInv, NEW d \in DeepRuns, Raise(d), watermark' = watermark
  PROVE  Advanced(d)
<1> DEFINE run == [deep[d] EXCEPT !.pc = "raised"]
<1>1. deep[d] \in DeepRun
  BY DeepTyped
<1>2. run \in DeepRun /\ run.pc = "raised"
  BY <1>1 DEF DeepRun
<1>3. Decided(run, View(d))
  BY <1>1, Held DEF Decided, DeepRun
<1>4. Step(d, run) /\ UNCHANGED dbVars
  BY DEF Raise
<1> HIDE DEF run
<1>5. RunHolds(run, View(d))
  BY <1>2, <1>3, DecidedHolds
<1>6. QED
  BY <1>2, <1>4, <1>5, AdvanceMove

LEMMA AdvanceRetire ==
  ASSUME TypeInv, SoundInv, NEW d \in DeepRuns, NEW c \in Ids, NEW f \in Ids,
         NEW run \in DeepRun, Decided(run, View(d)), Known(View(d), f),
         run.current = None \/ Known(View(d), run.current),
         RetireCandidate(d, c, f, run), watermark' = watermark
  PROVE  Advanced(d)
<1> DEFINE s == View(d)
           t == Retired(s, c, f)
<1>1. s \in Store /\ Sound(s, watermark) /\ watermark \in Nat
  BY DeepTyped, Held
<1>2. t \in Store /\ Sound(t, watermark)
  BY <1>1, StoreTypes, SoundWrites
<1>3. Continue(run) \in DeepRun /\ DeepShape(Continue(run))
  BY ContinueType
<1>4. RunHolds(Continue(run), s)
  BY ContinueHolds
<1>5. Grows(s, t)
  BY <1>1, ChangeGrows DEF Change, Adjust
<1>6. RunHolds(Continue(run), t)
  <2> HIDE DEF s, t
  <2>1. QED
    BY <1>3, <1>4, <1>5, RunGrows
<1>7. CASE Raise(d)
  BY <1>7, AdvanceRaise
<1>8. CASE Write(d, t) /\ Step(d, Continue(run))
  <2> HIDE DEF s, t
  <2>1. QED
    BY <1>2, <1>3, <1>6, <1>8, AdvanceWrite
<1>9. CASE UNCHANGED dbVars /\ Step(d, Continue(run))
  BY <1>3, <1>4, <1>9, AdvanceMove
<1>10. QED
  BY <1>7, <1>8, <1>9 DEF RetireCandidate

LEMMA DeepReadSound ==
  ASSUME TypeInv, SoundInv, NEW d \in DeepRuns, DeepRead(d)
  PROVE  Advanced(d)
<1>1. PICK selected \in SUBSET Ids :
        deep' = [deep EXCEPT ![d] = [NoDeep EXCEPT !.pc = "judge", !.selected = selected]]
  BY DEF DeepRead
<1> DEFINE run == [NoDeep EXCEPT !.pc = "judge", !.selected = selected]
<1>2. run \in DeepRun /\ run.pc = "judge"
  BY EmptyTypes DEF DeepRun, NoDeep
<1>3. Decided(run, View(d))
  BY DEF Decided, NoDeep
<1>4. Step(d, run)
  BY <1>1 DEF Step
<1> HIDE DEF run
<1>5. RunHolds(run, View(d))
  BY <1>2, <1>3, DecidedHolds
<1>6. QED
  BY <1>2, <1>4, <1>5, AdvanceMove DEF DeepRead

\* A judgement decides on live facts only.
Judged(d, run) ==
  /\ Step(d, run)
  /\ run.pc \in {"judge", "decide"}
  /\ \A b \in Ids : run.blocked[b] \in {deep[d].blocked[b]} \cup Neighbours
  /\ \A b \in Ids : run.supersedes[b] \subseteq deep[d].supersedes[b] \cup Neighbours

LEMMA JudgeEffect ==
  ASSUME TypeInv, NEW d \in DeepRuns, DeepJudge(d)
  PROVE  \E run : Judged(d, run)
<1>1. PICK c \in deep[d].selected :
        LET left == deep[d].selected \ {c}
            run == [deep[d] EXCEPT !.selected = left,
                                   !.pc = IF left = {} THEN "decide" ELSE "judge"]
        IN  \/ \E f \in Neighbours :
                 deep' = [deep EXCEPT ![d] = [run EXCEPT !.blocked[c] = f]]
            \/ \E old \in SUBSET Neighbours, beaten \in SUBSET run.wins :
                 deep' = [deep EXCEPT ![d] = Survives(run, c, old, beaten)]
            \/ \E p \in run.wins, beaten \in SUBSET run.wins :
                 /\ p \notin beaten
                 /\ deep' = [deep EXCEPT ![d] =
                      [run EXCEPT !.wins = @ \ beaten, !.beats[p] = @ \cup {c}]]
  BY DEF DeepJudge
<1> DEFINE left == deep[d].selected \ {c}
           pc == IF left = {} THEN "decide" ELSE "judge"
           run == [deep[d] EXCEPT !.selected = left, !.pc = pc]
<1>2. \/ \E f \in Neighbours :
           deep' = [deep EXCEPT ![d] = [run EXCEPT !.blocked[c] = f]]
      \/ \E old \in SUBSET Neighbours, beaten \in SUBSET run.wins :
           deep' = [deep EXCEPT ![d] = Survives(run, c, old, beaten)]
      \/ \E p \in run.wins, beaten \in SUBSET run.wins :
           /\ p \notin beaten
           /\ deep' = [deep EXCEPT ![d] =
                [run EXCEPT !.wins = @ \ beaten, !.beats[p] = @ \cup {c}]]
  BY <1>1
<1>3. pc \in {"judge", "decide"} /\ left \in SUBSET Ids
  BY DeepTyped DEF DeepRun
<1> HIDE DEF left, pc
<1>4. /\ run \in DeepRun /\ run.pc \in {"judge", "decide"}
      /\ run.blocked = deep[d].blocked /\ run.supersedes = deep[d].supersedes
  <2>1. deep[d] \in DeepRun
    BY DeepTyped
  <2>2. run.pc = pc /\ run.blocked = deep[d].blocked /\ run.supersedes = deep[d].supersedes
    BY <2>1 DEF DeepRun
  <2>3. run \in DeepRun
    BY <1>3, <2>1 DEF DeepRun
  <2> QED
    BY <1>3, <2>2, <2>3
<1> HIDE DEF run
<1>5. ASSUME NEW f \in Neighbours, NEW r, r = [run EXCEPT !.blocked[c] = f]
      PROVE  /\ r.pc = run.pc /\ r.supersedes = run.supersedes
             /\ \A b \in Ids : r.blocked[b] \in {run.blocked[b], f}
  BY <1>4, <1>5 DEF DeepRun
<1>6. ASSUME NEW old \in SUBSET Neighbours, NEW beaten, NEW r,
             r = Survives(run, c, old, beaten)
      PROVE  /\ r.pc = run.pc /\ r.blocked = run.blocked
             /\ \A b \in Ids : r.supersedes[b] \in {run.supersedes[b], old}
  BY <1>4, <1>6 DEF DeepRun, Survives
<1>7. ASSUME NEW p, NEW beaten, NEW r,
             r = [run EXCEPT !.wins = @ \ beaten, !.beats[p] = @ \cup {c}]
      PROVE  r.pc = run.pc /\ r.blocked = run.blocked /\ r.supersedes = run.supersedes
  BY <1>4, <1>7 DEF DeepRun
<1>8. CASE \E f \in Neighbours : deep' = [deep EXCEPT ![d] = [run EXCEPT !.blocked[c] = f]]
  <2>1. PICK f \in Neighbours : deep' = [deep EXCEPT ![d] = [run EXCEPT !.blocked[c] = f]]
    BY <1>8
  <2>2. Judged(d, [run EXCEPT !.blocked[c] = f])
    BY <1>4, <1>5, <2>1 DEF Judged, Step
  <2>3. QED
    BY <2>2
<1>9. CASE \E old \in SUBSET Neighbours, beaten \in SUBSET run.wins :
             deep' = [deep EXCEPT ![d] = Survives(run, c, old, beaten)]
  <2>1. PICK old \in SUBSET Neighbours, beaten \in SUBSET run.wins :
          deep' = [deep EXCEPT ![d] = Survives(run, c, old, beaten)]
    BY <1>9
  <2>2. Judged(d, Survives(run, c, old, beaten))
    <3>1. /\ Survives(run, c, old, beaten).pc = run.pc
          /\ Survives(run, c, old, beaten).blocked = run.blocked
          /\ \A b \in Ids : Survives(run, c, old, beaten).supersedes[b]
                              \in {run.supersedes[b], old}
      BY <1>6
    <3>2. QED
      BY <1>4, <2>1, <3>1 DEF Judged, Step
  <2>3. QED
    BY <2>2
<1>10. CASE \E p \in run.wins, beaten \in SUBSET run.wins :
              /\ p \notin beaten
              /\ deep' = [deep EXCEPT ![d] =
                   [run EXCEPT !.wins = @ \ beaten, !.beats[p] = @ \cup {c}]]
  <2>1. PICK p \in run.wins, beaten \in SUBSET run.wins :
          deep' = [deep EXCEPT ![d] =
            [run EXCEPT !.wins = @ \ beaten, !.beats[p] = @ \cup {c}]]
    BY <1>10
  <2> DEFINE r == [run EXCEPT !.wins = @ \ beaten, !.beats[p] = @ \cup {c}]
  <2>2. r.pc = run.pc /\ r.blocked = run.blocked /\ r.supersedes = run.supersedes
    BY <1>7
  <2>3. deep' = [deep EXCEPT ![d] = r]
    BY <2>1
  <2> HIDE DEF r
  <2>4. Judged(d, r)
    BY <1>4, <2>2, <2>3 DEF Judged, Step
  <2>5. QED
    BY <2>4
<1>11. QED
  BY <1>2, <1>8, <1>9, <1>10

\* A fact that beats a candidate, or that a promotion will retire, is one of
\* the database's, and so of whatever the cycle sees.
LEMMA DeepJudgeSound ==
  ASSUME TypeInv, SoundInv, NEW d \in DeepRuns, DeepJudge(d)
  PROVE  Advanced(d)
<1> DEFINE s == View(d)
<1>1. deep[d] \in DeepRun /\ Decided(deep[d], s)
  BY DeepTyped, Held
<1>2. \A f \in Neighbours : f \in Ids /\ Known(s, f)
  BY Held DEF Neighbours, Known, Grows
<1>3. PICK run : Judged(d, run)
  BY JudgeEffect
<1>4. run \in DeepRun
  <2>1. deep'[d] = run /\ TypeInv'
    BY <1>3, DeepJudgeType DEF Judged, Step, TypeInv, TypeOK
  <2>2. QED
    BY <2>1 DEF TypeInv, TypeOK
<1> HIDE DEF s
<1>5. Decided(run, s)
  BY <1>1, <1>2, <1>3 DEF Decided, Judged
<1>6. RunHolds(run, s)
  BY <1>3, <1>4, <1>5, DecidedHolds DEF Judged
<1>7. QED
  BY <1>3, <1>4, <1>6, AdvanceMove DEF DeepJudge, Judged, s

LEMMA DeepDecideSound ==
  ASSUME TypeInv, SoundInv, NEW d \in DeepRuns, DeepRetire(d) \/ DeepCheck(d)
  PROVE  Advanced(d)
<1> DEFINE s == View(d)
<1>1. deep[d] \in DeepRun /\ Decided(deep[d], s) /\ s \in Store
  BY DeepTyped, Held
<1>2. watermark' = watermark
  BY DEF DeepRetire, DeepCheck
<1>3. CASE DeepRetire(d)
  <2>1. PICK c \in {b \in Ids : deep[d].blocked[b] # None} :
          RetireCandidate(d, c, deep[d].blocked[c],
                          [deep[d] EXCEPT !.blocked[c] = None, !.current = None])
    BY <1>3 DEF DeepRetire
  <2> DEFINE run == [deep[d] EXCEPT !.blocked[c] = None, !.current = None]
             f == deep[d].blocked[c]
  <2>2. run \in DeepRun /\ f \in Ids /\ c \in Ids /\ run.current = None
    BY <1>1, <2>1 DEF DeepRun
  <2>3. Known(s, f)
    BY <1>1, <2>1 DEF Decided
  <2>4. Decided(run, s)
    BY <1>1 DEF Decided, DeepRun
  <2>5. RetireCandidate(d, c, f, run)
    BY <2>1
  <2> HIDE DEF run, f
  <2>6. QED
    BY <1>2, <2>2, <2>3, <2>4, <2>5, AdvanceRetire
<1>4. CASE DeepCheck(d)
  <2>1. PICK c \in deep[d].wins :
          \/ Raise(d)
          \/ Step(d, [deep[d] EXCEPT !.wins = @ \ {c}]) /\ UNCHANGED dbVars
          \/ /\ s.cand[c].sources # {}
             /\ Step(d, [[deep[d] EXCEPT !.wins = @ \ {c}] EXCEPT
                           !.pc = "claim", !.current = c, !.evidence = s.cand[c].sources])
             /\ UNCHANGED dbVars
    BY <1>4 DEF DeepCheck
  <2> DEFINE run == [deep[d] EXCEPT !.wins = @ \ {c}]
             e == s.cand[c].sources
  <2>2. /\ c \in Ids /\ run \in DeepRun /\ run.pc = "decide"
        /\ run.blocked = deep[d].blocked /\ run.supersedes = deep[d].supersedes
    BY <1>1, <1>4 DEF DeepRun, DeepCheck
  <2>3. e \in SUBSET Rows
    BY <1>1, <2>2 DEF Store, Candidate
  <2> HIDE DEF run
  <2>4. Decided(run, s)
    BY <1>1, <2>2 DEF Decided
  <2>5. CASE Raise(d)
    BY <1>2, <2>5, AdvanceRaise
  <2>6. CASE Step(d, run) /\ UNCHANGED dbVars
    BY <1>2, <2>2, <2>4, <2>6, DecidedHolds, AdvanceMove
  <2>7. CASE /\ e # {}
             /\ Step(d, [run EXCEPT !.pc = "claim", !.current = c, !.evidence = e])
             /\ UNCHANGED dbVars
    <3> DEFINE claiming == [run EXCEPT !.pc = "claim", !.current = c, !.evidence = e]
    <3>1. /\ claiming \in DeepRun /\ claiming.pc = "claim"
          /\ claiming.current = c /\ claiming.evidence = e
          /\ claiming.blocked = run.blocked /\ claiming.supersedes = run.supersedes
      BY <2>2, <2>3 DEF DeepRun
    <3>2. Step(d, claiming)
      BY <2>7
    <3> HIDE DEF claiming
    <3>3. RunHolds(claiming, s)
      BY <2>4, <2>7, <3>1 DEF RunHolds, Decided
    <3>4. QED
      BY <1>2, <2>7, <3>1, <3>2, <3>3, AdvanceMove
  <2>8. QED
    BY <2>1, <2>5, <2>6, <2>7 DEF run
<1>5. QED
  BY <1>3, <1>4

LEMMA DeepPromoteSound ==
  ASSUME TypeInv, SoundInv, NEW d \in DeepRuns,
         DeepClaim(d) \/ DeepInsert(d) \/ DeepEmbed(d) \/ DeepLink(d)
  PROVE  Advanced(d)
<1> DEFINE c == deep[d].current
           s == View(d)
           e == deep[d].evidence
           m == missed[d]
<1>1. deep[d] \in DeepRun /\ s \in Store /\ c \in Ids /\ e \in SUBSET Rows
  BY DeepTyped DEF DeepShape, DeepClaim, DeepInsert, DeepEmbed, DeepLink, DeepRun
<1>2. /\ watermark' = watermark /\ watermark \in Nat
      /\ Decided(deep[d], s) /\ RunHolds(deep[d], s) /\ Sound(s, watermark)
  BY Held DEF DeepClaim, DeepInsert, DeepEmbed, DeepLink
<1>3. ASSUME NEW run \in DeepRun, NEW t, Grows(s, t), Decided(run, s)
      PROVE  Decided(run, t)
  BY <1>3 DEF Decided, Grows, DeepRun
<1>4. CASE DeepClaim(d)
  <2> DEFINE run == [deep[d] EXCEPT !.pc = "insert"]
             t == [s EXCEPT !.cand[c].marks = @ \cup {"promoted"}]
  <2>1. \/ Claimable(s.cand[c]) /\ Write(d, t) /\ Step(d, run)
        \/ Write(d, s) /\ Step(d, LostClaim(deep[d]))
    BY <1>4 DEF DeepClaim
  <2>2. CASE Claimable(s.cand[c]) /\ Write(d, t) /\ Step(d, run)
    <3>1. /\ run \in DeepRun /\ run.pc = "insert" /\ run.current = c /\ run.evidence = e
          /\ run.blocked = deep[d].blocked /\ run.supersedes = deep[d].supersedes
      BY <1>1 DEF DeepRun
    <3>2. e # {} /\ e \subseteq s.cand[c].sources
      BY <1>2, <1>4 DEF RunHolds, DeepClaim
    <3> HIDE DEF s, c, e, run
    <3>3. Grows(s, t) /\ Sound(t, watermark)
      BY <1>1, <1>2, <2>2, SoundWrites, ChangeGrows DEF Change, Adjust
    <3>4. "promoted" \in t.cand[c].marks /\ e \subseteq t.cand[c].sources
      BY <1>1, <2>2, <3>2, ClaimEffect
    <3> HIDE DEF t
    <3>5. Decided(run, t)
      BY <1>2, <1>3, <3>1, <3>3 DEF Decided
    <3>6. RunHolds(run, t)
      BY <3>1, <3>2, <3>4, <3>5 DEF RunHolds, Decided
    <3>7. QED
      BY <1>2, <2>2, <3>1, <3>3, <3>6, AdvanceWrite
  <2>3. CASE Write(d, s) /\ Step(d, LostClaim(deep[d]))
    <3> DEFINE lost == LostClaim(deep[d])
    <3>1. /\ lost \in DeepRun /\ lost.pc = "decide"
          /\ lost.blocked = deep[d].blocked /\ lost.supersedes = deep[d].supersedes
      BY <1>1 DEF LostClaim, DeepRun
    <3> HIDE DEF s, lost
    <3>2. RunHolds(lost, s)
      BY <1>2, <3>1, DecidedHolds DEF Decided
    <3>3. QED
      BY <1>2, <2>3, <3>1, <3>2, AdvanceWrite DEF lost
  <2>4. QED
    BY <2>1, <2>2, <2>3
<1>5. CASE DeepInsert(d)
  <2> DEFINE run == [deep[d] EXCEPT !.pc = "embed"]
             t == [s EXCEPT !.fact[c] = [NoFact EXCEPT
                     !.status = "bare", !.sources = e, !.missed = m]]
  <2>1. Write(d, t) /\ Step(d, run)
    BY <1>5 DEF DeepInsert
  <2>2. /\ run \in DeepRun /\ run.pc = "embed" /\ run.current = c
        /\ run.blocked = deep[d].blocked /\ run.supersedes = deep[d].supersedes
    BY <1>1 DEF DeepRun
  <2>3. e # {} /\ e \subseteq s.cand[c].sources /\ "promoted" \in s.cand[c].marks
    BY <1>2, <1>5 DEF RunHolds, DeepInsert
  <2>4. Change(s, t)
    BY <1>5, InsertWrites
  <2> HIDE DEF s, c, e, m, run
  <2>5. Grows(s, t) /\ Sound(t, watermark)
    <3>1. Sound(t, watermark)
      BY <1>1, <1>2, <2>3, SoundWrites
    <3>2. QED
      BY <1>1, <2>4, <3>1, ChangeGrows
  <2>6. Known(t, c)
    BY <1>1, InsertEffect DEF Known
  <2> HIDE DEF t
  <2>7. Decided(run, t)
    BY <1>2, <1>3, <2>2, <2>5 DEF Decided
  <2>8. RunHolds(run, t)
    BY <2>2, <2>6, <2>7 DEF RunHolds, Decided
  <2>9. QED
    BY <1>2, <2>1, <2>2, <2>5, <2>8, AdvanceWrite
<1>6. CASE DeepEmbed(d)
  <2> DEFINE run == [deep[d] EXCEPT !.pc = "link"]
             t == [s EXCEPT !.fact[c].status = "live"]
  <2>1. Write(d, t) /\ Step(d, run)
    BY <1>6 DEF DeepEmbed
  <2>2. Known(s, c)
    BY <1>2, <1>6 DEF RunHolds, DeepEmbed
  <2>3. /\ run \in DeepRun /\ run.pc = "link" /\ run.current = c
        /\ run.blocked = deep[d].blocked /\ run.supersedes = deep[d].supersedes
    BY <1>1 DEF DeepRun
  <2> HIDE DEF s, c, run
  <2>4. Grows(s, t) /\ Sound(t, watermark)
    BY <1>1, <1>2, <2>2, SoundWrites, ChangeGrows DEF Change, Adjust
  <2> HIDE DEF t
  <2>5. Known(t, c) /\ Decided(run, t)
    BY <1>1, <1>2, <1>3, <2>2, <2>3, <2>4 DEF Decided, Grows
  <2>6. RunHolds(run, t)
    BY <2>3, <2>5 DEF RunHolds, Decided
  <2>7. QED
    BY <1>2, <2>1, <2>3, <2>4, <2>6, AdvanceWrite
<1>7. CASE DeepLink(d)
  <2> DEFINE run == Continue(deep[d])
  <2>1. Write(d, s) /\ Step(d, run)
    BY <1>7 DEF DeepLink
  <2>2. Known(s, c)
    BY <1>2, <1>7 DEF RunHolds, DeepLink
  <2>3. run \in DeepRun /\ RunHolds(run, s)
    BY <1>1, <1>2, <2>2, ContinueType, ContinueHolds
  <2> HIDE DEF s, c, run
  <2>4. QED
    BY <1>2, <2>1, <2>3, AdvanceWrite
<1>8. QED
  BY <1>4, <1>5, <1>6, <1>7

LEMMA DeepRetireBeatenSound ==
  ASSUME TypeInv, SoundInv, NEW d \in DeepRuns, DeepSupersede(d) \/ DeepBeat(d)
  PROVE  Advanced(d)
<1> DEFINE c == deep[d].current
           s == View(d)
<1>1. deep[d] \in DeepRun /\ s \in Store /\ c \in Ids
  BY DeepTyped DEF DeepShape, DeepSupersede, DeepBeat
<1>2. /\ watermark' = watermark /\ watermark \in Nat
      /\ Decided(deep[d], s) /\ RunHolds(deep[d], s) /\ Sound(s, watermark)
  BY Held DEF DeepSupersede, DeepBeat
<1>3. Known(s, c)
  BY <1>2 DEF RunHolds, DeepSupersede, DeepBeat
<1>4. CASE DeepSupersede(d)
  <2>1. PICK f \in deep[d].supersedes[c] :
          /\ Write(d, IF s.fact[f].status = "retired" THEN s
                      ELSE [s EXCEPT !.fact[f].status = "retired", !.fact[f].by = c])
          /\ Step(d, Continue([deep[d] EXCEPT !.supersedes[c] = @ \ {f}]))
    BY <1>4 DEF DeepSupersede
  <2> DEFINE t == [s EXCEPT !.fact[f].status = "retired", !.fact[f].by = c]
             new == IF s.fact[f].status = "retired" THEN s ELSE t
             run == [deep[d] EXCEPT !.supersedes[c] = @ \ {f}]
  <2>2. Write(d, new) /\ Step(d, Continue(run))
    BY <2>1
  <2>3. f \in Ids /\ run \in DeepRun /\ run.current = c /\ Known(s, f)
    BY <1>1, <1>2 DEF DeepRun, Decided
  <2>4. Decided(run, s)
    BY <1>1, <1>2 DEF Decided, DeepRun
  <2> HIDE DEF s, c, run
  <2>5. Grows(s, t) /\ Sound(t, watermark)
    <3>1. Change(s, t)
      BY <1>1, <2>3 DEF Change, Adjust
    <3>2. Sound(t, watermark)
      BY <1>1, <1>2, <1>3, <2>3, SoundWrites
    <3>3. QED
      BY <1>1, <3>1, <3>2, ChangeGrows
  <2> HIDE DEF t
  <2>6. Grows(s, new) /\ Sound(new, watermark)
    BY <1>2, <2>5, GrowsOrder
  <2>7. /\ Continue(run) \in DeepRun /\ DeepShape(Continue(run))
        /\ RunHolds(Continue(run), s)
    BY <1>3, <2>3, <2>4, ContinueType, ContinueHolds
  <2> HIDE DEF new
  <2>8. RunHolds(Continue(run), new)
    BY <2>6, <2>7, RunGrows
  <2>9. QED
    BY <1>2, <2>2, <2>6, <2>7, <2>8, AdvanceWrite
<1>5. CASE DeepBeat(d)
  <2>1. PICK b \in deep[d].beats[c] :
          RetireCandidate(d, b, c, [deep[d] EXCEPT !.beats[c] = @ \ {b}])
    BY <1>5 DEF DeepBeat
  <2> DEFINE run == [deep[d] EXCEPT !.beats[c] = @ \ {b}]
  <2>2. b \in Ids /\ run \in DeepRun /\ run.current = c
    BY <1>1 DEF DeepRun
  <2>3. Decided(run, s)
    BY <1>1, <1>2 DEF Decided, DeepRun
  <2>4. RetireCandidate(d, b, c, run)
    BY <2>1
  <2> HIDE DEF run, c
  <2>5. QED
    BY <1>1, <1>2, <1>3, <2>2, <2>3, <2>4, AdvanceRetire
<1>6. QED
  BY <1>4, <1>5

LEMMA DeepEndSound ==
  ASSUME TypeInv, SoundInv, NEW d \in DeepRuns, DeepFinish(d) \/ DeepFails(d)
  PROVE  Advanced(d)
<1>1. deep'[d] = NoDeep /\ watermark' = watermark
  BY DEF DeepFinish, DeepFails, Step, TypeInv, TypeOK
<1>2. db' \in {db, View(d)} /\ txnImage' \in {txnImage, EmptyStore}
  BY DEF DeepFinish, DeepFails
<1>3. Sound(EmptyStore, watermark)
  BY DEF Sound, EmptyStore, NoCandidate, NoFact, Known
<1>4. Sound(View(d), watermark)
  BY Held
<1>5. RunHolds(deep[d], View(d))'
  <2>1. RunHolds(NoDeep, View(d)')
    BY DEF RunHolds, NoDeep
  <2>2. QED
    BY <1>1, <2>1 DEF RunHolds, Known
<1>6. QED
  BY <1>1, <1>2, <1>3, <1>4, <1>5 DEF Advanced, SoundInv

LEMMA DeepSound ==
  ASSUME TypeInv, SoundInv, NEW d \in DeepRuns, DeepStep(d)
  PROVE  Advanced(d)
  BY DeepReadSound, DeepJudgeSound, DeepDecideSound, DeepPromoteSound,
     DeepRetireBeatenSound, DeepEndSound DEF DeepStep

\* The cycles that do not move keep what they hold, since stores only grow.
LEMMA SoundNext == TypeInv /\ SoundInv /\ [Next]_vars => SoundInv'
<1> SUFFICES ASSUME TypeInv, SoundInv, [Next]_vars PROVE SoundInv'
  OBVIOUS
<1>1. /\ TxnInv'
      /\ \A e \in DeepRuns : Grows(View(e), View(e)') \/ deep'[e] = NoDeep
  BY StoresGrow DEF SoundInv
<1>2. ASSUME NEW e \in DeepRuns, deep'[e] = deep[e] \/ deep'[e] = NoDeep
      PROVE  RunHolds(deep[e], View(e))'
  <2>1. CASE deep'[e] = NoDeep
    <3>1. RunHolds(NoDeep, View(e)')
      BY DEF RunHolds, NoDeep
    <3>2. QED
      BY <2>1, <3>1 DEF RunHolds, Known
  <2>2. CASE deep'[e] = deep[e] /\ Grows(View(e), View(e)')
    <3>1. RunHolds(deep[e], View(e)')
      BY <2>2, DeepTyped, RunGrows DEF SoundInv
    <3>2. QED
      BY <2>2, <3>1 DEF RunHolds, Known
  <2>3. QED
    BY <1>1, <1>2, <2>1, <2>2
<1>3. CASE \E d \in DeepRuns : DeepStep(d)
  <2>1. PICK d \in DeepRuns : DeepStep(d)
    BY <1>3
  <2>2. Advanced(d)
    BY <2>1, DeepSound
  <2>3. \A e \in DeepRuns : e # d => deep'[e] = deep[e]
    BY <2>1 DEF DeepStep, DeepRead, DeepJudge, DeepRetire, DeepCheck, DeepClaim, DeepInsert,
                DeepEmbed, DeepLink, DeepSupersede, DeepBeat, DeepFinish, DeepFails,
                RetireCandidate, Raise, Step, TypeInv, TypeOK
  <2>4. \A e \in DeepRuns : RunHolds(deep[e], View(e))'
    BY <1>2, <2>2, <2>3 DEF Advanced
  <2>5. QED
    BY <1>1, <2>2, <2>4 DEF SoundInv, Advanced
<1>4. CASE \E l \in LightRuns : LightStep(l)
  <2>1. PICK l \in LightRuns : LightStep(l)
    BY <1>4
  <2>2. deep' = deep
    BY <2>1, LightGrows DEF SoundInv, TxnInv
  <2>3. \A e \in DeepRuns : RunHolds(deep[e], View(e))'
    BY <1>2, <2>2
  <2>4. QED
    BY <1>1, <2>1, <2>3, LightSound DEF SoundInv
<1>5. CASE AppendMessage \/ UNCHANGED vars
  <2>1. UNCHANGED <<watermark, dbVars, deep>>
    BY <1>5 DEF AppendMessage, vars
  <2>2. \A e \in DeepRuns : RunHolds(deep[e], View(e))'
    BY <1>2, <2>1
  <2>3. QED
    BY <1>1, <2>1, <2>2 DEF SoundInv, Sound, Known, dbVars
<1>6. QED
  BY <1>3, <1>4, <1>5 DEF Next

LEMMA SoundInit == Init => SoundInv
<1> SUFFICES ASSUME Init PROVE SoundInv
  OBVIOUS
<1>1. TxnInv
  BY TxnInit
<1>2. PICK imported \in 0 .. MaxCandidates :
        /\ watermark = 0 => imported = 0
        /\ db = [EmptyStore EXCEPT !.cand = [c \in Ids |->
             IF c <= imported THEN [NoCandidate EXCEPT !.sources = {1}] ELSE NoCandidate]]
  BY DEF Init
<1>3. watermark \in Nat
  BY TiersAssumption DEF Init
<1>4. ASSUME NEW c \in Ids
      PROVE  /\ db.cand[c].sources \subseteq 1 .. watermark
             /\ db.cand[c].marks = {}
             /\ db.fact[c] = NoFact
  <2>1. db.fact[c] = NoFact
    BY <1>2 DEF EmptyStore
  <2>2. CASE c <= imported
    <3>1. db.cand[c].sources = {1} /\ db.cand[c].marks = {}
      BY <1>2, <2>2 DEF EmptyStore, NoCandidate
    <3>2. 1 \in 1 .. watermark
      BY <1>2, <1>3, <2>2 DEF Ids
    <3>3. QED
      BY <2>1, <3>1, <3>2
  <2>3. CASE ~(c <= imported)
    BY <1>2, <2>1, <2>3 DEF EmptyStore, NoCandidate
  <2>4. QED
    BY <2>2, <2>3
<1>5. Sound(db, watermark)
  BY <1>4 DEF Sound, Known, NoFact
<1>6. Sound(txnImage, watermark)
  BY DEF Init, Sound, EmptyStore, NoCandidate, NoFact, Known
<1>7. \A d \in DeepRuns : RunHolds(deep[d], View(d))
  BY DEF Init, RunHolds, NoDeep
<1>8. QED
  BY <1>1, <1>5, <1>6, <1>7 DEF SoundInv

LEMMA SoundInvariant == Spec => []SoundInv
  BY SoundInit, SoundNext, TypeInvariant, PTL DEF Spec

\* What is retired, candidate or fact, names a fact that was written: a
\* retirement never outlives the promotion that was to justify it.
THEOREM RetirementsJustified == Spec => []RetiredByFact
<1>1. SoundInv => RetiredByFact
  BY DEF SoundInv, Sound, RetiredByFact, Known
<1>2. QED
  BY <1>1, SoundInvariant, PTL

-------------------------------------------------------------------------------
\* Citations: what a promoted candidate was drawn from and its fact does not
\* cite is what was merged between the promotion's read and its claim.

SameSources(s, t) == \A c \in Ids : t.cand[c].sources = s.cand[c].sources

Cited(s) == \A c \in Ids : s.fact[c].sources # {} =>
  /\ "promoted" \in s.cand[c].marks
  /\ s.cand[c].sources \subseteq s.fact[c].sources \cup s.fact[c].missed

\* The same of the promotion in hand, whose fact is yet to be inserted.
InHand(run, m) == run.pc \in {"claim", "insert"} =>
  db.cand[run.current].sources \subseteq run.evidence \cup m

CiteInv ==
  /\ Cited(db) /\ Cited(txnImage)
  /\ txnOwner # Nobody => SameSources(db, txnImage)
  /\ \A d \in DeepRuns : InHand(deep[d], missed[d])

\* Deep takes no source away and adds none.
LEMMA AdjustCites ==
  ASSUME NEW s \in Store, NEW t, Adjust(s, t)
  PROVE  /\ SameSources(s, t)
         /\ \A c \in Ids : /\ t.fact[c].sources = s.fact[c].sources
                            /\ t.fact[c].missed = s.fact[c].missed
<1>1. ASSUME NEW c \in Ids, NEW f \in Ids, t = Retired(s, c, f)
      PROVE  t.fact = s.fact /\ SameSources(s, t)
  BY <1>1, RetiredEffect DEF SameSources
<1>2. ASSUME NEW c \in Ids, Claimable(s.cand[c]),
             t = [s EXCEPT !.cand[c].marks = @ \cup {"promoted"}]
      PROVE  t.fact = s.fact /\ SameSources(s, t)
  BY <1>2, ClaimEffect DEF SameSources
<1>3. ASSUME NEW c \in Ids, t = [s EXCEPT !.fact[c].status = "live"]
      PROVE  /\ SameSources(s, t)
             /\ \A f \in Ids : /\ t.fact[f].sources = s.fact[f].sources
                                /\ t.fact[f].missed = s.fact[f].missed
  BY <1>3, EmbedEffect DEF SameSources
<1>4. ASSUME NEW f \in Ids, NEW c \in Ids,
             t = [s EXCEPT !.fact[f].status = "retired", !.fact[f].by = c]
      PROVE  /\ SameSources(s, t)
             /\ \A g \in Ids : /\ t.fact[g].sources = s.fact[g].sources
                                /\ t.fact[g].missed = s.fact[g].missed
  BY <1>4, SupersedeEffect DEF SameSources
<1>5. CASE t = s
  BY <1>5 DEF SameSources
<1>6. QED
  BY <1>1, <1>2, <1>3, <1>4, <1>5 DEF Adjust

LEMMA AdjustCited ==
  ASSUME NEW s \in Store, Cited(s), NEW t, Adjust(s, t)
  PROVE  Cited(t) /\ SameSources(s, t)
<1>1. Grows(s, t)
  BY ChangeGrows DEF Change
<1>2. QED
  BY <1>1, AdjustCites DEF Cited, Grows, SameSources

\* Whatever a Deep cycle sees has the sources of the database.
LEMMA ViewCited ==
  ASSUME CiteInv, NEW d \in DeepRuns
  PROVE  Cited(View(d)) /\ SameSources(db, View(d))
  BY TiersAssumption DEF CiteInv, View, SameSources

\* What a cycle that takes up or claims a promotion has read.
LEMMA DeepInHand ==
  ASSUME TypeInv, CiteInv, NEW d \in DeepRuns, DeepStep(d),
         deep'[d].pc \in {"claim", "insert"}
  PROVE  /\ deep'[d].current \in Ids
         /\ db.cand[deep'[d].current].sources \subseteq deep'[d].evidence \cup missed'[d]
<1> DEFINE s == View(d)
           run == deep'[d]
<1>1. deep[d] \in DeepRun /\ s \in Store /\ SameSources(db, s)
  BY DeepTyped, ViewCited
<1>2. \A r : Step(d, r) => run = r
  BY DEF Step, TypeInv, TypeOK
<1>3. \A r \in DeepRun : Continue(r).pc \in {"decide", "supersede"}
  BY DEF Continue, DeepRun
<1>4. [deep[d] EXCEPT !.pc = "raised"].pc = "raised"
  BY <1>1 DEF DeepRun
<1>5. ASSUME NEW b, NEW f, NEW r \in DeepRun, RetireCandidate(d, b, f, r)
      PROVE  FALSE
  BY <1>2, <1>3, <1>4, <1>5 DEF RetireCandidate, Raise
<1>6. CASE DeepRead(d)
  BY <1>2, <1>6 DEF DeepRead, Step, NoDeep
<1>7. CASE DeepJudge(d)
  BY <1>2, <1>7, JudgeEffect DEF Judged
<1>8. CASE DeepRetire(d)
  <2>1. PICK c \in Ids : RetireCandidate(d, c, deep[d].blocked[c],
          [deep[d] EXCEPT !.blocked[c] = None, !.current = None])
    BY <1>8 DEF DeepRetire
  <2>2. [deep[d] EXCEPT !.blocked[c] = None, !.current = None] \in DeepRun
    BY <1>1 DEF DeepRun
  <2>3. QED
    BY <1>5, <2>1, <2>2
<1>9. CASE DeepCheck(d)
  <2>1. PICK c \in deep[d].wins :
          \/ Step(d, [deep[d] EXCEPT !.pc = "raised"])
          \/ Step(d, [deep[d] EXCEPT !.wins = @ \ {c}])
          \/ Step(d, [[deep[d] EXCEPT !.wins = @ \ {c}] EXCEPT
                       !.pc = "claim", !.current = c, !.evidence = s.cand[c].sources])
    BY <1>9 DEF DeepCheck, Raise
  <2> DEFINE claiming == [[deep[d] EXCEPT !.wins = @ \ {c}] EXCEPT
                            !.pc = "claim", !.current = c, !.evidence = s.cand[c].sources]
  <2>2. c \in Ids /\ [deep[d] EXCEPT !.wins = @ \ {c}].pc = "decide"
    BY <1>1, <1>9 DEF DeepRun, DeepCheck
  <2>3. claiming.current = c /\ claiming.evidence = s.cand[c].sources
    BY <1>1 DEF DeepRun
  <2>4. run = claiming
    BY <1>2, <1>4, <2>1, <2>2
  <2> HIDE DEF claiming, s, run
  <2>5. run.evidence = db.cand[c].sources
    BY <1>1, <2>2, <2>3, <2>4 DEF SameSources
  <2>6. QED
    BY <2>2, <2>3, <2>4, <2>5 DEF run
<1>10. CASE DeepClaim(d)
  <2>1. \/ Step(d, [deep[d] EXCEPT !.pc = "insert"]) /\ missed' = missed
        \/ Step(d, LostClaim(deep[d]))
    BY <1>10 DEF DeepClaim
  <2>2. /\ LostClaim(deep[d]).pc = "decide"
        /\ [deep[d] EXCEPT !.pc = "insert"].current = deep[d].current
        /\ [deep[d] EXCEPT !.pc = "insert"].evidence = deep[d].evidence
    BY <1>1 DEF LostClaim, DeepRun
  <2>3. run = [deep[d] EXCEPT !.pc = "insert"] /\ missed' = missed
    BY <1>2, <2>1, <2>2
  <2>4. /\ deep[d].pc = "claim" /\ deep[d].current \in Ids
        /\ run.current = deep[d].current /\ run.evidence = deep[d].evidence
    BY <1>10, <2>2, <2>3, DeepTyped DEF DeepClaim, DeepShape
  <2> HIDE DEF run
  <2>5. db.cand[run.current].sources \subseteq run.evidence \cup missed'[d]
    BY <2>3, <2>4 DEF CiteInv, InHand
  <2>6. QED
    BY <2>4, <2>5 DEF run
<1>11. CASE DeepInsert(d) \/ DeepEmbed(d)
  <2>1. PICK pc \in {"embed", "link"} : Step(d, [deep[d] EXCEPT !.pc = pc])
    BY <1>11 DEF DeepInsert, DeepEmbed
  <2>2. [deep[d] EXCEPT !.pc = pc].pc = pc
    BY <1>1 DEF DeepRun
  <2>3. QED
    BY <1>2, <2>1, <2>2
<1>12. CASE DeepLink(d)
  BY <1>1, <1>2, <1>3, <1>12 DEF DeepLink
<1>13. CASE DeepSupersede(d)
  <2>1. PICK f : Step(d, Continue([deep[d] EXCEPT !.supersedes[deep[d].current] = @ \ {f}]))
    BY <1>13 DEF DeepSupersede
  <2>2. [deep[d] EXCEPT !.supersedes[deep[d].current] = @ \ {f}] \in DeepRun
    BY <1>1, <1>13, DeepTyped DEF DeepRun, DeepShape, DeepSupersede
  <2>3. QED
    BY <1>2, <1>3, <2>1, <2>2
<1>14. CASE DeepBeat(d)
  <2>1. PICK b : RetireCandidate(d, b, deep[d].current,
                   [deep[d] EXCEPT !.beats[deep[d].current] = @ \ {b}])
    BY <1>14 DEF DeepBeat
  <2>2. [deep[d] EXCEPT !.beats[deep[d].current] = @ \ {b}] \in DeepRun
    BY <1>1, <1>14, DeepTyped DEF DeepRun, DeepShape, DeepBeat
  <2>3. QED
    BY <1>5, <2>1, <2>2
<1>15. CASE DeepFinish(d) \/ DeepFails(d)
  BY <1>2, <1>15 DEF DeepFinish, DeepFails, NoDeep
<1>16. QED
  BY <1>6, <1>7, <1>8, <1>9, <1>10, <1>11, <1>12, <1>13, <1>14, <1>15 DEF DeepStep

\* The stores after a step of Deep: they have the sources the database had.
LEMMA DeepStoresCited ==
  ASSUME TypeInv, TxnInv, SoundInv, CiteInv, NEW d \in DeepRuns, DeepStep(d)
  PROVE  /\ Cited(db') /\ Cited(txnImage') /\ SameSources(db, db')
         /\ txnOwner' # Nobody => SameSources(db, txnImage')
<1> DEFINE s == View(d)
<1>1. s \in Store /\ Cited(s) /\ SameSources(db, s)
  BY DeepTyped, ViewCited
<1>2. SameSources(db, db) /\ Cited(EmptyStore)
  BY DEF SameSources, Cited, EmptyStore, NoFact
<1>3. ASSUME NEW t, Write(d, t), Cited(t), SameSources(s, t)
      PROVE  /\ Cited(db') /\ Cited(txnImage') /\ SameSources(db, db')
             /\ txnOwner' # Nobody => SameSources(db, txnImage')
  <2>1. SameSources(db, t)
    BY <1>1, <1>3 DEF SameSources
  <2>2. CASE autocommit
    BY <1>3, <2>1, <2>2 DEF Write, CiteInv, TxnInv
  <2>3. CASE ~autocommit
    BY <1>2, <1>3, <2>1, <2>3 DEF Write, CiteInv
  <2>4. QED
    BY <2>2, <2>3
<1>4. CASE DeepInsert(d)
  <2> DEFINE c == deep[d].current
             e == deep[d].evidence
             m == missed[d]
             t == [s EXCEPT !.fact[c] = [NoFact EXCEPT
                     !.status = "bare", !.sources = e, !.missed = m]]
  <2>1. c \in Ids /\ Write(d, t)
    BY <1>4, InsertWrites
  <2>2. /\ "promoted" \in s.cand[c].marks
        /\ db.cand[c].sources \subseteq e \cup m
    BY <1>4 DEF DeepInsert, SoundInv, RunHolds, CiteInv, InHand
  <2> HIDE DEF s, c, e, m
  <2>3. /\ t.cand = s.cand
        /\ \A f \in Ids : f # c => t.fact[f] = s.fact[f]
        /\ t.fact[c].sources = e /\ t.fact[c].missed = m
    BY <1>1, <2>1, InsertEffect
  <2> HIDE DEF t
  <2>4. SameSources(s, t)
    BY <2>3 DEF SameSources
  <2>5. Cited(t)
    <3>1. ASSUME NEW f \in Ids, t.fact[f].sources # {}
          PROVE  /\ "promoted" \in t.cand[f].marks
                 /\ t.cand[f].sources \subseteq t.fact[f].sources \cup t.fact[f].missed
      <4>1. CASE f = c
        BY <1>1, <2>1, <2>2, <2>3, <4>1 DEF SameSources
      <4>2. CASE f # c
        BY <1>1, <2>3, <3>1, <4>2 DEF Cited
      <4>3. QED
        BY <4>1, <4>2
    <3>2. QED
      BY <3>1 DEF Cited
  <2>6. QED
    BY <1>3, <2>1, <2>4, <2>5
<1>5. CASE UNCHANGED dbVars
  BY <1>2, <1>5 DEF dbVars, CiteInv
<1>6. CASE \E t \in Store : Write(d, t) /\ Adjust(s, t)
  BY <1>1, <1>3, <1>6, AdjustCited
<1>7. CASE DeepFinish(d)
  BY <1>1, <1>2, <1>7 DEF DeepFinish
<1>8. CASE DeepFails(d)
  BY <1>2, <1>8 DEF DeepFails, CiteInv
<1>9. QED
  BY <1>4, <1>5, <1>6, <1>7, <1>8, DeepAdjusts

\* A step of Light merges into live rows only.
LEMMA LightMerges ==
  ASSUME TypeInv, Fresh(db), NEW l \in LightRuns, LightStep(l)
  PROVE  /\ db'.fact = db.fact
         /\ \A c \in Ids : db.cand[c].marks # {} =>
              db'.cand[c].sources = db.cand[c].sources
<1>1. db \in Store /\ db.cand \in [Ids -> Candidate]
  BY DEF TypeInv, TypeOK, Store
<1>2. CASE LightBackfill(l)
  <2> DEFINE due == StillMissing(db.cand, light[l].todo)
  <2>1. due \in SUBSET Ids /\ \A c \in due : db.cand[c].marks = {}
    BY LightTyped DEF StillMissing, LightRun, Missing, Live
  <2>2. PICK into \in [due -> Ids \cup {None}], flagged \in SUBSET due :
          /\ \A c \in due : into[c] \in Matches(db.cand, due, into, flagged, c) \cup {None}
          /\ db' = [db EXCEPT !.cand = Backfilled(@, due, into, flagged)]
    BY <1>2 DEF LightBackfill
  <2> HIDE DEF due
  <2>3. db'.cand = Backfilled(db.cand, due, into, flagged) /\ db'.fact = db.fact
    BY <1>1, <2>2 DEF Store
  <2>4. ASSUME NEW c \in Ids, db.cand[c].marks # {}
        PROVE  db'.cand[c].sources = db.cand[c].sources
    <3>1. c \notin due /\ ~Mergeable(db.cand[c]) /\ c # None
      BY <2>1, <2>4 DEF Mergeable, Live, Ids, None
    <3>2. \A n \in due : into[n] # c
      BY <2>2, <3>1 DEF Matches
    <3>3. MergedSources(db.cand, due, into, c) = db.cand[c].sources
      BY <3>2 DEF MergedSources
    <3>4. QED
      BY <1>1, <2>3, <3>1, <3>3, BackfilledEffect
  <2>5. QED
    BY <2>3, <2>4
<1>3. CASE LightCommit(l) /\ light[l].found # {} /\ StoreCandidate(light[l].found)
  <2>1. light[l].found \in SUBSET Rows
    BY LightTyped DEF LightRun
  <2>2. PICK m \in Ids : /\ db.cand[m].marks = {}
                         /\ \A c \in Ids : c # m => db'.cand[c] = db.cand[c]
    BY <1>3, <2>1, StoredEffect DEF Mergeable, Live, Fresh
  <2>3. QED
    BY <1>3, <2>1, <2>2, StoredEffect
<1>4. CASE db' = db
  BY <1>4
<1>5. QED
  BY <1>2, <1>3, <1>4 DEF LightStep, LightCommit, LightRead, LightExtract, LightLoad,
                          LightFails, dbVars

\* What it merges into the candidate of a promotion that has read it and not
\* claimed it is missed, and nothing else is.
LEMMA LightMissed ==
  ASSUME TypeInv, NEW l \in LightRuns, LightStep(l), NEW d \in DeepRuns
  PROVE  LET c == deep[d].current IN
         /\ missed[d] \subseteq missed'[d]
         /\ deep[d].pc = "claim" =>
              db'.cand[c].sources \subseteq db.cand[c].sources \cup missed'[d]
<1>1. CASE MissMerged
  BY <1>1 DEF MissMerged
<1>2. CASE UNCHANGED <<missed, db>>
  BY <1>2
<1>3. QED
  BY <1>1, <1>2 DEF LightStep, LightRead, LightExtract, LightLoad, LightBackfill,
                    LightCommit, LightFails, dbVars

LEMMA LightCited ==
  ASSUME TypeInv, SoundInv, CiteInv, NEW l \in LightRuns, LightStep(l)
  PROVE  CiteInv'
<1>1. /\ Fresh(db) /\ Grows(db, db')
      /\ UNCHANGED <<txnOwner, txnImage, deep>> /\ (db' = db \/ txnOwner = Nobody)
  BY LightGrows DEF SoundInv, TxnInv
<1>2. /\ db'.fact = db.fact
      /\ \A c \in Ids : db.cand[c].marks # {} => db'.cand[c].sources = db.cand[c].sources
  BY <1>1, LightMerges
<1>3. Cited(db')
  BY <1>1, <1>2 DEF CiteInv, Cited, Grows
<1>4. txnOwner' # Nobody => SameSources(db', txnImage')
  BY <1>1 DEF CiteInv
<1>5. ASSUME NEW d \in DeepRuns, deep[d].pc \in {"claim", "insert"}
      PROVE  db'.cand[deep[d].current].sources \subseteq deep[d].evidence \cup missed'[d]
  <2> DEFINE c == deep[d].current
  <2>1. c \in Ids
    BY <1>5, DeepTyped DEF DeepShape
  <2>2. db.cand[c].sources \subseteq deep[d].evidence \cup missed[d]
    BY <1>5 DEF CiteInv, InHand
  <2>3. missed[d] \subseteq missed'[d]
    BY LightMissed
  <2>4. CASE deep[d].pc = "claim"
    <3>1. db'.cand[c].sources \subseteq db.cand[c].sources \cup missed'[d]
      BY <2>4, LightMissed
    <3> HIDE DEF c
    <3>2. QED
      BY <2>2, <2>3, <3>1 DEF c
  <2>5. CASE deep[d].pc = "insert" /\ txnOwner = Nobody
    <3>1. View(d) = db
      BY <2>5, TiersAssumption DEF View
    <3>2. "promoted" \in db.cand[c].marks
      BY <2>5, <3>1 DEF SoundInv, RunHolds
    <3> HIDE DEF c
    <3>3. db'.cand[c].sources = db.cand[c].sources
      BY <1>2, <2>1, <3>2
    <3>4. QED
      BY <2>2, <2>3, <3>3 DEF c
  <2>6. CASE db' = db
    BY <2>2, <2>3, <2>6
  <2>7. QED
    BY <1>1, <1>5, <2>4, <2>5, <2>6
<1>6. \A d \in DeepRuns : InHand(deep[d], missed[d])'
  BY <1>1, <1>5 DEF InHand
<1>7. Cited(txnImage')
  BY <1>1 DEF CiteInv
<1>8. QED
  BY <1>3, <1>4, <1>6, <1>7 DEF CiteInv, Cited, SameSources

LEMMA DeepCited ==
  ASSUME TypeInv, SoundInv, CiteInv, NEW d \in DeepRuns, DeepStep(d)
  PROVE  CiteInv'
<1>1. /\ Cited(db') /\ Cited(txnImage') /\ SameSources(db, db')
      /\ txnOwner' # Nobody => SameSources(db, txnImage')
  BY DeepStoresCited DEF SoundInv
<1>2. txnOwner' # Nobody => SameSources(db', txnImage')
  BY <1>1 DEF SameSources
<1>3. ASSUME NEW e \in DeepRuns, deep'[e].pc \in {"claim", "insert"}
      PROVE  db'.cand[deep'[e].current].sources \subseteq deep'[e].evidence \cup missed'[e]
  <2>1. CASE e = d
    BY <1>1, <1>3, <2>1, DeepInHand DEF SameSources
  <2>2. CASE e # d
    <3>1. deep'[e] = deep[e]
      BY <2>2 DEF DeepStep, DeepRead, DeepJudge, DeepRetire, DeepCheck, DeepClaim, DeepInsert,
                  DeepEmbed, DeepLink, DeepSupersede, DeepBeat, DeepFinish, DeepFails,
                  RetireCandidate, Raise, Step, TypeInv, TypeOK
    <3>2. missed'[e] = missed[e]
      BY <2>2 DEF DeepStep, DeepRead, DeepJudge, DeepRetire, DeepCheck, DeepClaim, DeepInsert,
                  DeepEmbed, DeepLink, DeepSupersede, DeepBeat, DeepFinish, DeepFails,
                  TypeInv, TypeOK
    <3>3. /\ deep[e].current \in Ids
          /\ db.cand[deep[e].current].sources \subseteq deep[e].evidence \cup missed[e]
      BY <1>3, <3>1, DeepTyped DEF DeepShape, CiteInv, InHand
    <3>4. QED
      BY <1>1, <3>1, <3>2, <3>3 DEF SameSources
  <2>3. QED
    BY <2>1, <2>2
<1>4. \A e \in DeepRuns : InHand(deep[e], missed[e])'
  BY <1>3 DEF InHand
<1>5. QED
  BY <1>1, <1>2, <1>4 DEF CiteInv, Cited, SameSources

LEMMA CiteNext == TypeInv /\ SoundInv /\ CiteInv /\ [Next]_vars => CiteInv'
<1> SUFFICES ASSUME TypeInv, SoundInv, CiteInv, [Next]_vars PROVE CiteInv'
  OBVIOUS
<1>1. CASE AppendMessage \/ UNCHANGED vars
  BY <1>1 DEF AppendMessage, vars, dbVars, CiteInv, Cited, SameSources, InHand
<1>2. QED
  BY <1>1, LightCited, DeepCited DEF Next

LEMMA CiteInit == Init => CiteInv
<1> SUFFICES ASSUME Init PROVE CiteInv
  OBVIOUS
<1>1. PICK imported \in 0 .. MaxCandidates :
        db = [EmptyStore EXCEPT !.cand = [c \in Ids |->
          IF c <= imported THEN [NoCandidate EXCEPT !.sources = {1}] ELSE NoCandidate]]
  BY DEF Init
<1>2. \A c \in Ids : db.fact[c].sources = {} /\ txnImage.fact[c].sources = {}
  BY <1>1 DEF Init, EmptyStore, NoFact
<1>3. \A d \in DeepRuns : InHand(deep[d], missed[d])
  BY DEF Init, InHand, NoDeep
<1>4. QED
  BY <1>2, <1>3 DEF Init, CiteInv, Cited

\* Every candidate cites committed windows only.  Every fact cites what its
\* promoted candidate does and nothing else, however the cycles cross, fail and
\* roll back, on either backend, but for what was merged into the candidate
\* between the promotion's read of it and its claim (promotion.py 157-297).
THEOREM CitesEvidence == Spec => []Grounded
<1>1. SoundInv /\ CiteInv => Grounded
  <2> SUFFICES ASSUME SoundInv, CiteInv PROVE Grounded
    OBVIOUS
  <2>1. \A c \in Ids : Known(db, c) =>
          db.cand[c].sources \subseteq db.fact[c].sources \cup db.fact[c].missed
    BY DEF SoundInv, Sound, CiteInv, Cited
  <2>2. QED
    BY <2>1 DEF SoundInv, Sound, Grounded, Known
<1>2. QED
  BY <1>1, SoundInvariant, CiteInit, CiteNext, TypeInvariant, PTL DEF Spec

-------------------------------------------------------------------------------
\* Evidence: a candidate that goes stale leaves its sources to one that stays.

Kept(s) ==
  \A c \in Ids : "stale" \in s.cand[c].marks =>
    \E m \in Ids : /\ "stale" \notin s.cand[m].marks
                   /\ s.cand[c].sources \subseteq s.cand[m].sources

KeptInv == Kept(db) /\ Kept(txnImage)

\* Deep makes nothing stale and takes no source away.
LEMMA ChangeKept ==
  ASSUME NEW s \in Store, Kept(s), NEW t, Change(s, t)
  PROVE  Kept(t)
<1>1. SUFFICES \A c \in Ids : /\ t.cand[c].sources = s.cand[c].sources
                              /\ "stale" \in t.cand[c].marks <=> "stale" \in s.cand[c].marks
  BY <1>1 DEF Kept
<1>2. CASE t.cand = s.cand
  BY <1>2
<1>3. ASSUME NEW b \in Ids, NEW f \in Ids, t = Retired(s, b, f)
      PROVE  \A c \in Ids : /\ t.cand[c].sources = s.cand[c].sources
                            /\ "stale" \in t.cand[c].marks <=> "stale" \in s.cand[c].marks
  BY <1>3, RetiredEffect
<1>4. ASSUME NEW b \in Ids, Claimable(s.cand[b]),
             t = [s EXCEPT !.cand[b].marks = @ \cup {"promoted"}]
      PROVE  \A c \in Ids : /\ t.cand[c].sources = s.cand[c].sources
                            /\ "stale" \in t.cand[c].marks <=> "stale" \in s.cand[c].marks
  BY <1>4, ClaimEffect
<1>5. ASSUME NEW c \in Ids, NEW e \in SUBSET Rows, NEW m \in SUBSET Rows,
             t = [s EXCEPT !.fact[c] =
                    [NoFact EXCEPT !.status = "bare", !.sources = e, !.missed = m]]
      PROVE  t.cand = s.cand
  BY <1>5, InsertEffect
<1>6. ASSUME NEW c \in Ids, t = [s EXCEPT !.fact[c].status = "live"]
      PROVE  t.cand = s.cand
  BY <1>6, EmbedEffect
<1>7. ASSUME NEW f \in Ids, NEW c \in Ids,
             t = [s EXCEPT !.fact[f].status = "retired", !.fact[f].by = c]
      PROVE  t.cand = s.cand
  BY <1>7, SupersedeEffect
<1>8. QED
  BY <1>2, <1>3, <1>4, <1>5, <1>6, <1>7 DEF Change, Adjust

\* A row the backfill merges goes stale; what it matched stays and takes its
\* sources, those of rows that had been merged into it before included.
LEMMA BackfillKept ==
  ASSUME NEW cand \in [Ids -> Candidate], NEW due \in SUBSET Ids,
         \A c \in due : Missing(cand[c]),
         NEW into \in [due -> Ids \cup {None}], NEW flagged \in SUBSET due,
         \A c \in due : into[c] \in Matches(cand, due, into, flagged, c) \cup {None},
         NEW s, s.cand = cand, Kept(s),
         NEW t, t.cand = Backfilled(cand, due, into, flagged)
  PROVE  Kept(t)
<1> DEFINE Merged(c) == c \in due /\ into[c] # None
<1>1. None \notin Ids
  BY DEF None, Ids
<1>2. \A c \in Ids : cand[c].sources \subseteq MergedSources(cand, due, into, c)
  BY DEF MergedSources
<1>3. ASSUME NEW c \in Ids
      PROVE  /\ cand[c].sources \subseteq t.cand[c].sources
             /\ c \notin due => t.cand[c].marks = cand[c].marks
             /\ Merged(c) => t.cand[c].sources = cand[c].sources
             /\ ~Merged(c) => t.cand[c].sources = MergedSources(cand, due, into, c)
             /\ c \in due /\ ~Merged(c) => "stale" \notin t.cand[c].marks
  <2>1. CASE Merged(c)
    BY <2>1, BackfilledEffect
  <2>2. CASE ~Merged(c)
    <3>1. /\ t.cand[c].sources = MergedSources(cand, due, into, c)
          /\ t.cand[c].marks = IF c \in due /\ c \in flagged THEN {"needs_review"}
                                                            ELSE cand[c].marks
      BY <2>2, BackfilledEffect
    <3>2. c \in due => cand[c].marks = {}
      BY DEF Missing, Live
    <3>3. QED
      BY <1>2, <2>2, <3>1, <3>2
  <2>3. QED
    BY <2>1, <2>2
\* A merged row's match is merged nowhere and not stale.
<1>4. ASSUME NEW c \in Ids, Merged(c)
      PROVE  /\ into[c] \in Ids /\ ~Merged(into[c])
             /\ "stale" \notin t.cand[into[c]].marks
             /\ cand[c].sources \subseteq t.cand[into[c]].sources
  <2> DEFINE m == into[c]
  <2>1. /\ m \in Ids
        /\ Mergeable(cand[m]) \/ (m \in due /\ into[m] = None)
    BY <1>4 DEF Matches
  <2>2. CASE Mergeable(cand[m])
    <3>1. m \notin due /\ cand[m].marks = {}
      BY <2>1, <2>2 DEF Mergeable, Missing, Live
    <3>2. ~Merged(m) /\ "stale" \notin t.cand[m].marks
      BY <1>3, <2>1, <3>1
    <3>3. t.cand[m].sources = MergedSources(cand, due, into, m)
      BY <1>3, <2>1, <3>2
    <3>4. QED
      BY <1>4, <2>1, <3>2, <3>3 DEF MergedSources
  <2>3. CASE m \in due /\ into[m] = None
    <3>1. ~Merged(m) /\ "stale" \notin t.cand[m].marks
      BY <1>3, <2>1, <2>3
    <3>2. t.cand[m].sources = MergedSources(cand, due, into, m)
      BY <1>3, <2>1, <3>1
    <3>3. QED
      BY <1>4, <2>1, <3>1, <3>2 DEF MergedSources
  <2>4. QED
    BY <2>1, <2>2, <2>3
<1>5. ASSUME NEW c \in Ids, "stale" \in t.cand[c].marks
      PROVE  \E m \in Ids : /\ "stale" \notin t.cand[m].marks
                            /\ t.cand[c].sources \subseteq t.cand[m].sources
  <2>1. CASE Merged(c)
    BY <1>3, <1>4, <2>1
  <2>2. CASE ~Merged(c)
    <3>1. c \notin due /\ "stale" \in cand[c].marks
      BY <1>3, <1>5, <2>2
    <3>2. t.cand[c].sources = cand[c].sources
      <4>1. \A n \in due : into[n] # c
        <5> SUFFICES ASSUME NEW n \in due, into[n] = c PROVE FALSE
          OBVIOUS
        <5>1. Merged(n) /\ n \in Ids
          BY <1>1
        <5>2. QED
          BY <1>4, <1>5, <5>1
      <4>2. MergedSources(cand, due, into, c) = cand[c].sources
        BY <4>1 DEF MergedSources
      <4>3. QED
        BY <1>3, <2>2, <4>2
    <3>3. PICK m \in Ids : /\ "stale" \notin cand[m].marks
                           /\ cand[c].sources \subseteq cand[m].sources
      BY <3>1 DEF Kept
    <3>4. CASE Merged(m)
      BY <1>4, <3>2, <3>3, <3>4
    <3>5. CASE ~Merged(m)
      BY <1>3, <3>2, <3>3, <3>5
    <3>6. QED
      BY <3>4, <3>5
  <2>3. QED
    BY <2>1, <2>2
<1>6. QED
  BY <1>5 DEF Kept

LEMMA LightKept ==
  ASSUME TypeInv, Fresh(db), Kept(db), NEW l \in LightRuns, LightStep(l)
  PROVE  Kept(db')
<1>1. db \in Store /\ db.cand \in [Ids -> Candidate]
  BY DEF TypeInv, TypeOK, Store
<1>2. CASE LightBackfill(l)
  <2> DEFINE due == StillMissing(db.cand, light[l].todo)
  <2>1. due \in SUBSET Ids /\ \A c \in due : Missing(db.cand[c])
    BY LightTyped DEF StillMissing, LightRun
  <2>2. PICK into \in [due -> Ids \cup {None}], flagged \in SUBSET due :
          /\ \A c \in due : into[c] \in Matches(db.cand, due, into, flagged, c) \cup {None}
          /\ db' = [db EXCEPT !.cand = Backfilled(@, due, into, flagged)]
    BY <1>2 DEF LightBackfill
  <2> HIDE DEF due
  <2>3. db'.cand = Backfilled(db.cand, due, into, flagged)
    BY <1>1, <2>2 DEF Store
  <2>4. QED
    BY <1>1, <2>1, <2>2, <2>3, BackfillKept
<1>3. CASE LightCommit(l) /\ light[l].found # {} /\ StoreCandidate(light[l].found)
  <2>1. light[l].found \in SUBSET Rows
    BY LightTyped DEF LightRun
  <2>2. \A c \in Ids : /\ db.cand[c].sources \subseteq db'.cand[c].sources
                       /\ "stale" \in db'.cand[c].marks <=> "stale" \in db.cand[c].marks
                       /\ "stale" \in db.cand[c].marks => db'.cand[c] = db.cand[c]
    <3> DEFINE Merged(m) ==
                 /\ Mergeable(db.cand[m])
                 /\ \A e \in Ids : e # m => db'.cand[e] = db.cand[e]
                 /\ db'.cand[m].sources = db.cand[m].sources \cup light[l].found
                 /\ db'.cand[m].marks = db.cand[m].marks
               Added(m) ==
                 /\ db.cand[m].sources = {}
                 /\ \A e \in Ids : e # m => db'.cand[e] = db.cand[e]
                 /\ db'.cand[m].marks \subseteq {"needs_review"}
    <3>1. \E m \in Ids : Merged(m) \/ Added(m)
      BY <1>3, <2>1, StoredEffect
    <3>2. ASSUME NEW m \in Ids, Merged(m), NEW c \in Ids
          PROVE  /\ db.cand[c].sources \subseteq db'.cand[c].sources
                 /\ "stale" \in db'.cand[c].marks <=> "stale" \in db.cand[c].marks
                 /\ "stale" \in db.cand[c].marks => db'.cand[c] = db.cand[c]
      <4>1. "stale" \notin db.cand[m].marks
        BY <3>2 DEF Mergeable, Live
      <4> QED
        BY <3>2, <4>1
    <3>3. ASSUME NEW m \in Ids, Added(m), NEW c \in Ids
          PROVE  /\ db.cand[c].sources \subseteq db'.cand[c].sources
                 /\ "stale" \in db'.cand[c].marks <=> "stale" \in db.cand[c].marks
                 /\ "stale" \in db.cand[c].marks => db'.cand[c] = db.cand[c]
      <4>1. "stale" \notin db.cand[m].marks /\ "stale" \notin db'.cand[m].marks
        BY <3>3 DEF Fresh
      <4> QED
        BY <3>3, <4>1
    <3> HIDE DEF Merged, Added
    <3> QED
      BY <3>1, <3>2, <3>3
  <2>3. QED
    BY <2>2 DEF Kept
<1>4. CASE db' = db
  BY <1>4
<1>5. QED
  BY <1>2, <1>3, <1>4 DEF LightStep, LightCommit, LightRead, LightExtract, LightLoad,
                          LightFails, dbVars

LEMMA KeptNext == TypeInv /\ TxnInv /\ KeptInv /\ [Next]_vars => KeptInv'
<1> SUFFICES ASSUME TypeInv, TxnInv, KeptInv, [Next]_vars PROVE KeptInv'
  OBVIOUS
<1>1. \A s, t : s = t /\ Kept(s) => Kept(t)
  OBVIOUS
<1>2. SUFFICES Kept(db') /\ Kept(txnImage')
  BY <1>2 DEF KeptInv, Kept
<1>3. ASSUME NEW d \in DeepRuns PROVE Kept(View(d))
  BY DEF View, KeptInv
<1>4. Kept(EmptyStore)
  BY DEF Kept, EmptyStore, NoCandidate
<1>5. ASSUME NEW d \in DeepRuns, DeepStep(d)
      PROVE  Kept(db') /\ Kept(txnImage')
  <2>1. CASE UNCHANGED dbVars
    BY <2>1 DEF dbVars, KeptInv
  <2>2. CASE \E t \in Store : Write(d, t) /\ Change(View(d), t)
    <3>1. PICK t \in Store : Write(d, t) /\ Change(View(d), t)
      BY <2>2
    <3>2. Kept(t)
      BY <1>3, <3>1, DeepTyped, ChangeKept
    <3>3. db' \in {db, t} /\ txnImage' \in {txnImage, t}
      BY <3>1 DEF Write
    <3>4. QED
      BY <3>2, <3>3 DEF KeptInv
  <2>3. CASE DeepFinish(d) \/ DeepFails(d)
    <3>1. db' \in {db, View(d)} /\ txnImage' \in {txnImage, EmptyStore}
      BY <2>3 DEF DeepFinish, DeepFails
    <3>2. QED
      BY <1>3, <1>4, <3>1 DEF KeptInv
  <2>4. QED
    BY <1>5, <2>1, <2>2, <2>3, DeepChanges
<1>6. ASSUME NEW l \in LightRuns, LightStep(l)
      PROVE  Kept(db') /\ Kept(txnImage')
  <2>1. txnImage' = txnImage
    BY <1>6, LightGrows DEF TxnInv
  <2>2. QED
    BY <1>6, <2>1, LightKept DEF KeptInv, TxnInv
<1>7. CASE AppendMessage \/ UNCHANGED vars
  BY <1>7 DEF AppendMessage, vars, dbVars, KeptInv
<1>8. QED
  BY <1>5, <1>6, <1>7 DEF Next

\* Deduplication never loses a source (candidates.py 298-355): what a stale
\* candidate was drawn from is cited by one that is not stale, through every
\* further merge, and also by the image of an open transaction, which replaces
\* the database when it commits.
THEOREM DedupKeepsEvidence == Spec => []EvidenceKept
<1>1. KeptInv => EvidenceKept
  BY DEF KeptInv, Kept, EvidenceKept
<1>2. Init => KeptInv
  <2> SUFFICES ASSUME Init PROVE KeptInv
    OBVIOUS
  <2>1. PICK imported \in 0 .. MaxCandidates :
          db = [EmptyStore EXCEPT !.cand = [c \in Ids |->
            IF c <= imported THEN [NoCandidate EXCEPT !.sources = {1}] ELSE NoCandidate]]
    BY DEF Init
  <2>2. \A c \in Ids : db.cand[c].marks = {} /\ txnImage.cand[c].marks = {}
    BY <2>1 DEF Init, EmptyStore, NoCandidate
  <2>3. QED
    BY <2>2 DEF KeptInv, Kept
<1>3. QED
  BY <1>1, <1>2, KeptNext, TxnInvariant, TypeInvariant, PTL DEF Spec

-------------------------------------------------------------------------------
\* Atomicity on SQLite: between two statements of a promotion its candidate has
\* no whole fact, but only in the image of the transaction that is under way.

WholeAt(s, c) ==
  "promoted" \in s.cand[c].marks <=> s.fact[c].status \in {"live", "retired"}

Promoting(run, c) == run.pc \in {"insert", "embed"} /\ c = run.current

Atomic(run, s) ==
  /\ \A c \in Ids : Promoting(run, c) \/ WholeAt(s, c)
  /\ run.pc \in {"insert", "embed"} => "promoted" \in s.cand[run.current].marks

AtomInv ==
  ~autocommit =>
    /\ \A c \in Ids : WholeAt(db, c)
    /\ \A d \in DeepRuns : deep[d].pc \in {"insert", "embed"} => txnOwner = d
    /\ \A d \in DeepRuns : txnOwner = d => Atomic(deep[d], txnImage)

LEMMA AtomView ==
  ASSUME AtomInv, ~autocommit, NEW d \in DeepRuns
  PROVE  Atomic(deep[d], View(d))
  BY DEF AtomInv, View, Atomic

\* A step of a cycle that writes, and one that does not.
LEMMA AtomWrite ==
  ASSUME TypeInv, AtomInv, ~autocommit, NEW d \in DeepRuns, NEW run, Step(d, run),
         NEW t, Write(d, t), Atomic(run, t)
  PROVE  AtomInv'
<1>1. /\ txnOwner \in {d, Nobody} /\ Nobody \notin DeepRuns
      /\ txnOwner' = d /\ txnImage' = t /\ db' = db
  BY TiersAssumption DEF Write
<1>2. deep'[d] = run /\ \A e \in DeepRuns : e # d => deep'[e] = deep[e]
  BY DEF Step, TypeInv, TypeOK
<1>3. \A c \in Ids : WholeAt(db, c)'
  BY <1>1 DEF AtomInv, WholeAt
<1>4. \A e \in DeepRuns : deep'[e].pc \in {"insert", "embed"} => txnOwner' = e
  BY <1>1, <1>2 DEF AtomInv
<1>5. Atomic(deep[d], txnImage)'
  BY <1>1, <1>2 DEF Atomic, Promoting, WholeAt
<1>6. QED
  BY <1>1, <1>3, <1>4, <1>5 DEF AtomInv

LEMMA AtomMove ==
  ASSUME TypeInv, AtomInv, ~autocommit, NEW d \in DeepRuns, NEW run, Step(d, run),
         UNCHANGED dbVars, run.pc \notin {"insert", "embed"},
         deep[d].pc \notin {"insert", "embed"}
  PROVE  AtomInv'
<1>1. UNCHANGED <<db, txnOwner, txnImage>>
  BY DEF dbVars
<1>2. deep'[d] = run /\ \A e \in DeepRuns : e # d => deep'[e] = deep[e]
  BY DEF Step, TypeInv, TypeOK
<1>3. \A c \in Ids : WholeAt(db, c)'
  BY <1>1 DEF AtomInv, WholeAt
<1>4. \A e \in DeepRuns : deep'[e].pc \in {"insert", "embed"} => txnOwner' = e
  BY <1>1, <1>2 DEF AtomInv
<1>5. \A e \in DeepRuns : txnOwner = e => Atomic(deep[e], txnImage)'
  BY <1>1, <1>2 DEF AtomInv, Atomic, Promoting, WholeAt
<1>6. QED
  BY <1>1, <1>3, <1>4, <1>5 DEF AtomInv

LEMMA AtomRetire ==
  ASSUME TypeInv, AtomInv, ~autocommit, NEW d \in DeepRuns, NEW c \in Ids, NEW f \in Ids,
         NEW run \in DeepRun, RetireCandidate(d, c, f, run),
         deep[d].pc \notin {"insert", "embed"}
  PROVE  AtomInv'
<1> DEFINE s == View(d)
           t == Retired(s, c, f)
<1>1. /\ Continue(run).pc \notin {"insert", "embed"}
      /\ [deep[d] EXCEPT !.pc = "raised"].pc = "raised"
  BY DeepTyped DEF Continue, DeepRun
<1>2. \A e \in Ids : WholeAt(s, e)
  BY AtomView DEF Atomic, Promoting
<1>3. Atomic(Continue(run), t)
  <2>1. s \in Store
    BY DeepTyped
  <2> HIDE DEF s
  <2>2. /\ t.fact = s.fact
        /\ \A e \in Ids : "promoted" \in t.cand[e].marks <=> "promoted" \in s.cand[e].marks
    BY <2>1, RetiredEffect
  <2> HIDE DEF t
  <2>3. QED
    BY <1>1, <1>2, <2>2 DEF Atomic, WholeAt
<1>4. CASE Raise(d)
  BY <1>1, <1>4, AtomMove DEF Raise
<1>5. CASE Write(d, t) /\ Step(d, Continue(run))
  <2> HIDE DEF t
  <2>1. QED
    BY <1>3, <1>5, AtomWrite
<1>6. CASE UNCHANGED dbVars /\ Step(d, Continue(run))
  BY <1>1, <1>6, AtomMove
<1>7. QED
  BY <1>4, <1>5, <1>6 DEF RetireCandidate

LEMMA AtomDecide ==
  ASSUME TypeInv, AtomInv, ~autocommit, NEW d \in DeepRuns,
         DeepRead(d) \/ DeepJudge(d) \/ DeepRetire(d) \/ DeepCheck(d)
  PROVE  AtomInv'
<1>1. deep[d] \in DeepRun
  BY DeepTyped
<1>2. CASE DeepRead(d) \/ DeepJudge(d) \/ DeepCheck(d)
  <2>1. deep[d].pc \notin {"insert", "embed"} /\ UNCHANGED dbVars
    BY <1>2 DEF DeepRead, DeepJudge, DeepCheck, Raise
  <2>2. deep' = [deep EXCEPT ![d] = deep'[d]] /\ deep'[d].pc \notin {"insert", "embed"}
    <3>1. CASE DeepRead(d)
      BY <3>1 DEF DeepRead, NoDeep, TypeInv, TypeOK
    <3>2. CASE DeepJudge(d)
      <4>1. PICK run : Judged(d, run)
        BY <3>2, JudgeEffect
      <4>2. QED
        BY <4>1 DEF Judged, Step, TypeInv, TypeOK
    <3>3. CASE DeepCheck(d)
      <4>1. PICK run : Step(d, run) /\ run.pc \in {"raised", "decide", "claim"}
        <5>1. PICK c \in deep[d].wins :
                \/ Step(d, [deep[d] EXCEPT !.pc = "raised"])
                \/ Step(d, [deep[d] EXCEPT !.wins = @ \ {c}])
                \/ Step(d, [[deep[d] EXCEPT !.wins = @ \ {c}] EXCEPT
                              !.pc = "claim", !.current = c,
                              !.evidence = View(d).cand[c].sources])
          BY <3>3 DEF DeepCheck, Raise
        <5>2. /\ [deep[d] EXCEPT !.pc = "raised"].pc = "raised"
              /\ [deep[d] EXCEPT !.wins = @ \ {c}].pc = "decide"
              /\ [[deep[d] EXCEPT !.wins = @ \ {c}] EXCEPT
                   !.pc = "claim", !.current = c,
                   !.evidence = View(d).cand[c].sources].pc = "claim"
          BY <1>1, <3>3 DEF DeepCheck, DeepRun
        <5>3. QED
          BY <5>1, <5>2
      <4>2. QED
        BY <4>1 DEF Step, TypeInv, TypeOK
    <3>4. QED
      BY <1>2, <3>1, <3>2, <3>3
  <2>3. QED
    BY <2>1, <2>2, AtomMove DEF Step
<1>3. CASE DeepRetire(d)
  <2>1. PICK c \in {b \in Ids : deep[d].blocked[b] # None} :
          RetireCandidate(d, c, deep[d].blocked[c],
                          [deep[d] EXCEPT !.blocked[c] = None, !.current = None])
    BY <1>3 DEF DeepRetire
  <2> DEFINE run == [deep[d] EXCEPT !.blocked[c] = None, !.current = None]
             f == deep[d].blocked[c]
  <2>2. run \in DeepRun /\ f \in Ids /\ c \in Ids
    BY <1>1, <2>1 DEF DeepRun
  <2>3. RetireCandidate(d, c, f, run) /\ deep[d].pc \notin {"insert", "embed"}
    BY <1>3, <2>1 DEF DeepRetire
  <2> HIDE DEF run, f
  <2>4. QED
    BY <2>2, <2>3, AtomRetire
<1>4. QED
  BY <1>2, <1>3

LEMMA AtomPromote ==
  ASSUME TypeInv, AtomInv, ~autocommit, NEW d \in DeepRuns,
         DeepClaim(d) \/ DeepInsert(d) \/ DeepEmbed(d) \/ DeepLink(d)
  PROVE  AtomInv'
<1> DEFINE c == deep[d].current
           s == View(d)
           e == deep[d].evidence
           m == missed[d]
<1>1. deep[d] \in DeepRun /\ s \in Store /\ c \in Ids /\ Atomic(deep[d], s)
  BY DeepTyped, AtomView DEF DeepShape, DeepClaim, DeepInsert, DeepEmbed, DeepLink
<1>2. \A f \in Ids : f # c => WholeAt(s, f)
  BY <1>1 DEF Atomic, Promoting
<1>3. CASE DeepClaim(d)
  <2> DEFINE run == [deep[d] EXCEPT !.pc = "insert"]
             lost == LostClaim(deep[d])
             t == [s EXCEPT !.cand[c].marks = @ \cup {"promoted"}]
  <2>1. \/ Claimable(s.cand[c]) /\ Write(d, t) /\ Step(d, run)
        \/ Write(d, s) /\ Step(d, lost)
    BY <1>3 DEF DeepClaim
  <2>2. run.pc = "insert" /\ run.current = c /\ lost.pc = "decide"
    BY <1>1 DEF LostClaim, DeepRun
  <2>3. \A f \in Ids : WholeAt(s, f)
    BY <1>1, <1>3 DEF DeepClaim, Atomic, Promoting
  <2> HIDE DEF s, c, run, lost
  <2>4. CASE Claimable(s.cand[c]) /\ Write(d, t) /\ Step(d, run)
    <3>1. \A f \in Ids : f # c => WholeAt(t, f)
      BY <1>1, <2>3, <2>4, ClaimEffect DEF WholeAt
    <3>2. "promoted" \in t.cand[c].marks
      BY <1>1, <2>4, ClaimEffect
    <3> HIDE DEF t
    <3>3. Atomic(run, t)
      BY <2>2, <3>1, <3>2 DEF Atomic, Promoting
    <3>4. QED
      BY <2>4, <3>3, AtomWrite
  <2>5. CASE Write(d, s) /\ Step(d, lost)
    <3>1. Atomic(lost, s)
      BY <2>2, <2>3 DEF Atomic
    <3>2. QED
      BY <2>5, <3>1, AtomWrite
  <2>6. QED
    BY <2>1, <2>4, <2>5
<1>4. CASE DeepInsert(d)
  <2> DEFINE run == [deep[d] EXCEPT !.pc = "embed"]
             t == [s EXCEPT !.fact[c] = [NoFact EXCEPT
                     !.status = "bare", !.sources = e, !.missed = m]]
  <2>1. Write(d, t) /\ Step(d, run)
    BY <1>4 DEF DeepInsert
  <2>2. run.pc = "embed" /\ run.current = c /\ "promoted" \in s.cand[c].marks
    BY <1>1, <1>4 DEF DeepInsert, DeepRun, Atomic
  <2> HIDE DEF s, c, e, m, run
  <2>3. t.cand = s.cand /\ \A f \in Ids : f # c => t.fact[f] = s.fact[f]
    BY <1>1, InsertEffect
  <2> HIDE DEF t
  <2>4. Atomic(run, t)
    BY <1>2, <2>2, <2>3 DEF Atomic, Promoting, WholeAt
  <2>5. QED
    BY <2>1, <2>4, AtomWrite
<1>5. CASE DeepEmbed(d)
  <2> DEFINE run == [deep[d] EXCEPT !.pc = "link"]
             t == [s EXCEPT !.fact[c].status = "live"]
  <2>1. Write(d, t) /\ Step(d, run)
    BY <1>5 DEF DeepEmbed
  <2>2. run.pc \notin {"insert", "embed"} /\ "promoted" \in s.cand[c].marks
    BY <1>1, <1>5 DEF DeepEmbed, DeepRun, Atomic
  <2> HIDE DEF s, c, run
  <2>3. /\ t.cand = s.cand /\ t.fact[c].status = "live"
        /\ \A f \in Ids : f # c => t.fact[f] = s.fact[f]
    BY <1>1, EmbedEffect
  <2> HIDE DEF t
  <2>4. Atomic(run, t)
    BY <1>2, <2>2, <2>3 DEF Atomic, WholeAt
  <2>5. QED
    BY <2>1, <2>4, AtomWrite
<1>6. CASE DeepLink(d)
  <2> DEFINE run == Continue(deep[d])
  <2>1. Write(d, s) /\ Step(d, run)
    BY <1>6 DEF DeepLink
  <2>2. run.pc \notin {"insert", "embed"}
    BY <1>1, <1>6 DEF DeepLink, Continue, DeepRun
  <2>3. \A f \in Ids : WholeAt(s, f)
    BY <1>1, <1>6 DEF DeepLink, Atomic, Promoting
  <2> HIDE DEF s, c, run
  <2>4. Atomic(run, s)
    BY <2>2, <2>3 DEF Atomic
  <2>5. QED
    BY <2>1, <2>4, AtomWrite
<1>7. QED
  BY <1>3, <1>4, <1>5, <1>6

\* What a promotion retires is a fact that was written, so one of a candidate
\* that is promoted: its retirement leaves it whole.
LEMMA AtomRetireBeaten ==
  ASSUME TypeInv, SoundInv, AtomInv, ~autocommit, NEW d \in DeepRuns,
         DeepSupersede(d) \/ DeepBeat(d)
  PROVE  AtomInv'
<1> DEFINE c == deep[d].current
           s == View(d)
<1>1. deep[d] \in DeepRun /\ s \in Store /\ c \in Ids /\ deep[d].pc = "supersede"
  BY DeepTyped DEF DeepShape, DeepSupersede, DeepBeat
<1>2. \A e \in Ids : WholeAt(s, e)
  BY <1>1, AtomView DEF Atomic, Promoting
<1>3. CASE DeepSupersede(d)
  <2>1. PICK f \in deep[d].supersedes[c] :
          /\ Write(d, IF s.fact[f].status = "retired" THEN s
                      ELSE [s EXCEPT !.fact[f].status = "retired", !.fact[f].by = c])
          /\ Step(d, Continue([deep[d] EXCEPT !.supersedes[c] = @ \ {f}]))
    BY <1>3 DEF DeepSupersede
  <2> DEFINE t == [s EXCEPT !.fact[f].status = "retired", !.fact[f].by = c]
             new == IF s.fact[f].status = "retired" THEN s ELSE t
             run == Continue([deep[d] EXCEPT !.supersedes[c] = @ \ {f}])
  <2>2. Write(d, new) /\ Step(d, run)
    BY <2>1
  <2>3. f \in Ids /\ "promoted" \in s.cand[f].marks
    BY <1>1, Held DEF DeepRun, Decided, Sound
  <2>4. run.pc \notin {"insert", "embed"}
    BY <1>1 DEF Continue, DeepRun
  <2> HIDE DEF s, c, run
  <2>5. /\ t.cand = s.cand /\ t.fact[f].status = "retired"
        /\ \A g \in Ids : g # f => t.fact[g] = s.fact[g]
    BY <1>1, <2>3, SupersedeEffect
  <2> HIDE DEF t
  <2>6. \A e \in Ids : WholeAt(new, e)
    BY <1>2, <2>3, <2>5 DEF WholeAt
  <2> HIDE DEF new
  <2>7. Atomic(run, new)
    BY <2>4, <2>6 DEF Atomic
  <2>8. QED
    BY <2>2, <2>7, AtomWrite
<1>4. CASE DeepBeat(d)
  <2>1. PICK b \in deep[d].beats[c] :
          RetireCandidate(d, b, c, [deep[d] EXCEPT !.beats[c] = @ \ {b}])
    BY <1>4 DEF DeepBeat
  <2> DEFINE run == [deep[d] EXCEPT !.beats[c] = @ \ {b}]
  <2>2. b \in Ids /\ run \in DeepRun
    BY <1>1 DEF DeepRun
  <2>3. RetireCandidate(d, b, c, run)
    BY <2>1
  <2> HIDE DEF run, c
  <2>4. QED
    BY <1>1, <2>2, <2>3, AtomRetire
<1>5. QED
  BY <1>3, <1>4

LEMMA AtomEnd ==
  ASSUME TypeInv, AtomInv, ~autocommit, NEW d \in DeepRuns, DeepFinish(d) \/ DeepFails(d)
  PROVE  AtomInv'
<1>1. /\ deep'[d] = NoDeep /\ NoDeep.pc = "idle" /\ Nobody \notin DeepRuns
      /\ \A e \in DeepRuns : e # d => deep'[e] = deep[e]
  BY TiersAssumption DEF DeepFinish, DeepFails, Step, NoDeep, TypeInv, TypeOK
<1>2. CASE txnOwner \in {d, Nobody} /\ txnOwner' = Nobody /\ \A c \in Ids : WholeAt(db', c)
  <2>1. \A c \in Ids : WholeAt(db, c)'
    BY <1>2 DEF WholeAt
  <2>2. \A e \in DeepRuns : deep'[e].pc \in {"insert", "embed"} => txnOwner' = e
    BY <1>1, <1>2 DEF AtomInv
  <2>3. QED
    BY <1>1, <1>2, <2>1, <2>2 DEF AtomInv
<1>3. CASE DeepFinish(d)
  <2>1. \A c \in Ids : WholeAt(View(d), c)
    BY <1>3, AtomView DEF DeepFinish, Atomic, Promoting
  <2>2. QED
    BY <1>2, <1>3, <2>1 DEF DeepFinish
<1>4. CASE DeepFails(d) /\ txnOwner = d
  BY <1>2, <1>4 DEF DeepFails, AtomInv
<1>5. CASE DeepFails(d) /\ txnOwner # d
  <2>1. UNCHANGED <<db, txnOwner, txnImage>>
    BY <1>5 DEF DeepFails
  <2>2. \A e \in DeepRuns : txnOwner' = e => Atomic(deep[e], txnImage)'
    BY <1>1, <1>5, <2>1 DEF AtomInv, Atomic, Promoting, WholeAt
  <2>3. QED
    BY <1>1, <2>1, <2>2 DEF AtomInv, WholeAt
<1>6. QED
  BY <1>3, <1>4, <1>5

\* Light promotes nothing and touches no fact.
LEMMA AtomLight ==
  ASSUME TypeInv, TxnInv, AtomInv, NEW l \in LightRuns, LightStep(l)
  PROVE  AtomInv'
<1>1. UNCHANGED <<autocommit, txnOwner, txnImage, deep>>
  BY LightGrows DEF TxnInv
<1>2. /\ db'.fact = db.fact
      /\ \A c \in Ids : "promoted" \in db'.cand[c].marks <=> "promoted" \in db.cand[c].marks
  <2>1. db \in Store /\ db.cand \in [Ids -> Candidate]
    BY DEF TypeInv, TypeOK, Store
  <2>2. CASE LightBackfill(l)
    <3> DEFINE due == StillMissing(db.cand, light[l].todo)
    <3>1. due \in SUBSET Ids /\ \A c \in due : db.cand[c].marks = {}
      BY LightTyped DEF StillMissing, LightRun, Missing, Live
    <3>2. PICK into \in [due -> Ids \cup {None}], flagged \in SUBSET due :
            db' = [db EXCEPT !.cand = Backfilled(@, due, into, flagged)]
      BY <2>2 DEF LightBackfill
    <3> HIDE DEF due
    <3>3. db'.cand = Backfilled(db.cand, due, into, flagged) /\ db'.fact = db.fact
      BY <2>1, <3>2 DEF Store
    <3>4. ASSUME NEW c \in Ids
          PROVE  "promoted" \in db'.cand[c].marks <=> "promoted" \in db.cand[c].marks
      <4>1. CASE c \in due /\ into[c] # None
        BY <2>1, <3>1, <3>3, <4>1, BackfilledEffect
      <4>2. CASE ~(c \in due /\ into[c] # None)
        BY <2>1, <3>1, <3>3, <4>2, BackfilledEffect
      <4>3. QED
        BY <4>1, <4>2
    <3>5. QED
      BY <3>3, <3>4
  <2>3. CASE LightCommit(l) /\ light[l].found # {} /\ StoreCandidate(light[l].found)
    <3>1. light[l].found \in SUBSET Rows
      BY LightTyped DEF LightRun
    <3>2. QED
      BY <2>3, <3>1, StoredEffect DEF TxnInv, Fresh
  <2>4. CASE db' = db
    BY <2>4
  <2>5. QED
    BY <2>2, <2>3, <2>4 DEF LightStep, LightCommit, LightRead, LightExtract, LightLoad,
                            LightFails, dbVars
<1>3. QED
  BY <1>1, <1>2 DEF AtomInv, WholeAt, Atomic, Promoting

LEMMA AtomNext == TypeInv /\ SoundInv /\ AtomInv /\ [Next]_vars => AtomInv'
<1> SUFFICES ASSUME TypeInv, SoundInv, AtomInv, [Next]_vars PROVE AtomInv'
  OBVIOUS
<1>1. CASE AppendMessage \/ UNCHANGED vars
  BY <1>1 DEF AppendMessage, vars, transcriptVars, dbVars, AtomInv, WholeAt, Atomic, Promoting
<1>2. CASE \E l \in LightRuns : LightStep(l)
  BY <1>2, AtomLight DEF SoundInv
<1>3. CASE \E d \in DeepRuns : DeepStep(d)
  <2>1. CASE autocommit
    <3>1. ASSUME NEW d \in DeepRuns, DeepStep(d) PROVE UNCHANGED transcriptVars
      <4>1. CASE DeepRead(d) \/ DeepJudge(d) \/ DeepRetire(d) \/ DeepCheck(d)
        BY <4>1 DEF DeepRead, DeepJudge, DeepRetire, DeepCheck
      <4>2. CASE DeepClaim(d) \/ DeepInsert(d) \/ DeepEmbed(d) \/ DeepLink(d)
        BY <4>2 DEF DeepClaim, DeepInsert, DeepEmbed, DeepLink
      <4>3. CASE DeepSupersede(d) \/ DeepBeat(d) \/ DeepFinish(d) \/ DeepFails(d)
        BY <4>3 DEF DeepSupersede, DeepBeat, DeepFinish, DeepFails
      <4>4. QED
        BY <3>1, <4>1, <4>2, <4>3 DEF DeepStep
    <3>2. autocommit' = autocommit
      BY <1>3, <3>1 DEF transcriptVars
    <3>3. QED
      BY <2>1, <3>2 DEF AtomInv
  <2>2. CASE ~autocommit
    BY <1>3, <2>2, AtomDecide, AtomPromote, AtomRetireBeaten, AtomEnd DEF DeepStep
  <2>3. QED
    BY <2>1, <2>2
<1>4. QED
  BY <1>1, <1>2, <1>3 DEF Next

\* On SQLite a promoted candidate has its fact, with its embedding, in every
\* committed state (promotion.py 300-386): a promotion that is half done exists
\* only in the image of the transaction that a failure rolls back.
THEOREM PromotionWhole == Spec => []PromotionAtomic
<1>1. AtomInv => PromotionAtomic
  BY DEF AtomInv, PromotionAtomic, WholeAt
<1>2. Init => AtomInv
  <2> SUFFICES ASSUME Init PROVE AtomInv
    OBVIOUS
  <2>1. PICK imported \in 0 .. MaxCandidates :
          db = [EmptyStore EXCEPT !.cand = [c \in Ids |->
            IF c <= imported THEN [NoCandidate EXCEPT !.sources = {1}] ELSE NoCandidate]]
    BY DEF Init
  <2>2. \A c \in Ids : db.cand[c].marks = {} /\ db.fact[c] = NoFact
    BY <2>1 DEF EmptyStore, NoCandidate
  <2>3. \A d \in DeepRuns : deep[d].pc = "idle" /\ txnOwner # d
    BY TiersAssumption DEF Init, NoDeep
  <2>4. QED
    BY <2>2, <2>3 DEF AtomInv, WholeAt, NoFact
<1>3. QED
  BY <1>1, <1>2, AtomNext, SoundInvariant, TypeInvariant, PTL DEF Spec
===============================================================================
