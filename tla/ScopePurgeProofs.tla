--------------------------- MODULE ScopePurgeProofs ----------------------------
(***************************************************************************)
(* Proofs about ScopePurge, for any sessions, calls and bounds.            *)
(***************************************************************************)
EXTENDS ScopePurge, TLAPS

USE DEF Ids, Cands, Tombs, Targets, Calls, None

CandidateRow == [sources : SUBSET Ids, promoted : BOOLEAN]

\* A Deep call past its selection names a candidate.
HasCurrent ==
  \A p \in Phases : phase[p].pc \in {"deep", "claim", "insert"} => phase[p].current \in Cands

-------------------------------------------------------------------------------
\* A call of a phase is where it says, and its parts have their types.
LEMMA PlaceTyped ==
  ASSUME TypeOK, NEW p \in Phases,
         NEW place \in {"idle", "admitted", "cleared", "light", "summarize",
                        "deep", "claim", "insert"},
         NEW held \in SUBSET Ids, NEW c \in Cands \cup {None},
         MovePhase(p, At(place, held, c))
  PROVE  phase' \in [Phases -> PhaseCall]
<1>1. At(place, held, c) \in PhaseCall
  BY DEF At, PhaseCall
<1> QED
  BY <1>1 DEF MovePhase, TypeOK

\* A phase elsewhere is not moved.
LEMMA Moved ==
  ASSUME TypeOK, NEW p \in Phases, NEW x, MovePhase(p, x)
  PROVE  phase'[p] = x /\ \A q \in Phases \ {p} : phase'[q] = phase[q]
BY DEF MovePhase, TypeOK

\* Where a step takes a phase: out, up to its gates, past them once no purge is
\* pending, and from there on with the candidate it selected.
Goes(p, new) ==
  \/ new = NoPhase
  \/ new = At("admitted", {}, None)
  \/ new = At("cleared", {}, None) /\ Pending = {}
  \/ /\ phase[p].pc = "cleared"
     /\ \E held : new \in {At("light", held, None), At("summarize", held, None)}
  \/ phase[p].pc = "cleared" /\ \E c \in Cands : new = At("deep", {}, c)
  \/ phase[p].pc = "deep" /\ \E held : new = At("claim", held, phase[p].current)
  \/ phase[p].pc = "claim" /\ \E held : new = At("insert", held, phase[p].current)

LEMMA PhaseMoves ==
  ASSUME TypeOK, NEW p \in Phases, PhaseStep(p)
  PROVE  \E new : /\ Goes(p, new)
                  /\ phase'[p] = new
                  /\ \A q \in Phases \ {p} : phase'[q] = phase[q]
<1> SUFFICES \E new : MovePhase(p, new) /\ Goes(p, new)
  BY Moved
<1>1. CASE EndPhase(p)
  BY <1>1 DEF EndPhase, Goes
<1>2. CASE AdmitPhase(p)
  BY <1>2 DEF AdmitPhase, Goes
<1>3. CASE ClearPhase(p)
  <2>1. CASE Pending = {}
    BY <1>3, <2>1 DEF ClearPhase, Goes
  <2>2. CASE Pending # {}
    BY <1>3, <2>2 DEF ClearPhase, Goes
  <2> QED
    BY <2>1, <2>2
<1>4. CASE ReadSources(p)
  <2>1. phase[p].pc = "cleared"
    BY <1>4 DEF ReadSources
  <2>2. PICK held : \/ MovePhase(p, At("light", held, None))
                    \/ MovePhase(p, At("summarize", held, None))
    BY <1>4 DEF ReadSources
  <2>3. PICK new : new \in {At("light", held, None), At("summarize", held, None)} /\ MovePhase(p, new)
    BY <2>2
  <2> QED
    BY <2>1, <2>3 DEF Goes
<1>5. CASE ReadCandidate(p)
  BY <1>5 DEF ReadCandidate, Goes
<1>6. CASE CheckCandidate(p) /\ ~EndPhase(p)
  BY <1>6 DEF CheckCandidate, Goes
<1>7. CASE ClaimCandidate(p) /\ ~EndPhase(p)
  <2>1. phase[p].pc = "claim" /\ MovePhase(p, At("insert", phase[p].seen, phase[p].current))
    BY <1>7 DEF ClaimCandidate
  <2> QED
    BY <2>1 DEF Goes
<1>8. CASE CommitLight(p) \/ CommitSummary(p)
  BY <1>1, <1>8 DEF CommitLight, CommitSummary
<1>9. CASE InsertFact(p) \/ PhaseFails(p)
  BY <1>1, <1>9 DEF InsertFact, PhaseFails
<1> QED
  BY <1>1, <1>2, <1>3, <1>4, <1>5, <1>6, <1>7, <1>8, <1>9 DEF PhaseStep

LEMMA GoesPastGates ==
  ASSUME NEW p, NEW new, Goes(p, new), new.pc \notin {"idle", "admitted"}
  PROVE  Pending = {} \/ phase[p].pc \notin {"idle", "admitted"}
BY DEF Goes, NoPhase, At

LEMMA GoesReading ==
  ASSUME NEW p, NEW new, Goes(p, new), new.seen # {}
  PROVE  new.pc \notin {"idle", "admitted"}
BY DEF Goes, NoPhase, At

LEMMA GoesWithCandidate ==
  ASSUME HasCurrent, NEW p \in Phases, NEW new, Goes(p, new),
         new.pc \in {"deep", "claim", "insert"}
  PROVE  new.current \in Cands
<1>1. phase[p].pc \in {"deep", "claim"} => phase[p].current \in Cands
  BY DEF HasCurrent
<1> QED
  BY <1>1 DEF Goes, NoPhase, At

LEMMA CloseTyped == ASSUME TypeOK, NEW x, Close(x) PROVE tombs' \in [Tombs -> Tombstone]
BY DEF TypeOK, Close, Tombstone

LEMMA EndTyped ==
  ASSUME TypeOK, NEW p \in Phases, EndPhase(p)
  PROVE  /\ tombs' \in [Tombs -> Tombstone] /\ phase' \in [Phases -> PhaseCall]
         /\ UNCHANGED <<autocommit, rows, events, writer, purge, raced>>
<1>1. phase' \in [Phases -> PhaseCall]
  BY PlaceTyped DEF EndPhase, NoPhase
<1> QED
  BY <1>1, CloseTyped DEF EndPhase

LEMMA WriteTyped ==
  ASSUME TypeOK, NEW w \in Writers, WriteStep(w) PROVE TypeOK'
<1>a. ASSUME NEW kind \in {"write", "search", "event"}, NEW s \in Targets,
             NEW l \in Labels \cup {Unlabelled},
             writer' = [writer EXCEPT ![w] = WriteOf(kind, s, l)]
      PROVE  writer' \in [Writers -> WriteCall]
  <2>1. WriteOf(kind, s, l) \in WriteCall
    BY DEF WriteOf, WriteCall
  <2> QED
    BY <1>a, <2>1 DEF TypeOK
<1>0. ASSUME EndWrite(w)
      PROVE  tombs' \in [Tombs -> Tombstone] /\ writer' \in [Writers -> WriteCall]
  BY <1>0, <1>a, CloseTyped DEF EndWrite, NoWrite
<1>s. writer[w].session \in Targets
  BY DEF TypeOK, WriteCall
<1>1. CASE AdmitWrite(w)
  <2>1. writer' \in [Writers -> WriteCall]
    BY <1>1, <1>a DEF AdmitWrite
  <2> QED
    BY <1>1, <2>1 DEF AdmitWrite, TypeOK, rows, derived
<1>5. CASE AdmitSearch(w)
  <2>1. writer' \in [Writers -> WriteCall]
    BY <1>5, <1>a DEF AdmitSearch
  <2> QED
    BY <1>5, <2>1 DEF AdmitSearch, TypeOK, rows, derived
<1>6. CASE FallBack(w)
  <2>1. writer' \in [Writers -> WriteCall]
    BY <1>6, <1>a, <1>s DEF FallBack
  <2> QED
    BY <1>6, <2>1 DEF FallBack, TypeOK, rows, derived
<1>2. CASE StoreMessage(w)
  <2>1. UNCHANGED <<autocommit, derived, phase, purge, events>>
    BY <1>2 DEF StoreMessage, EndWrite
  <2>2. /\ issued' \in 0 .. MaxMessages /\ present' \subseteq 1 .. issued'
        /\ raced' \subseteq Ids
    BY <1>2, ScopePurgeAssumption DEF StoreMessage, NextId, TypeOK
  <2>3. /\ session' \in [Ids -> Targets]
        /\ \A m \in Ids : session'[m] = All <=> m > issued'
    BY <1>s, <1>2, ScopePurgeAssumption DEF StoreMessage, EndWrite, NextId, TypeOK
  <2>4. EndWrite(w)
    BY <1>2 DEF StoreMessage
  <2> QED
    BY <1>0, <2>1, <2>2, <2>3, <2>4 DEF TypeOK, derived
<1>3. CASE StoreEvent(w)
  <2>1. writer[w].session \in Sessions
    BY <1>3, <1>s DEF StoreEvent, EndWrite
  <2>2. EndWrite(w) /\ UNCHANGED <<autocommit, derived, phase, purge, rows, raced>>
    BY <1>3 DEF StoreEvent, EndWrite
  <2>3. events' \subseteq Sessions
    BY <1>3, <2>1 DEF StoreEvent, TypeOK
  <2> QED
    BY <1>0, <2>2, <2>3 DEF TypeOK, derived, rows
<1>4. CASE WriteFails(w)
  BY <1>0, <1>4 DEF WriteFails, EndWrite, TypeOK, derived, rows
<1> QED
  BY <1>1, <1>2, <1>3, <1>4, <1>5, <1>6 DEF WriteStep

LEMMA PhaseTyped ==
  ASSUME TypeOK, HasCurrent, NEW p \in Phases, PhaseStep(p) PROVE TypeOK'
<1>0. phase[p] \in PhaseCall /\ phase[p].seen \in SUBSET Ids
  BY DEF TypeOK, PhaseCall
<1>1. CASE AdmitPhase(p)
  <2>1. phase' \in [Phases -> PhaseCall]
    BY <1>1, PlaceTyped DEF AdmitPhase
  <2> QED
    BY <1>1, <2>1 DEF AdmitPhase, TypeOK, rows, derived
<1>2. CASE ClearPhase(p)
  <2>1. phase' \in [Phases -> PhaseCall]
    <3>1. CASE Pending = {}
      BY <1>2, <3>1, PlaceTyped DEF ClearPhase
    <3>2. CASE Pending # {}
      BY <1>2, <3>2, PlaceTyped DEF ClearPhase, NoPhase
    <3> QED
      BY <3>1, <3>2
  <2> QED
    BY <1>2, <2>1 DEF ClearPhase, TypeOK, rows, derived
<1>3. CASE ReadSources(p)
  <2>1. PICK held \in SUBSET present :
          \/ MovePhase(p, At("light", held, None))
          \/ MovePhase(p, At("summarize", held, None))
    BY <1>3 DEF ReadSources
  <2>2. held \in SUBSET Ids
    BY ScopePurgeAssumption DEF TypeOK
  <2>3. phase' \in [Phases -> PhaseCall]
    BY <2>1, <2>2, PlaceTyped
  <2> QED
    BY <1>3, <2>3 DEF ReadSources, TypeOK, rows, derived
<1>4. CASE ReadCandidate(p)
  <2>1. phase' \in [Phases -> PhaseCall]
    BY <1>4, PlaceTyped DEF ReadCandidate
  <2> QED
    BY <1>4, <2>1 DEF ReadCandidate, TypeOK, rows, derived
<1>5. CASE CommitLight(p)
  <2>1. PICK cited \in SUBSET phase[p].seen :
          \/ \E c \in Cands :
               /\ cand' = [cand EXCEPT ![c].sources = @ \cup cited]
               /\ UNCHANGED drafted
          \/ /\ drafted < MaxCandidates
             /\ drafted' = drafted + 1
             /\ cand' = [cand EXCEPT ![drafted + 1].sources = cited]
    BY <1>5 DEF CommitLight
  <2>2. cited \subseteq Ids
    BY <1>0
  <2>3. cand' \in [Cands -> CandidateRow]
    <3>1. cand \in [Cands -> CandidateRow]
      BY DEF TypeOK, CandidateRow
    <3>2. CASE \E c \in Cands : cand' = [cand EXCEPT ![c].sources = @ \cup cited]
      BY <2>2, <3>1, <3>2 DEF CandidateRow
    <3>3. CASE cand' = [cand EXCEPT ![drafted + 1].sources = cited]
      BY <2>2, <3>1, <3>3 DEF CandidateRow
    <3> QED
      BY <2>1, <3>2, <3>3
  <2>4. drafted' \in 0 .. MaxCandidates
    BY <2>1, ScopePurgeAssumption DEF TypeOK
  <2> QED
    BY <1>5, EndTyped, <2>3, <2>4 DEF CommitLight, TypeOK, rows, CandidateRow
<1>6. CASE CommitSummary(p)
  BY <1>0, <1>6, EndTyped DEF CommitSummary, TypeOK, rows
<1>7. CASE CheckCandidate(p)
  <2>1. CASE EndPhase(p) /\ UNCHANGED derived
    BY <2>1, EndTyped DEF TypeOK, rows, derived
  <2>2. CASE /\ MovePhase(p, At("claim", cand[phase[p].current].sources, phase[p].current))
             /\ UNCHANGED <<autocommit, rows, derived, events, tombs, writer, purge, raced>>
    <3>1. phase[p].current \in Cands
      BY <1>7 DEF CheckCandidate, HasCurrent
    <3>2. phase' \in [Phases -> PhaseCall]
      BY <2>2, <3>1, PlaceTyped DEF TypeOK
    <3> QED
      BY <2>2, <3>2 DEF TypeOK, rows, derived
  <2> QED
    BY <1>7, <2>1, <2>2 DEF CheckCandidate
<1>8. CASE ClaimCandidate(p)
  <2>0. phase[p].current \in Cands
    BY <1>8 DEF ClaimCandidate, HasCurrent
  <2>1. CASE EndPhase(p) /\ UNCHANGED derived
    BY <2>1, EndTyped DEF TypeOK, rows, derived
  <2>2. cand \in [Cands -> CandidateRow]
    BY DEF TypeOK, CandidateRow
  <2>3. CASE /\ cand' = [cand EXCEPT ![phase[p].current].promoted = TRUE]
             /\ fact' = [fact EXCEPT ![phase[p].current] = phase[p].seen]
             /\ UNCHANGED <<drafted, recap>> /\ EndPhase(p)
    <3>1. cand' \in [Cands -> CandidateRow]
      BY <2>0, <2>2, <2>3 DEF CandidateRow
    <3>2. fact' \in [Cands -> SUBSET Ids]
      BY <1>0, <2>3 DEF TypeOK
    <3> QED
      BY <2>3, <3>1, <3>2, EndTyped DEF TypeOK, rows, CandidateRow
  <2>4. CASE /\ cand' = [cand EXCEPT ![phase[p].current].promoted = TRUE]
             /\ MovePhase(p, At("insert", phase[p].seen, phase[p].current))
             /\ UNCHANGED <<drafted, recap>>
             /\ UNCHANGED <<autocommit, fact, rows, events, tombs, writer, purge, raced>>
    <3>1. cand' \in [Cands -> CandidateRow]
      BY <2>0, <2>2, <2>4 DEF CandidateRow
    <3>2. phase' \in [Phases -> PhaseCall]
      BY <1>0, <2>0, <2>4, PlaceTyped
    <3> QED
      BY <2>4, <3>1, <3>2 DEF TypeOK, rows, CandidateRow
  <2> QED
    BY <1>8, <2>1, <2>3, <2>4 DEF ClaimCandidate, derived
<1>9. CASE InsertFact(p)
  <2>1. fact' \in [Cands -> SUBSET Ids]
    BY <1>0, <1>9 DEF InsertFact, TypeOK
  <2> QED
    BY <1>9, <2>1, EndTyped DEF InsertFact, TypeOK, rows
<1>10. CASE PhaseFails(p)
  BY <1>10, EndTyped DEF PhaseFails, TypeOK, rows, derived
<1> QED
  BY <1>1, <1>2, <1>3, <1>4, <1>5, <1>6, <1>7, <1>8, <1>9, <1>10 DEF PhaseStep

LEMMA DeleteTyped == ASSUME TypeOK, DeleteScope PROVE TypeOK'
<1>1. PICK t \in Tombs, target \in Targets, label \in Labels :
        tombs' = [tombs EXCEPT ![t] =
          [issued |-> TRUE, target |-> target, label |-> label, pending |-> TRUE,
           open |-> Admitted(target)]]
  BY DEF DeleteScope
<1>2. Admitted(target) \subseteq Calls
  BY DEF Admitted
<1>3. tombs' \in [Tombs -> Tombstone]
  BY <1>1, <1>2 DEF TypeOK, Tombstone
<1> QED
  BY <1>3 DEF DeleteScope, TypeOK, rows, derived, calls

LEMMA PurgeTyped ==
  ASSUME TypeOK, NEW g \in Purges, PurgeStep(g) PROVE TypeOK'
<1>0. NoPurge \in PurgeCall
  BY DEF NoPurge, PurgeCall
<1>1. CASE LookUp(g)
  <2>1. PICK target \in Targets, ids \in SUBSET Tombs :
          purge' = [purge EXCEPT ![g] = [pc |-> "found", target |-> target, ids |-> ids]]
    BY <1>1 DEF LookUp, Issued
  <2>2. purge' \in [Purges -> PurgeCall]
    BY <2>1 DEF TypeOK, PurgeCall
  <2> QED
    BY <1>1, <2>2 DEF LookUp, TypeOK, rows, derived
<1>2. CASE PurgeCommit(g)
  <2>1. cand' \in [Cands -> CandidateRow]
    BY <1>2 DEF PurgeCommit, TypeOK, CandidateRow, NoCandidate
  <2>2. fact' \in [Cands -> SUBSET Ids]
    BY <1>2 DEF PurgeCommit, TypeOK
  <2>3. tombs' \in [Tombs -> Tombstone]
    <3>1. ASSUME NEW t \in Tombs, NEW flag \in BOOLEAN
          PROVE  [tombs[t] EXCEPT !.pending = flag] \in Tombstone
      BY DEF TypeOK, Tombstone
    <3>2. \A t \in Tombs : (tombs[t].pending /\ t \notin purge[g].ids) \in BOOLEAN
      BY Zenon
    <3> QED
      BY <1>2, <3>1, <3>2 DEF PurgeCommit
  <2>4. raced' \subseteq Ids
    BY <1>2, ScopePurgeAssumption DEF PurgeCommit, Racing, Gone, TypeOK
  <2>5. purge' \in [Purges -> PurgeCall]
    BY <1>0, <1>2 DEF PurgeCommit, TypeOK
  <2>6. present' \subseteq present /\ recap' \subseteq recap /\ events' \subseteq events
    BY <1>2 DEF PurgeCommit
  <2> QED
    BY <1>2, <2>1, <2>2, <2>3, <2>4, <2>5, <2>6
       DEF PurgeCommit, TypeOK, rows, CandidateRow
<1>3. CASE PurgeRollsBack(g)
  BY <1>0, <1>3 DEF PurgeRollsBack, TypeOK, rows, derived
<1> QED
  BY <1>1, <1>2, <1>3 DEF PurgeStep

\* Every variable keeps its type, ids included: an id is never issued twice.
THEOREM TypeCorrect == Spec => [](TypeOK /\ HasCurrent)
<1>1. Init => TypeOK /\ HasCurrent
  <2> SUFFICES ASSUME Init PROVE TypeOK /\ HasCurrent
    OBVIOUS
  <2>2. tombs \in [Tombs -> Tombstone]
    BY DEF Init, Tombstone
  <2>3. phase \in [Phases -> PhaseCall] /\ purge \in [Purges -> PurgeCall]
    BY DEF Init, PhaseCall, NoPhase, At, PurgeCall, NoPurge
  <2>4. cand \in [Cands -> [sources : SUBSET Ids, promoted : BOOLEAN]]
    BY DEF Init, NoCandidate
  <2>5. session \in [Ids -> Targets] /\ \A m \in Ids : session[m] = All <=> m > issued
    BY DEF Init
  <2>6. fact \in [Cands -> SUBSET Ids] /\ writer \in [Writers -> WriteCall]
    BY DEF Init, NoWrite, WriteOf, WriteCall
  <2>7. /\ issued \in 0 .. MaxMessages /\ drafted \in 0 .. MaxCandidates
        /\ present \subseteq 1 .. issued /\ recap \subseteq Ids
        /\ events \subseteq Sessions /\ raced \subseteq Ids
    BY ScopePurgeAssumption DEF Init
  <2>8. autocommit \in BOOLEAN
    BY DEF Init
  <2>9. TypeOK
    BY <2>2, <2>3, <2>4, <2>5, <2>6, <2>7, <2>8, Zenon DEF TypeOK
  <2> QED
    BY <2>9 DEF Init, HasCurrent, NoPhase, At
<1>2. TypeOK /\ HasCurrent /\ [Next]_vars => (TypeOK /\ HasCurrent)'
  <2> SUFFICES ASSUME TypeOK, HasCurrent, [Next]_vars PROVE TypeOK' /\ HasCurrent'
    OBVIOUS
  <2>1. CASE UNCHANGED vars
    BY <2>1 DEF vars, rows, derived, calls, TypeOK, HasCurrent
  <2>2. TypeOK'
    BY <2>1, WriteTyped, PhaseTyped, DeleteTyped, PurgeTyped DEF Next
  <2>3. ASSUME UNCHANGED phase PROVE HasCurrent'
    BY <2>3 DEF HasCurrent
  <2>4. ASSUME NEW p \in Phases, PhaseStep(p) PROVE HasCurrent'
    <3>1. PICK new : /\ Goes(p, new) /\ phase'[p] = new
                     /\ \A q \in Phases \ {p} : phase'[q] = phase[q]
      BY <2>4, PhaseMoves
    <3>2. new.pc \in {"deep", "claim", "insert"} => new.current \in Cands
      BY <3>1, GoesWithCandidate
    <3> QED
      BY <3>1, <3>2 DEF HasCurrent
  <2> QED
    BY <2>1, <2>2, <2>3, <2>4
       DEF Next, WriteStep, AdmitWrite, AdmitSearch, FallBack, StoreMessage, StoreEvent,
           WriteFails, EndWrite, DeleteScope, calls, PurgeStep, LookUp, PurgeCommit, PurgeRollsBack
<1> QED
  BY <1>1, <1>2, PTL DEF Spec

-------------------------------------------------------------------------------
\* What the tombstones keep track of.

PastGates(p) == phase[p].pc \notin {"idle", "admitted"}

\* A deletion knows every write that was admitted to its scope before it: one in
\* its scope that it does not know is a search that passed its gate,
WritersOpen ==
  \A t \in Issued, w \in Writers :
    writer[w].session # All /\ Covers(tombs[t].target, writer[w].session) =>
      w \in tombs[t].open \/ PassesBy(t, w)

\* and, until its purge, every phase that has been cleared.
PhasesOpen ==
  \A t \in Issued, p \in Phases :
    tombs[t].pending /\ PastGates(p) => p \in tombs[t].open

\* After its purge only a write admitted before it has stored a message.
PurgedShut ==
  \A t \in Issued, m \in present :
    ~tombs[t].pending /\ Covers(tombs[t].target, session[m]) => m \in raced

\* A purge acts for tombstones that were issued, on their target.
FoundSound ==
  \A g \in Purges : purge[g].pc = "found" =>
    /\ purge[g].ids # {}
    /\ \A t \in purge[g].ids : t \in Issued /\ tombs[t].target = purge[g].target

\* What a phase holds it has read past the gates.
ReadPastGates == \A p \in Phases : phase[p].seen # {} => PastGates(p)

\* Whatever is cited or held is there, or was raced.
CitedKept ==
  /\ recap \subseteq present \cup raced
  /\ \A c \in Cands : cand[c].sources \cup fact[c] \subseteq present \cup raced
  /\ \A p \in Phases : phase[p].seen \subseteq present \cup raced

ErasureInv ==
  /\ TypeOK /\ HasCurrent
  /\ WritersOpen /\ PhasesOpen /\ PurgedShut
  /\ FoundSound /\ ReadPastGates /\ CitedKept

\* The end of a call changes the tombstones' open calls and nothing else.
LEMMA CloseKeeps ==
  ASSUME TypeOK, NEW x, Close(x)
  PROVE  /\ Issued' = Issued
         /\ \A t \in Tombs : /\ tombs'[t].target = tombs[t].target
                             /\ tombs'[t].label = tombs[t].label
                             /\ tombs'[t].pending = tombs[t].pending
                             /\ tombs'[t].open = tombs[t].open \ {x}
<1>1. \A t \in Tombs : /\ tombs'[t].issued = tombs[t].issued
                       /\ tombs'[t].target = tombs[t].target
                       /\ tombs'[t].label = tombs[t].label
                       /\ tombs'[t].pending = tombs[t].pending
                       /\ tombs'[t].open = tombs[t].open \ {x}
  BY DEF Close, TypeOK, Tombstone
<1> QED
  BY <1>1 DEF Issued

\* A deletion adds one pending tombstone, open to the calls admitted so far.
LEMMA DeleteAdds ==
  ASSUME TypeOK, DeleteScope
  PROVE  \E new \in Tombs :
           /\ new \notin Issued
           /\ Issued' = Issued \cup {new}
           /\ tombs'[new].pending
           /\ tombs'[new].open = Admitted(tombs'[new].target)
           /\ \A t \in Issued : tombs'[t] = tombs[t]
<1>1. PICK new \in Tombs \ Issued, target \in Targets, label \in Labels :
        tombs' = [tombs EXCEPT ![new] =
          [issued |-> TRUE, target |-> target, label |-> label, pending |-> TRUE,
           open |-> Admitted(target)]]
  BY DEF DeleteScope
<1>2. tombs \in [Tombs -> Tombstone]
  BY DEF TypeOK
<1>3. tombs'[new] = [issued |-> TRUE, target |-> target, label |-> label,
                     pending |-> TRUE, open |-> Admitted(target)]
  BY <1>1, <1>2
<1>4. \A t \in Tombs : t # new => tombs'[t] = tombs[t]
  BY <1>1, <1>2
<1>5. Issued' = Issued \cup {new}
  BY <1>3, <1>4 DEF Issued
<1> QED
  BY <1>3, <1>4, <1>5 DEF Issued

\* A purge lifts the flag of the tombstones it found.
LEMMA PurgeFlips ==
  ASSUME TypeOK, NEW g \in Purges, PurgeCommit(g)
  PROVE  /\ Issued' = Issued
         /\ \A t \in Tombs :
              /\ tombs'[t].target = tombs[t].target
              /\ tombs'[t].label = tombs[t].label
              /\ tombs'[t].open = tombs[t].open
              /\ tombs'[t].pending => tombs[t].pending
              /\ tombs[t].pending /\ t \notin purge[g].ids => tombs'[t].pending
<1>1. \A t \in Tombs :
        /\ tombs'[t].issued = tombs[t].issued
        /\ tombs'[t].target = tombs[t].target
        /\ tombs'[t].label = tombs[t].label
        /\ tombs'[t].open = tombs[t].open
        /\ tombs'[t].pending = (tombs[t].pending /\ t \notin purge[g].ids)
  BY DEF PurgeCommit, TypeOK, Tombstone
<1> QED
  BY <1>1 DEF Issued

\* The steps, told apart by what they do to the gates.
LEMMA StepKinds ==
  ASSUME Next
  PROVE  \/ \E w \in Writers : AdmitWrite(w) \/ AdmitSearch(w) \/ FallBack(w)
         \/ \E w \in Writers : WriteStep(w) /\ EndWrite(w)
         \/ \E p \in Phases : /\ PhaseStep(p) /\ ~EndPhase(p)
                              /\ UNCHANGED <<tombs, writer, purge, rows, raced>>
         \/ \E p \in Phases : PhaseStep(p) /\ EndPhase(p)
         \/ DeleteScope
         \/ \E g \in Purges : LookUp(g) \/ PurgeRollsBack(g)
         \/ \E g \in Purges : PurgeCommit(g)
<1>1. ASSUME NEW p \in Phases, PhaseStep(p)
      PROVE  EndPhase(p) \/ UNCHANGED <<tombs, writer, purge, rows, raced>>
  BY <1>1 DEF PhaseStep, AdmitPhase, ClearPhase, ReadSources, ReadCandidate, CommitLight,
              CommitSummary, CheckCandidate, ClaimCandidate, InsertFact, PhaseFails
<1> QED
  BY <1>1 DEF Next, WriteStep, StoreMessage, StoreEvent, WriteFails, PurgeStep

LEMMA WritersOpenStep ==
  ASSUME TypeOK, WritersOpen, Next PROVE WritersOpen'
<1>1. ASSUME NEW w \in Writers, UNCHANGED tombs,
             \A x \in Writers \ {w} : writer'[x] = writer[x],
             ~Blocks(writer'[w].session) \/
               /\ writer'[w].kind = "search"
               /\ ~Hides(writer'[w].session, writer'[w].label)
      PROVE  WritersOpen'
  <2> SUFFICES ASSUME NEW t \in Issued, NEW x \in Writers, writer'[x].session # All,
                      Covers(tombs[t].target, writer'[x].session)
               PROVE  x \in tombs[t].open \/ PassesBy(t, x)'
    BY <1>1 DEF WritersOpen, Issued
  <2>1. CASE x = w
    BY <1>1, <2>1 DEF Blocks, Hides, PassesBy
  <2>2. CASE x # w
    BY <1>1, <2>2 DEF WritersOpen, PassesBy
  <2> QED
    BY <2>1, <2>2
<1>a. ASSUME NEW w \in Writers, AdmitWrite(w) \/ AdmitSearch(w) \/ FallBack(w)
      PROVE  WritersOpen'
  BY <1>1, <1>a DEF AdmitWrite, AdmitSearch, FallBack, WriteOf, TypeOK
<1>2. ASSUME NEW w \in Writers, EndWrite(w) PROVE WritersOpen'
  <2>1. Close(w) /\ writer' = [writer EXCEPT ![w] = NoWrite]
    BY <1>2 DEF EndWrite
  <2>2. \A x \in Writers : IF x = w THEN writer'[x].session = All ELSE writer'[x] = writer[x]
    BY <2>1 DEF TypeOK, NoWrite, WriteOf
  <2> QED
    BY <2>1, <2>2, CloseKeeps DEF WritersOpen, Issued, PassesBy
<1>3. ASSUME NEW p \in Phases, EndPhase(p) PROVE WritersOpen'
  BY <1>3, CloseKeeps, ScopePurgeAssumption DEF EndPhase, WritersOpen, Issued, PassesBy
<1>4. CASE DeleteScope
  <2>1. PICK new \in Tombs :
          /\ Issued' = Issued \cup {new}
          /\ tombs'[new].open = Admitted(tombs'[new].target)
          /\ \A t \in Issued : tombs'[t] = tombs[t]
    BY <1>4, DeleteAdds
  <2>2. writer' = writer
    BY <1>4 DEF DeleteScope, calls
  <2>3. SUFFICES ASSUME NEW t \in Issued', NEW w \in Writers, writer[w].session # All,
                        Covers(tombs'[t].target, writer[w].session)
                 PROVE  w \in tombs'[t].open \/ PassesBy(t, w)'
    BY <2>2 DEF WritersOpen
  <2>4. CASE t = new
    BY <2>1, <2>3, <2>4 DEF Admitted
  <2>5. CASE t \in Issued
    BY <2>1, <2>2, <2>3, <2>5 DEF WritersOpen, PassesBy
  <2> QED
    BY <2>1, <2>4, <2>5
<1>5. ASSUME NEW g \in Purges, PurgeCommit(g) PROVE WritersOpen'
  BY <1>5, PurgeFlips DEF PurgeCommit, WritersOpen, Issued, PassesBy
<1>6. CASE UNCHANGED <<tombs, writer>>
  BY <1>6 DEF WritersOpen, Issued, PassesBy
<1> QED
  BY StepKinds, <1>a, <1>2, <1>3, <1>4, <1>5, <1>6 DEF LookUp, PurgeRollsBack

LEMMA PhasesOpenStep ==
  ASSUME TypeOK, PhasesOpen, Next PROVE PhasesOpen'
<1>1. ASSUME NEW w \in Writers, EndWrite(w) PROVE PhasesOpen'
  BY <1>1, CloseKeeps, ScopePurgeAssumption
     DEF EndWrite, PhasesOpen, PastGates, Issued
<1>2. ASSUME NEW p \in Phases, EndPhase(p) PROVE PhasesOpen'
  <2>1. Close(p) /\ phase' = [phase EXCEPT ![p] = NoPhase]
    BY <1>2 DEF EndPhase, MovePhase
  <2>2. \A q \in Phases : PastGates(q)' => q # p /\ PastGates(q)
    BY <2>1 DEF PastGates, TypeOK, NoPhase, At
  <2> QED
    BY <2>1, <2>2, CloseKeeps DEF PhasesOpen, Issued
<1>3. ASSUME NEW p \in Phases, PhaseStep(p), ~EndPhase(p), UNCHANGED tombs
      PROVE  PhasesOpen'
  <2>1. PICK new : /\ Goes(p, new) /\ phase'[p] = new
                   /\ \A q \in Phases \ {p} : phase'[q] = phase[q]
    BY <1>3, PhaseMoves
  <2>2. PastGates(p)' => Pending = {} \/ PastGates(p)
    BY <2>1, GoesPastGates DEF PastGates
  <2>3. \A q \in Phases \ {p} : PastGates(q)' => PastGates(q)
    BY <2>1 DEF PastGates
  <2>4. Issued' = Issued /\ \A t \in Issued : tombs'[t] = tombs[t]
    BY <1>3 DEF Issued
  <2>5. ASSUME NEW t \in Issued, NEW q \in Phases, tombs[t].pending, PastGates(q)'
        PROVE  PastGates(q)
    BY <2>2, <2>3, <2>5 DEF Pending
  <2>6. ASSUME NEW t \in Issued', NEW q \in Phases, tombs'[t].pending, PastGates(q)'
        PROVE  q \in tombs'[t].open
    <3>1. t \in Issued /\ tombs'[t] = tombs[t]
      BY <2>4
    <3>2. PastGates(q)
      BY <2>5, <2>6, <3>1
    <3> QED
      BY <2>6, <3>1, <3>2 DEF PhasesOpen
  <2> QED
    BY <2>6 DEF PhasesOpen
<1>4. CASE DeleteScope
  <2>1. \A q \in Phases : PastGates(q)' = PastGates(q)
    BY <1>4 DEF DeleteScope, calls, PastGates
  <2>2. PICK new \in Tombs :
          /\ Issued' = Issued \cup {new}
          /\ tombs'[new].open = Admitted(tombs'[new].target)
          /\ \A u \in Issued : tombs'[u] = tombs[u]
    BY <1>4, DeleteAdds
  <2>3. \A q \in Phases : PastGates(q) => q \in tombs'[new].open
    BY <2>2 DEF Admitted, PastGates
  <2> QED
    BY <2>1, <2>2, <2>3 DEF PhasesOpen
<1>5. ASSUME NEW g \in Purges, PurgeCommit(g) PROVE PhasesOpen'
  BY <1>5, PurgeFlips DEF PurgeCommit, PhasesOpen, PastGates, Issued
<1>6. CASE UNCHANGED <<tombs, phase>>
  BY <1>6 DEF PhasesOpen, PastGates, Issued
<1> QED
  BY StepKinds, <1>1, <1>2, <1>3, <1>4, <1>5, <1>6
     DEF AdmitWrite, AdmitSearch, FallBack, LookUp, PurgeRollsBack

LEMMA FoundSoundStep ==
  ASSUME TypeOK, FoundSound, Next PROVE FoundSound'
<1>1. ASSUME Issued \subseteq Issued', UNCHANGED purge,
             \A t \in Issued : tombs'[t].target = tombs[t].target
      PROVE  FoundSound'
  BY <1>1 DEF FoundSound
<1>2. ASSUME NEW w \in Writers, EndWrite(w) PROVE FoundSound'
  BY <1>1, <1>2, CloseKeeps DEF EndWrite, Issued
<1>3. ASSUME NEW p \in Phases, EndPhase(p) PROVE FoundSound'
  BY <1>1, <1>3, CloseKeeps DEF EndPhase, Issued
<1>4. CASE DeleteScope
  BY <1>1, <1>4, DeleteAdds DEF DeleteScope, calls
<1>5. ASSUME NEW g \in Purges, LookUp(g) PROVE FoundSound'
  BY <1>5 DEF LookUp, FoundSound, Issued, TypeOK
<1>6. ASSUME NEW g \in Purges, PurgeRollsBack(g) PROVE FoundSound'
  BY <1>6 DEF PurgeRollsBack, FoundSound, Issued, TypeOK, NoPurge
<1>7. ASSUME NEW g \in Purges, PurgeCommit(g) PROVE FoundSound'
  <2>1. purge' = [purge EXCEPT ![g] = NoPurge]
    BY <1>7 DEF PurgeCommit
  <2>2. \A h \in Purges : purge'[h].pc = "found" => purge'[h] = purge[h]
    BY <2>1 DEF TypeOK, NoPurge
  <2> QED
    BY <1>7, <2>2, PurgeFlips DEF FoundSound, Issued
<1>8. CASE UNCHANGED <<tombs, purge>>
  BY <1>8 DEF FoundSound, Issued
<1> QED
  BY StepKinds, <1>2, <1>3, <1>4, <1>5, <1>6, <1>7, <1>8
     DEF AdmitWrite, AdmitSearch, FallBack

LEMMA PurgedShutStep ==
  ASSUME TypeOK, FoundSound, PurgedShut, Next PROVE PurgedShut'
<1>1. ASSUME UNCHANGED rows, UNCHANGED raced,
             \A t \in Issued' : \/ tombs'[t].pending
                                \/ /\ t \in Issued
                                   /\ tombs'[t].target = tombs[t].target
                                   /\ tombs'[t].pending = tombs[t].pending
      PROVE  PurgedShut'
  BY <1>1 DEF PurgedShut, rows
<1>2. ASSUME NEW w \in Writers, EndWrite(w), WriteStep(w) PROVE PurgedShut'
  <2>1. Close(w)
    BY <1>2 DEF EndWrite
  <2>2. CASE UNCHANGED <<rows, raced>>
    BY <1>1, <2>1, <2>2, CloseKeeps DEF Issued
  <2>3. CASE StoreMessage(w)
    <3>1. SUFFICES ASSUME NEW t \in Issued, NEW m \in present',
                          ~tombs[t].pending, Covers(tombs[t].target, session'[m])
                   PROVE  m \in raced'
      BY <2>1, CloseKeeps DEF PurgedShut, Issued
    <3>2. CASE m = NextId
      <4>1. session'[m] = writer[w].session
        BY <2>3, <3>2 DEF StoreMessage, TypeOK
      <4> QED
        BY <2>3, <3>1, <3>2, <4>1 DEF StoreMessage, Blocks
    <3>3. CASE m # NextId
      <4>1. m \in present
        BY <2>3, <3>1, <3>3 DEF StoreMessage
      <4>2. session'[m] = session[m]
        BY <2>3, <3>3, <4>1, ScopePurgeAssumption DEF StoreMessage, TypeOK
      <4> QED
        BY <2>3, <3>1, <4>1, <4>2 DEF StoreMessage, PurgedShut
    <3> QED
      BY <3>2, <3>3
  <2> QED
    BY <1>2, <2>2, <2>3
       DEF WriteStep, AdmitWrite, AdmitSearch, FallBack, StoreEvent, WriteFails, EndWrite
<1>3. ASSUME NEW p \in Phases, EndPhase(p) PROVE PurgedShut'
  BY <1>1, <1>3, CloseKeeps DEF EndPhase, Issued
<1>4. CASE DeleteScope
  BY <1>1, <1>4, DeleteAdds DEF DeleteScope, Issued
<1>5. ASSUME NEW g \in Purges, PurgeCommit(g) PROVE PurgedShut'
  <2>1. SUFFICES ASSUME NEW t \in Issued, NEW m \in present',
                        ~tombs'[t].pending, Covers(tombs[t].target, session[m])
                 PROVE  m \in raced'
    BY <1>5, PurgeFlips DEF PurgedShut, Issued, PurgeCommit
  <2>2. m \in present /\ m \notin Gone(purge[g].target)
    BY <1>5, <2>1 DEF PurgeCommit
  <2>3. purge[g].pc = "found"
    BY <1>5 DEF PurgeCommit
  <2>4. CASE t \in purge[g].ids
    BY <2>1, <2>2, <2>3, <2>4 DEF FoundSound, Gone
  <2>5. CASE t \notin purge[g].ids
    <3>1. ~tombs[t].pending
      BY <1>5, <2>1, <2>5, PurgeFlips DEF Issued
    <3>2. raced \subseteq raced'
      BY <1>5 DEF PurgeCommit
    <3> QED
      BY <2>1, <2>2, <3>1, <3>2 DEF PurgedShut
  <2> QED
    BY <2>4, <2>5
<1>6. CASE UNCHANGED <<tombs, rows, raced>>
  BY <1>6 DEF PurgedShut, Issued, rows
<1> QED
  BY StepKinds, <1>2, <1>3, <1>4, <1>5, <1>6
     DEF AdmitWrite, AdmitSearch, FallBack, LookUp, PurgeRollsBack

LEMMA ReadPastGatesStep ==
  ASSUME TypeOK, ReadPastGates, Next PROVE ReadPastGates'
<1>1. ASSUME NEW p \in Phases, PhaseStep(p) PROVE ReadPastGates'
  <2>1. PICK new : /\ Goes(p, new) /\ phase'[p] = new
                   /\ \A q \in Phases \ {p} : phase'[q] = phase[q]
    BY <1>1, PhaseMoves
  <2>2. phase'[p].seen # {} => PastGates(p)'
    BY <2>1, GoesReading DEF PastGates
  <2> QED
    BY <2>1, <2>2 DEF ReadPastGates, PastGates
<1>2. CASE UNCHANGED phase
  BY <1>2 DEF ReadPastGates, PastGates
<1> QED
  BY StepKinds, <1>1, <1>2
     DEF AdmitWrite, AdmitSearch, FallBack, EndWrite, DeleteScope, calls, LookUp, PurgeRollsBack, PurgeCommit

\* What the steps of a phase cite or hold, its calls have read.
LEMMA CitedByPhase ==
  ASSUME TypeOK, HasCurrent, CitedKept, NEW p \in Phases, PhaseStep(p)
  PROVE  CitedKept'
<1>0. UNCHANGED <<rows, raced>>
  BY DEF PhaseStep, AdmitPhase, ClearPhase, ReadSources, ReadCandidate, CommitLight,
       CommitSummary, CheckCandidate, ClaimCandidate, InsertFact, PhaseFails, EndPhase
<1> DEFINE Known == present \cup raced
<1>1. /\ recap \subseteq Known /\ phase[p].seen \subseteq Known
      /\ \A c \in Cands : cand[c].sources \subseteq Known /\ fact[c] \subseteq Known
      /\ \A q \in Phases : phase[q].seen \subseteq Known
  BY DEF CitedKept
<1>2. Known' = Known
  BY <1>0 DEF rows
<1>3. SUFFICES /\ recap' \subseteq Known
               /\ \A c \in Cands : cand'[c].sources \subseteq Known /\ fact'[c] \subseteq Known
               /\ \A q \in Phases : phase'[q].seen \subseteq Known
  BY <1>2 DEF CitedKept
<1>4. present \subseteq Known
  OBVIOUS
<1>5. ASSUME NEW place, NEW held \in SUBSET Known, NEW c, MovePhase(p, At(place, held, c))
      PROVE  \A q \in Phases : phase'[q].seen \subseteq Known
  BY <1>1, <1>5 DEF MovePhase, At, TypeOK
<1>6. ASSUME EndPhase(p) PROVE \A q \in Phases : phase'[q].seen \subseteq Known
  BY <1>5, <1>6 DEF EndPhase, NoPhase
<1> HIDE DEF Known
<1>7. CASE AdmitPhase(p) \/ ClearPhase(p) \/ ReadCandidate(p)
  <2>1. \E place, c : MovePhase(p, At(place, {}, c))
    BY <1>7 DEF AdmitPhase, ClearPhase, ReadCandidate, NoPhase
  <2>2. UNCHANGED derived
    BY <1>7 DEF AdmitPhase, ClearPhase, ReadCandidate
  <2> QED
    BY <1>1, <1>5, <2>1, <2>2 DEF derived
<1>8. CASE ReadSources(p)
  <2>1. \E place, held : held \subseteq present /\ MovePhase(p, At(place, held, None))
    BY <1>8 DEF ReadSources
  <2>2. UNCHANGED derived
    BY <1>8 DEF ReadSources
  <2> QED
    BY <1>1, <1>4, <1>5, <2>1, <2>2 DEF derived
<1>9. CASE CommitLight(p)
  <2>1. PICK cited \in SUBSET phase[p].seen :
          \/ \E c \in Cands : cand' = [cand EXCEPT ![c].sources = @ \cup cited]
          \/ cand' = [cand EXCEPT ![drafted + 1].sources = cited]
    BY <1>9 DEF CommitLight
  <2>2. cited \subseteq Known
    BY <1>1
  <2>3. \A c \in Cands : cand'[c].sources \subseteq Known
    <3>1. CASE \E c \in Cands : cand' = [cand EXCEPT ![c].sources = @ \cup cited]
      BY <1>1, <2>2, <3>1 DEF TypeOK
    <3>2. CASE cand' = [cand EXCEPT ![drafted + 1].sources = cited]
      BY <1>1, <2>2, <3>2 DEF TypeOK
    <3> QED
      BY <2>1, <3>1, <3>2
  <2> QED
    BY <1>1, <1>6, <1>9, <2>3 DEF CommitLight
<1>10. CASE CommitSummary(p)
  BY <1>1, <1>6, <1>10 DEF CommitSummary
<1>11. CASE CheckCandidate(p)
  <2>1. CASE EndPhase(p)
    BY <1>1, <1>6, <1>11, <2>1 DEF CheckCandidate, derived
  <2>2. CASE MovePhase(p, At("claim", cand[phase[p].current].sources, phase[p].current))
    <3>1. phase[p].current \in Cands
      BY <1>11 DEF CheckCandidate, HasCurrent
    <3>2. \A q \in Phases : phase'[q].seen \subseteq Known
      BY <1>1, <1>5, <2>2, <3>1
    <3> QED
      BY <1>1, <1>11, <3>2 DEF CheckCandidate, derived
  <2> QED
    BY <1>11, <2>1, <2>2 DEF CheckCandidate
<1>12. CASE ClaimCandidate(p)
  <2>1. phase[p].current \in Cands
    BY <1>12 DEF ClaimCandidate, HasCurrent
  <2>2. \A c \in Cands : cand'[c].sources = cand[c].sources
    <3>1. \/ cand' = cand
          \/ cand' = [cand EXCEPT ![phase[p].current].promoted = TRUE]
      BY <1>12 DEF ClaimCandidate
    <3>2. cand \in [Cands -> CandidateRow]
      BY DEF TypeOK, CandidateRow
    <3>3. CASE cand' = cand
      BY <3>3
    <3>4. CASE cand' = [cand EXCEPT ![phase[p].current].promoted = TRUE]
      <4> DEFINE k == cand[phase[p].current]
      <4>1. cand' = [cand EXCEPT ![phase[p].current] = [k EXCEPT !.promoted = TRUE]]
        BY <3>4
      <4>2. [k EXCEPT !.promoted = TRUE].sources = k.sources
        BY <2>1, <3>2 DEF CandidateRow
      <4> HIDE DEF k
      <4>3. ASSUME NEW c \in Cands PROVE cand'[c].sources = cand[c].sources
        BY <2>1, <3>2, <4>1, <4>2 DEF k
      <4> QED
        BY <4>3
    <3> QED
      BY <3>1, <3>3, <3>4
  <2>3. \A c \in Cands : fact'[c] \in {fact[c], phase[p].seen}
    BY <1>12, <2>1 DEF ClaimCandidate, TypeOK
  <2>4. \A q \in Phases : phase'[q].seen \subseteq Known
    BY <1>1, <1>5, <1>6, <1>12 DEF ClaimCandidate
  <2>5. recap' = recap
    BY <1>12 DEF ClaimCandidate
  <2>6. \A c \in Cands : fact'[c] \subseteq Known
    BY <1>1, <2>3
  <2> QED
    BY <1>1, <2>2, <2>4, <2>5, <2>6
<1>13. CASE InsertFact(p)
  <2>1. \A c \in Cands : fact'[c] \in {fact[c], phase[p].seen}
    BY <1>13 DEF InsertFact, TypeOK
  <2> QED
    BY <1>1, <1>6, <1>13, <2>1 DEF InsertFact
<1>14. CASE PhaseFails(p)
  BY <1>1, <1>6, <1>14 DEF PhaseFails, derived
<1> QED
  BY <1>7, <1>8, <1>9, <1>10, <1>11, <1>12, <1>13, <1>14 DEF PhaseStep

\* The purge: what is cited and goes takes along what cites it; what a phase
\* holds and goes was held since before the deletion.
LEMMA CitedByPurge ==
  ASSUME ErasureInv, NEW g \in Purges, PurgeCommit(g) PROVE CitedKept'
<1> DEFINE target == purge[g].target
           Known == present \cup raced
<1>1. /\ present' = present \ Gone(target) /\ raced' = raced \cup Racing(target)
      /\ UNCHANGED <<session, phase>>
  BY DEF PurgeCommit
<1>2. ASSUME NEW held \in SUBSET Known, held \cap Gone(target) = {}
      PROVE  held \subseteq Known'
  BY <1>1, <1>2
<1>3. recap' \subseteq Known'
  <2>1. recap' \subseteq Known /\ recap' \cap Gone(target) = {}
    BY DEF PurgeCommit, Gone, ErasureInv, CitedKept
  <2> QED
    BY <1>2, <2>1
<1>4. ASSUME NEW c \in Cands PROVE cand'[c].sources \subseteq Known'
  <2>1. CASE c \in GoneCandidates(target)
    BY <2>1 DEF PurgeCommit, NoCandidate
  <2>2. CASE c \notin GoneCandidates(target)
    <3>1. cand'[c] = cand[c]
      BY <2>2 DEF PurgeCommit
    <3>2. cand[c].sources \in SUBSET Known
      BY DEF ErasureInv, CitedKept
    <3> QED
      BY <1>2, <2>2, <3>1, <3>2 DEF GoneCandidates
  <2> QED
    BY <2>1, <2>2
<1>5. ASSUME NEW c \in Cands PROVE fact'[c] \subseteq Known'
  <2>1. CASE c \in GoneFacts(target)
    BY <2>1 DEF PurgeCommit
  <2>2. CASE c \notin GoneFacts(target)
    <3>1. fact'[c] = fact[c]
      BY <2>2 DEF PurgeCommit
    <3>2. fact[c] \in SUBSET Known
      BY DEF ErasureInv, CitedKept
    <3> QED
      BY <1>2, <2>2, <3>1, <3>2 DEF GoneFacts
  <2> QED
    BY <2>1, <2>2
<1>6. ASSUME NEW p \in Phases, NEW m \in phase[p].seen PROVE m \in Known'
  <2>1. m \in Known /\ PastGates(p)
    BY DEF ErasureInv, CitedKept, ReadPastGates
  <2>2. CASE m \in Gone(target)
    <3>1. PICK t \in purge[g].ids : t \in Issued /\ tombs[t].target = target
      BY DEF PurgeCommit, ErasureInv, FoundSound
    <3>2. m \in present /\ Covers(tombs[t].target, session[m])
      BY <2>2, <3>1 DEF Gone
    <3>3. CASE tombs[t].pending
      <4>1. p \in tombs[t].open
        BY <2>1, <3>1, <3>3 DEF ErasureInv, PhasesOpen
      <4> QED
        BY <1>1, <2>2, <3>1, <3>2, <4>1 DEF Racing
    <3>4. CASE ~tombs[t].pending
      BY <1>1, <3>1, <3>2, <3>4 DEF ErasureInv, PurgedShut
    <3> QED
      BY <3>3, <3>4
  <2>3. CASE m \notin Gone(target)
    BY <1>1, <2>1, <2>3
  <2> QED
    BY <2>2, <2>3
<1> QED
  BY <1>1, <1>3, <1>4, <1>5, <1>6 DEF CitedKept

LEMMA CitedKeptStep == ASSUME ErasureInv, Next PROVE CitedKept'
<1>1. ASSUME UNCHANGED <<derived, phase>>, present \subseteq present', raced \subseteq raced'
      PROVE  CitedKept'
  BY <1>1 DEF ErasureInv, CitedKept, derived
<1>2. ASSUME NEW w \in Writers, WriteStep(w) PROVE CitedKept'
  BY <1>1, <1>2 DEF WriteStep, AdmitWrite, AdmitSearch, FallBack, StoreMessage, StoreEvent,
                    WriteFails, EndWrite, rows
<1>3. ASSUME NEW p \in Phases, PhaseStep(p) PROVE CitedKept'
  BY <1>3, CitedByPhase DEF ErasureInv
<1>4. CASE DeleteScope
  BY <1>1, <1>4 DEF DeleteScope, rows, calls
<1>5. ASSUME NEW g \in Purges, LookUp(g) \/ PurgeRollsBack(g) PROVE CitedKept'
  BY <1>1, <1>5 DEF LookUp, PurgeRollsBack, rows
<1> QED
  BY <1>2, <1>3, <1>4, <1>5, CitedByPurge DEF Next, PurgeStep

THEOREM ErasureInvariant == Spec => []ErasureInv
<1>1. Init => WritersOpen /\ PhasesOpen /\ PurgedShut /\ FoundSound /\ ReadPastGates /\ CitedKept
  BY DEF Init, WritersOpen, PhasesOpen, PurgedShut, FoundSound, ReadPastGates, CitedKept,
         Issued, NoPurge, NoPhase, At, NoCandidate, PassesBy
<1>2. ErasureInv /\ (TypeOK /\ HasCurrent)' /\ [Next]_vars => ErasureInv'
  <2> SUFFICES ASSUME ErasureInv, TypeOK', HasCurrent', [Next]_vars PROVE ErasureInv'
    OBVIOUS
  <2>1. CASE Next
    BY <2>1, WritersOpenStep, PhasesOpenStep, FoundSoundStep, PurgedShutStep,
       ReadPastGatesStep, CitedKeptStep DEF ErasureInv
  <2>2. CASE UNCHANGED vars
    BY <2>2 DEF vars, rows, derived, calls, ErasureInv, WritersOpen, PhasesOpen, PurgedShut,
                FoundSound, ReadPastGates, CitedKept, PastGates, Issued, PassesBy
  <2> QED
    BY <2>1, <2>2
<1>3. (Init => TypeOK /\ HasCurrent) => (Init => ErasureInv)
  BY <1>1 DEF ErasureInv
<1> QED
  BY <1>1, <1>2, TypeCorrect, PTL DEF Spec, ErasureInv

\* An erased message is cited nowhere and held by no call, unless a call that
\* was admitted before the deletion was still in progress (purge.py 121-266).
THEOREM ErasureHolds == Spec => []ErasedForGood
<1>1. ErasureInv => ErasedForGood
  BY DEF ErasureInv, CitedKept, ErasedForGood
<1> QED
  BY <1>1, ErasureInvariant, PTL

\* A deleted scope takes nothing in once the writes and searches admitted before
\* the deletion have ended, but the event of a search that passes its gate by
\* another label (service.py 229-270).
THEOREM ScopeStaysShut == Spec => DeletedStaysShut
<1>1. ErasureInv /\ [Next]_vars =>
        [\A t \in Issued : tombs[t].open = {} =>
           /\ \A m \in present' \ present : ~Covers(tombs[t].target, session'[m])
           /\ \A s \in events' \ events :
                Covers(tombs[t].target, s) =>
                  \E w \in Writers : writer[w].session = s /\ PassesBy(t, w)]_vars
  <2> SUFFICES ASSUME ErasureInv, Next, NEW t \in Issued, tombs[t].open = {}
               PROVE  /\ \A m \in present' \ present : ~Covers(tombs[t].target, session'[m])
                      /\ \A s \in events' \ events :
                           Covers(tombs[t].target, s) =>
                             \E w \in Writers : writer[w].session = s /\ PassesBy(t, w)
    OBVIOUS
  <2>1. CASE present' \subseteq present /\ events' \subseteq events
    BY <2>1
  <2>2. ASSUME NEW w \in Writers, writer[w].session # All,
               Covers(tombs[t].target, writer[w].session)
        PROVE  PassesBy(t, w)
    BY <2>2 DEF ErasureInv, WritersOpen
  <2>3. ASSUME NEW w \in Writers, StoreMessage(w)
        PROVE  /\ events' = events /\ writer[w].kind = "write"
               /\ \A m \in present' \ present : session'[m] = writer[w].session
    BY <2>3 DEF StoreMessage, ErasureInv, TypeOK
  <2>4. ASSUME NEW w \in Writers, StoreEvent(w)
        PROVE  present' = present /\ events' = events \cup {writer[w].session}
    BY <2>4 DEF StoreEvent, rows
  <2>5. \/ present' \subseteq present /\ events' \subseteq events
        \/ \E w \in Writers : writer[w].session # All /\ (StoreMessage(w) \/ StoreEvent(w))
    <3>1. ASSUME NEW w \in Writers, WriteStep(w)
          PROVE  \/ present' \subseteq present /\ events' \subseteq events
                 \/ writer[w].session # All /\ (StoreMessage(w) \/ StoreEvent(w))
      BY <3>1 DEF WriteStep, AdmitWrite, AdmitSearch, FallBack, StoreMessage, StoreEvent,
                  WriteFails, EndWrite, rows
    <3>2. ASSUME NEW p \in Phases, PhaseStep(p) PROVE present' = present /\ events' = events
      BY <3>2 DEF PhaseStep, AdmitPhase, ClearPhase, ReadSources, ReadCandidate, CommitLight,
           CommitSummary, CheckCandidate, ClaimCandidate, InsertFact, PhaseFails, EndPhase, rows
    <3>3. ASSUME DeleteScope PROVE present' = present /\ events' = events
      BY <3>3 DEF DeleteScope, rows
    <3>4. ASSUME NEW g \in Purges, PurgeStep(g)
          PROVE  present' \subseteq present /\ events' \subseteq events
      BY <3>4 DEF PurgeStep, LookUp, PurgeCommit, PurgeRollsBack, rows
    <3> QED
      BY <3>1, <3>2, <3>3, <3>4 DEF Next
  <2>6. ASSUME NEW w \in Writers, writer[w].session # All, StoreMessage(w)
        PROVE  /\ events' = events
               /\ \A m \in present' \ present : ~Covers(tombs[t].target, session'[m])
    BY <2>2, <2>3, <2>6 DEF PassesBy
  <2>7. ASSUME NEW w \in Writers, writer[w].session # All, StoreEvent(w)
        PROVE  /\ present' = present
               /\ \A s \in events' \ events : s = writer[w].session
               /\ Covers(tombs[t].target, writer[w].session) => PassesBy(t, w)
    BY <2>2, <2>4, <2>7
  <2> QED
    BY <2>1, <2>5, <2>6, <2>7
<1> QED
  BY <1>1, ErasureInvariant, PTL DEF Spec, DeletedStaysShut

\* Nothing is consolidated while a purge is pending, once the phases cleared
\* before the deletion have ended (service.py 271-304).
THEOREM AgentFrozen == Spec => FrozenWhilePending
<1>1. ErasureInv /\ [Next]_vars =>
        [\A t \in Issued : tombs[t].pending /\ tombs[t].open = {} =>
           /\ recap' \subseteq recap
           /\ \A c \in Cands : /\ cand'[c].sources \subseteq cand[c].sources
                               /\ fact'[c] \subseteq fact[c]]_vars
  <2> SUFFICES ASSUME ErasureInv, Next, NEW t \in Issued,
                      tombs[t].pending, tombs[t].open = {}
               PROVE  /\ recap' \subseteq recap
                      /\ \A c \in Cands : /\ cand'[c].sources \subseteq cand[c].sources
                                          /\ fact'[c] \subseteq fact[c]
    OBVIOUS
  <2>1. CASE UNCHANGED derived
    BY <2>1 DEF derived
  <2>2. \A p \in Phases : phase[p].pc \in {"idle", "admitted"}
    BY DEF ErasureInv, PhasesOpen, PastGates
  <2>3. ASSUME NEW p \in Phases, PhaseStep(p) PROVE UNCHANGED derived
    BY <2>2, <2>3 DEF PhaseStep, AdmitPhase, ClearPhase, ReadSources, ReadCandidate, CommitLight,
         CommitSummary, CheckCandidate, ClaimCandidate, InsertFact, PhaseFails
  <2>4. ASSUME NEW g \in Purges, PurgeCommit(g)
        PROVE  /\ recap' \subseteq recap
               /\ \A c \in Cands : /\ cand'[c].sources \subseteq cand[c].sources
                                   /\ fact'[c] \subseteq fact[c]
    BY <2>4 DEF PurgeCommit, NoCandidate
  <2>5. ASSUME NEW w \in Writers, WriteStep(w) PROVE UNCHANGED derived
    BY <2>5 DEF WriteStep, AdmitWrite, AdmitSearch, FallBack, StoreMessage, StoreEvent,
                WriteFails, EndWrite
  <2> QED
    BY <2>1, <2>3, <2>4, <2>5 DEF Next, DeleteScope, PurgeStep, LookUp, PurgeRollsBack
<1> QED
  BY <1>1, ErasureInvariant, PTL DEF Spec, FrozenWhilePending

-------------------------------------------------------------------------------
\* Candidates and facts under purges, on SQLite.

\* An id that was not issued has no rows, and a Deep call names one that was.
Unwritten ==
  /\ \A c \in Cands : c > drafted =>
       cand[c].sources = {} /\ ~cand[c].promoted /\ fact[c] = {}
  /\ \A p \in Phases : phase[p].pc \in {"deep", "claim", "insert"} =>
       phase[p].current <= drafted

\* What a Deep call has read of its candidate is among its sources, as long as
\* the row is there: sources grow, and an id is not given to another row.
EvidenceHeld ==
  \A p \in Phases : phase[p].pc = "claim" =>
    /\ phase[p].seen # {}
    /\ cand[phase[p].current].sources # {} =>
         phase[p].seen \subseteq cand[phase[p].current].sources

NoHalfWay == ~autocommit => \A p \in Phases : phase[p].pc # "insert"

LinkInv == TypeOK /\ HasCurrent /\ Unwritten /\ EvidenceHeld /\ NoHalfWay /\ TiersStayLinked

\* The steps of a phase that leave candidates and facts alone.
LEMMA LinkKept ==
  ASSUME LinkInv, UNCHANGED <<autocommit, drafted, cand, fact>>,
         NEW p \in Phases, NEW x, MovePhase(p, x),
         x.pc \in {"deep", "claim", "insert"} => x.current \in Cands /\ x.current <= drafted,
         x.pc = "claim" => /\ x.seen # {}
                           /\ x.seen \subseteq cand[x.current].sources,
         x.pc # "insert"
  PROVE  Unwritten' /\ EvidenceHeld' /\ NoHalfWay' /\ TiersStayLinked'
<1>1. phase'[p] = x /\ \A q \in Phases \ {p} : phase'[q] = phase[q]
  BY Moved DEF LinkInv
<1>2. Unwritten'
  BY <1>1 DEF LinkInv, Unwritten
<1>3. EvidenceHeld'
  BY <1>1 DEF LinkInv, EvidenceHeld
<1>4. NoHalfWay'
  BY <1>1 DEF LinkInv, NoHalfWay
<1>5. TiersStayLinked'
  BY DEF LinkInv, TiersStayLinked
<1> QED
  BY <1>2, <1>3, <1>4, <1>5

LEMMA LinkByLight ==
  ASSUME LinkInv, NEW p \in Phases, CommitLight(p)
  PROVE  Unwritten' /\ EvidenceHeld' /\ NoHalfWay' /\ TiersStayLinked'
<1>1. PICK c \in Cands, cited \in (SUBSET phase[p].seen) \ {{}} :
        /\ cand' = [cand EXCEPT ![c] =
             [cand[c] EXCEPT !.sources = cand[c].sources \cup cited]]
        /\ \/ cand[c].sources # {} /\ ~cand[c].promoted /\ drafted' = drafted
           \/ c = drafted + 1 /\ drafted' = drafted + 1
  <2>0. PICK cited \in (SUBSET phase[p].seen) \ {{}} :
          \/ \E c \in Cands :
               /\ cand[c].sources # {} /\ ~cand[c].promoted
               /\ cand' = [cand EXCEPT ![c].sources = @ \cup cited]
               /\ UNCHANGED drafted
          \/ /\ drafted < MaxCandidates
             /\ drafted' = drafted + 1
             /\ cand' = [cand EXCEPT ![drafted + 1].sources = cited]
    BY DEF CommitLight
  <2>1. CASE \E c \in Cands :
               /\ cand[c].sources # {} /\ ~cand[c].promoted
               /\ cand' = [cand EXCEPT ![c].sources = @ \cup cited]
               /\ UNCHANGED drafted
    BY <2>0, <2>1
  <2>2. CASE /\ drafted < MaxCandidates
             /\ drafted' = drafted + 1
             /\ cand' = [cand EXCEPT ![drafted + 1].sources = cited]
    <3>1. drafted + 1 \in Cands /\ drafted + 1 > drafted
      BY <2>2, ScopePurgeAssumption DEF LinkInv, TypeOK
    <3>2. cand[drafted + 1].sources = {}
      BY <3>1 DEF LinkInv, Unwritten
    <3>3. cand[drafted + 1].sources \cup cited = cited
      BY <3>2
    <3> QED
      BY <2>0, <2>2, <3>1, <3>3
  <2> QED
    BY <2>0, <2>1, <2>2
<1>2. /\ \A d \in Cands \ {c} : cand'[d] = cand[d]
      /\ cand'[c].promoted = cand[c].promoted
      /\ cand[c].sources \subseteq cand'[c].sources
      /\ cand'[c].sources # {}
  <2>1. cand \in [Cands -> CandidateRow]
    BY DEF LinkInv, TypeOK, CandidateRow
  <2>2. \A d \in Cands \ {c} : cand'[d] = cand[d]
    BY <1>1, <2>1
  <2>3. cand'[c] = [cand[c] EXCEPT !.sources = cand[c].sources \cup cited]
    BY <1>1, <2>1
  <2>4. /\ cand'[c].sources = cand[c].sources \cup cited
        /\ cand'[c].promoted = cand[c].promoted
    BY <2>1, <2>3 DEF CandidateRow
  <2> QED
    BY <2>2, <2>4
<1>3. phase'[p] = NoPhase /\ \A q \in Phases \ {p} : phase'[q] = phase[q]
  BY Moved DEF CommitLight, EndPhase, LinkInv
<1>4. fact' = fact /\ autocommit' = autocommit
  BY DEF CommitLight, EndPhase
<1>5. drafted \in Nat /\ drafted' \in Nat /\ drafted <= drafted' /\ c <= drafted'
  <2>1. drafted \in Nat /\ c \in Nat
    BY ScopePurgeAssumption DEF LinkInv, TypeOK
  <2>2. CASE cand[c].sources # {} /\ drafted' = drafted
    <3>1. ~(c > drafted)
      BY <2>2 DEF LinkInv, Unwritten
    <3> QED
      BY <2>1, <2>2, <3>1
  <2>3. CASE c = drafted + 1 /\ drafted' = drafted + 1
    BY <2>1, <2>3
  <2> QED
    BY <1>1, <2>2, <2>3
<1>6. Unwritten'
  <2>1. ASSUME NEW d \in Cands, d > drafted'
        PROVE  cand'[d].sources = {} /\ ~cand'[d].promoted /\ fact'[d] = {}
    <3>1. d # c /\ d > drafted
      BY <1>5, <2>1
    <3> QED
      BY <1>2, <1>4, <3>1 DEF LinkInv, Unwritten
  <2>2. ASSUME NEW q \in Phases, phase'[q].pc \in {"deep", "claim", "insert"}
        PROVE  phase'[q].current <= drafted'
    <3>1. phase'[q] = phase[q]
      BY <1>3, <2>2 DEF NoPhase, At
    <3>2. phase[q].current \in Cands /\ phase[q].current <= drafted
      BY <2>2, <3>1 DEF LinkInv, HasCurrent, Unwritten
    <3> QED
      BY <1>5, <3>1, <3>2
  <2> QED
    BY <2>1, <2>2 DEF Unwritten
<1>7. EvidenceHeld'
  <2> SUFFICES ASSUME NEW q \in Phases, phase'[q].pc = "claim"
               PROVE  /\ phase'[q].seen # {}
                      /\ cand'[phase'[q].current].sources # {} =>
                           phase'[q].seen \subseteq cand'[phase'[q].current].sources
    BY DEF EvidenceHeld
  <2>1. phase'[q] = phase[q]
    BY <1>3 DEF NoPhase, At
  <2>2. phase[q].current \in Cands /\ phase[q].current <= drafted
    BY <2>1 DEF LinkInv, HasCurrent, Unwritten
  <2>3. CASE phase[q].current # c
    BY <1>2, <2>1, <2>2, <2>3 DEF LinkInv, EvidenceHeld
  <2>4. CASE phase[q].current = c
    <3>1. cand[c].sources # {}
      BY <1>1, <1>5, <2>2, <2>4
    <3> QED
      BY <1>2, <2>1, <2>4, <3>1 DEF LinkInv, EvidenceHeld
  <2> QED
    BY <2>3, <2>4
<1>8. NoHalfWay'
  BY <1>3, <1>4 DEF LinkInv, NoHalfWay, NoPhase, At
<1>9. TiersStayLinked'
  BY <1>2, <1>4 DEF LinkInv, TiersStayLinked
<1> QED
  BY <1>6, <1>7, <1>8, <1>9

LEMMA LinkByDeep ==
  ASSUME LinkInv, NEW p \in Phases, ClaimCandidate(p) \/ InsertFact(p)
  PROVE  Unwritten' /\ EvidenceHeld' /\ NoHalfWay' /\ TiersStayLinked'
<1> DEFINE c == phase[p].current
<1>1. c \in Cands /\ c <= drafted /\ drafted \in Nat
  BY DEF LinkInv, TypeOK, HasCurrent, Unwritten, ClaimCandidate, InsertFact
<1>2. UNCHANGED <<autocommit, drafted>>
  BY DEF ClaimCandidate, InsertFact, EndPhase
<1>3. /\ \A d \in Cands : cand'[d].sources = cand[d].sources
      /\ \A d \in Cands \ {c} : cand'[d] = cand[d] /\ fact'[d] = fact[d]
  <2>1. \/ cand' = cand
        \/ cand' = [cand EXCEPT ![c] = [cand[c] EXCEPT !.promoted = TRUE]]
    BY DEF ClaimCandidate, InsertFact
  <2>2. cand \in [Cands -> CandidateRow]
    BY DEF LinkInv, TypeOK, CandidateRow
  <2>3. [cand[c] EXCEPT !.promoted = TRUE].sources = cand[c].sources
    BY <1>1, <2>2 DEF CandidateRow
  <2>4. \A d \in Cands \ {c} : fact'[d] = fact[d]
    BY <1>1 DEF ClaimCandidate, InsertFact, LinkInv, TypeOK
  <2> HIDE DEF c
  <2> QED
    BY <1>1, <2>1, <2>2, <2>3, <2>4
<1>4. \E place \in {"idle", "insert"} :
        /\ phase'[p].pc = place
        /\ place = "insert" => phase'[p].current = c /\ autocommit
        /\ \A q \in Phases \ {p} : phase'[q] = phase[q]
  BY Moved DEF ClaimCandidate, InsertFact, EndPhase, NoPhase, At, LinkInv
<1>5. Unwritten'
  <2>1. \A d \in Cands : d > drafted => d # c
    BY <1>1
  <2> HIDE DEF c
  <2> QED
    BY <1>1, <1>2, <1>3, <1>4, <2>1 DEF LinkInv, Unwritten
<1>6. EvidenceHeld'
  <2> SUFFICES ASSUME NEW q \in Phases, phase'[q].pc = "claim"
               PROVE  /\ phase'[q].seen # {}
                      /\ cand'[phase'[q].current].sources # {} =>
                           phase'[q].seen \subseteq cand'[phase'[q].current].sources
    BY DEF EvidenceHeld
  <2>1. phase'[q] = phase[q]
    BY <1>4
  <2>2. phase[q].current \in Cands
    BY <2>1 DEF LinkInv, HasCurrent
  <2> QED
    BY <1>3, <2>1, <2>2 DEF LinkInv, EvidenceHeld
<1>7. NoHalfWay'
  BY <1>2, <1>4 DEF LinkInv, NoHalfWay
<1>8. TiersStayLinked'
  <2> SUFFICES ASSUME ~autocommit PROVE \A d \in Cands : /\ cand'[d].promoted <=> fact'[d] # {}
                                                         /\ fact'[d] \subseteq cand'[d].sources
    BY <1>2 DEF TiersStayLinked
  <2>1. \A d \in Cands : /\ cand[d].promoted <=> fact[d] # {}
                         /\ fact[d] \subseteq cand[d].sources
    BY DEF LinkInv, TiersStayLinked
  <2>2. ClaimCandidate(p)
    BY DEF LinkInv, NoHalfWay, InsertFact
  <2>3. CASE cand' = cand /\ fact' = fact
    BY <2>1, <2>3
  <2>4. CASE /\ cand' = [cand EXCEPT ![c].promoted = TRUE] /\ cand[c].sources # {}
             /\ fact' = [fact EXCEPT ![c] = phase[p].seen]
    <3>1. phase[p].seen # {} /\ phase[p].seen \subseteq cand[c].sources
      BY <2>2, <2>4 DEF ClaimCandidate, LinkInv, EvidenceHeld
    <3>2. cand'[c].promoted /\ fact'[c] = phase[p].seen
      BY <1>1, <2>4 DEF LinkInv, TypeOK
    <3> HIDE DEF c
    <3> QED
      BY <1>1, <1>3, <2>1, <3>1, <3>2
  <2> QED
    BY <2>2, <2>3, <2>4 DEF ClaimCandidate
<1> QED
  BY <1>5, <1>6, <1>7, <1>8

LEMMA LinkByPurge ==
  ASSUME LinkInv, NEW g \in Purges, PurgeCommit(g)
  PROVE  Unwritten' /\ EvidenceHeld' /\ NoHalfWay' /\ TiersStayLinked'
<1> DEFINE target == purge[g].target
<1>1. \A c \in Cands :
        /\ cand'[c] = IF c \in GoneCandidates(target) THEN NoCandidate ELSE cand[c]
        /\ fact'[c] = IF c \in GoneFacts(target) THEN {} ELSE fact[c]
  BY DEF PurgeCommit
<1>2. UNCHANGED <<autocommit, drafted, phase>>
  BY DEF PurgeCommit
<1>3. Unwritten'
  BY <1>1, <1>2 DEF LinkInv, Unwritten, NoCandidate
<1>4. EvidenceHeld'
  BY <1>1, <1>2 DEF LinkInv, HasCurrent, EvidenceHeld, NoCandidate
<1>5. NoHalfWay'
  BY <1>2 DEF LinkInv, NoHalfWay
<1>6. TiersStayLinked'
  <2> SUFFICES ASSUME ~autocommit, NEW c \in Cands
               PROVE  /\ cand'[c].promoted <=> fact'[c] # {}
                      /\ fact'[c] \subseteq cand'[c].sources
    BY <1>2 DEF TiersStayLinked
  <2>1. /\ cand[c].promoted <=> fact[c] # {}
        /\ fact[c] \subseteq cand[c].sources
    BY DEF LinkInv, TiersStayLinked
  <2>2. CASE c \in GoneCandidates(target)
    BY <1>1, <2>2 DEF GoneFacts, NoCandidate
  <2>3. CASE c \notin GoneCandidates(target)
    <3>1. c \notin GoneFacts(target)
      BY <2>1, <2>3 DEF GoneCandidates, GoneFacts
    <3> QED
      BY <1>1, <2>1, <2>3, <3>1
  <2> QED
    BY <2>2, <2>3
<1> QED
  BY <1>3, <1>4, <1>5, <1>6

\* On SQLite no purge parts a fact from its candidate, so none leaves a
\* promoted row that would fail the Deep cycles to come (purge.py 147-163).
THEOREM LinksHold == Spec => []TiersStayLinked
<1>1. Init /\ TypeOK /\ HasCurrent => LinkInv
  BY DEF Init, LinkInv, Unwritten, EvidenceHeld, NoHalfWay, TiersStayLinked,
         NoCandidate, NoPhase, At
<1>2. LinkInv /\ (TypeOK /\ HasCurrent)' /\ [Next]_vars => LinkInv'
  <2> SUFFICES ASSUME LinkInv, [Next]_vars
               PROVE  Unwritten' /\ EvidenceHeld' /\ NoHalfWay' /\ TiersStayLinked'
    BY DEF LinkInv
  <2>1. CASE UNCHANGED <<autocommit, derived, phase>>
    BY <2>1 DEF derived, LinkInv, Unwritten, EvidenceHeld, NoHalfWay, TiersStayLinked
  <2>2. ASSUME NEW p \in Phases, PhaseStep(p)
        PROVE  Unwritten' /\ EvidenceHeld' /\ NoHalfWay' /\ TiersStayLinked'
    <3>1. CASE CommitLight(p)
      BY <3>1, LinkByLight
    <3>2. CASE ClaimCandidate(p) \/ InsertFact(p)
      BY <3>2, LinkByDeep
    <3>3. CASE EndPhase(p) /\ UNCHANGED <<drafted, cand, fact>>
      <4>1. MovePhase(p, NoPhase) /\ autocommit' = autocommit
        BY <3>3 DEF EndPhase
      <4> QED
        BY <3>3, <4>1, LinkKept DEF NoPhase, At
    <3>4. CASE AdmitPhase(p) \/ ClearPhase(p) \/ ReadSources(p)
      <4>1. \E place \in {"idle", "admitted", "cleared", "light", "summarize"} :
              \E held : MovePhase(p, At(place, held, None))
        BY <3>4 DEF AdmitPhase, ClearPhase, ReadSources, NoPhase
      <4>2. UNCHANGED <<autocommit, drafted, cand, fact>>
        BY <3>4 DEF AdmitPhase, ClearPhase, ReadSources, derived
      <4> QED
        BY <4>1, <4>2, LinkKept DEF At
    <3>5. CASE ReadCandidate(p)
      <4>1. PICK c \in Cands : cand[c].sources # {} /\ MovePhase(p, At("deep", {}, c))
        BY <3>5 DEF ReadCandidate
      <4>2. c <= drafted
        BY <4>1, ScopePurgeAssumption DEF LinkInv, Unwritten, TypeOK
      <4>3. UNCHANGED <<autocommit, drafted, cand, fact>>
        BY <3>5 DEF ReadCandidate, derived
      <4> QED
        BY <4>1, <4>2, <4>3, LinkKept DEF At
    <3>6. CASE /\ CheckCandidate(p) /\ cand[phase[p].current].sources # {}
               /\ MovePhase(p, At("claim", cand[phase[p].current].sources, phase[p].current))
               /\ UNCHANGED <<autocommit, derived>>
      <4>1. phase[p].current \in Cands /\ phase[p].current <= drafted
        BY <3>6 DEF CheckCandidate, LinkInv, HasCurrent, Unwritten
      <4> QED
        BY <3>6, <4>1, LinkKept DEF At, derived
    <3> QED
      BY <2>2, <3>1, <3>2, <3>3, <3>4, <3>5, <3>6
         DEF PhaseStep, CommitSummary, CheckCandidate, PhaseFails, derived
  <2>3. ASSUME NEW g \in Purges, PurgeCommit(g)
        PROVE  Unwritten' /\ EvidenceHeld' /\ NoHalfWay' /\ TiersStayLinked'
    BY <2>3, LinkByPurge
  <2> QED
    BY <2>1, <2>2, <2>3
       DEF Next, vars, calls, WriteStep, AdmitWrite, AdmitSearch, FallBack, StoreMessage,
           StoreEvent, WriteFails, EndWrite, DeleteScope, PurgeStep, LookUp, PurgeRollsBack
<1>3. LinkInv => TiersStayLinked
  BY DEF LinkInv
<1> QED
  BY <1>1, <1>2, <1>3, TypeCorrect, PTL DEF Spec
===============================================================================
