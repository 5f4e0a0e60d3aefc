-------------------------- MODULE AppendLoopProofs --------------------------
(***************************************************************************)
(* The append loop keeps an intact chain, never loses a recorded entry,    *)
(* gives up only under contention, and implements the atomic Ledger, for   *)
(* any number of writers, events, attempts and entries.                    *)
(***************************************************************************)
EXTENDS AppendLoop, Sequences, FiniteSetTheorems, TLAPS

(* A log whose seqs are 0 .. n - 1 has n entries. *)
LEMMA HeightOfSegment ==
    ASSUME NEW n \in Nat
    PROVE  /\ IsFiniteSet(0 .. n - 1)
           /\ Cardinality(0 .. n - 1) = n
  <1>1. n - 1 \in Int /\ 0 \in Int
    OBVIOUS
  <1>2. /\ IsFiniteSet(0 .. n - 1)
        /\ Cardinality(0 .. n - 1) = IF 0 > n - 1 THEN 0 ELSE n - 1 - 0 + 1
    BY <1>1, FS_Interval
  <1>3. (IF 0 > n - 1 THEN 0 ELSE n - 1 - 0 + 1) = n
    OBVIOUS
  <1> QED
    BY <1>2, <1>3

(* The height of a log is a number. *)
LEMMA HeightIsNat ==
    ASSUME TypeOK
    PROVE  Height \in Nat
  BY FS_CardinalityType DEF TypeOK, Height

(* Sealed entries are entries. *)
LEMMA SealedEntries ==
    ASSUME NEW p \in Payloads
    PROVE  /\ Genesis(p) \in Entry
           /\ \A e \in Entry : EntryHash(e) \in Nat /\ NextEntry(e, p) \in Entry
  <1>1. PayloadCount \in Nat
    BY PayloadAssumption
  <1>2. Genesis(p) \in Entry
    BY DEF Genesis, Entry, ZeroHash
  <1>3. ASSUME NEW e \in Entry
        PROVE  EntryHash(e) \in Nat
    <2>1. e.prev_hash \in Nat /\ e.payload \in Nat
      BY <1>1 DEF Entry, Payloads
    <2>2. e.prev_hash * (PayloadCount + 1) \in Nat
      BY <1>1, <2>1
    <2> QED
      BY <2>1, <2>2 DEF EntryHash
  <1>4. ASSUME NEW e \in Entry
        PROVE  NextEntry(e, p) \in Entry
    <2>1. e.seq + 1 \in Nat
      BY DEF Entry
    <2> QED
      BY <1>3, <2>1 DEF NextEntry, Entry
  <1> QED
    BY <1>2, <1>3, <1>4

(* Inserting an entry that fits the chain makes the chain one longer and   *)
(* keeps what was there.                                                   *)
LEMMA InsertExtends ==
    ASSUME IndInv,
           NEW e \in Entry,
           Insert(e),
           e.seq <= Height,
           e.prev_hash = IF e.seq = 0 THEN ZeroHash
                                      ELSE EntryHash(store[e.seq - 1])
    PROVE  /\ e.seq = Height
           /\ DOMAIN store' = 0 .. Height
           /\ IsFiniteSet(DOMAIN store')
           /\ Height' = Height + 1
           /\ store'[Height] = e
           /\ \A s \in DOMAIN store : store'[s] = store[s]
           /\ ChainIntact'
  <1>1. Height \in Nat
    BY HeightIsNat DEF IndInv
  <1>2. e.seq \in Nat
    BY DEF Entry
  <1>3. DOMAIN store = 0 .. Height - 1
    BY DEF IndInv, ChainIntact
  <1>4. e.seq = Height
    BY <1>1, <1>2, <1>3 DEF Insert
  <1>5. DOMAIN store' = 0 .. Height
    BY <1>1, <1>3, <1>4 DEF Insert
  <1>6. /\ IsFiniteSet(DOMAIN store')
        /\ Cardinality(DOMAIN store') = Height + 1
    <2>1. Height + 1 \in Nat /\ (Height + 1) - 1 = Height
      BY <1>1
    <2> QED
      BY <1>5, <2>1, HeightOfSegment
  <1>7. Height' = Height + 1
    BY <1>6 DEF Height
  <1>8. /\ store'[Height] = e
        /\ \A s \in DOMAIN store : store'[s] = store[s]
    BY <1>4, <1>5 DEF Insert
  <1>9. ChainIntact'
    <2>1. DOMAIN store' = 0 .. Height' - 1
      BY <1>1, <1>5, <1>7
    <2>2. ASSUME NEW s \in DOMAIN store'
          PROVE  /\ store'[s].seq = s
                 /\ store'[s].prev_hash =
                      IF s = 0 THEN ZeroHash ELSE EntryHash(store'[s - 1])
      <3>1. CASE s = Height
        <4>1. s # 0 => s - 1 \in DOMAIN store
          BY <1>1, <1>3, <3>1
        <4> QED
          BY <1>4, <1>8, <3>1, <4>1
      <3>2. CASE s # Height
        <4>1. s \in DOMAIN store
          BY <1>1, <1>3, <1>5, <3>2
        <4>2. s # 0 => s - 1 \in DOMAIN store
          BY <1>1, <1>3, <4>1
        <4> QED
          BY <1>8, <4>1, <4>2 DEF IndInv, ChainIntact
      <3> QED
        BY <3>1, <3>2
    <2> QED
      BY <2>1, <2>2 DEF ChainIntact
  <1> QED
    BY <1>4, <1>5, <1>6, <1>7, <1>8, <1>9

-----------------------------------------------------------------------------
(* The two steps that write, AppendEntry and AnswerLost, keep IndInv. *)
LEMMA WriteKeepsIndInv ==
    ASSUME IndInv,
           NEW w \in Writers,
           pc[w] = "append",
           Insert(draft[w]),
           NEW outcome \in {"recorded", "failed"},
           pc' = [pc EXCEPT ![w] = outcome],
           UNCHANGED <<job, draft, attempt, height0>>
    PROVE  IndInv'
  <1> USE DEF IndInv
  <1>1. draft[w] \in Entry /\ Height \in Nat
    BY HeightIsNat DEF TypeOK
  <1>2. /\ draft[w].payload = job[w]
        /\ draft[w].seq <= Height
        /\ draft[w].prev_hash =
              IF draft[w].seq = 0 THEN ZeroHash
                                  ELSE EntryHash(store[draft[w].seq - 1])
    BY DEF DraftsFit
  <1>3. /\ draft[w].seq = Height
        /\ DOMAIN store' = 0 .. Height
        /\ IsFiniteSet(DOMAIN store')
        /\ Height' = Height + 1
        /\ store'[Height] = draft[w]
        /\ \A s \in DOMAIN store : store'[s] = store[s]
        /\ ChainIntact'
    BY <1>1, <1>2, InsertExtends
  <1>4. DOMAIN store = 0 .. Height - 1
    BY DEF ChainIntact
  <1>5. \A v \in Writers : /\ v # w => pc'[v] = pc[v]
                           /\ v = w => pc'[v] = outcome
    BY DEF TypeOK
  <1>6. TypeOK'
    <2>1. /\ DOMAIN store' \subseteq Nat
          /\ \A s \in DOMAIN store' : store'[s] \in Entry
      <3>1. \A s \in DOMAIN store' : s = Height \/ s \in DOMAIN store
        BY <1>1, <1>3, <1>4
      <3>2. \A s \in DOMAIN store : store[s] \in Entry
        BY DEF TypeOK
      <3>3. DOMAIN store' \subseteq Nat
        BY <1>1, <1>3
      <3> QED
        BY <1>1, <1>3, <3>1, <3>2, <3>3
    <2>2. pc' \in [Writers -> {"idle"} \cup Running \cup Ended]
      BY DEF TypeOK, Ended
    <2> QED
      BY <1>3, <2>1, <2>2 DEF TypeOK
  <1>7. ReturnedIsRecorded'
    <2> SUFFICES ASSUME NEW v \in Writers, pc'[v] = "recorded"
                 PROVE  /\ draft[v].seq \in DOMAIN store'
                        /\ store'[draft[v].seq] = draft[v]
                        /\ draft[v].payload = job[v]
      BY DEF ReturnedIsRecorded
    <2>1. CASE v = w
      BY <1>1, <1>2, <1>3, <2>1
    <2>2. CASE v # w
      <3>1. /\ draft[v].seq \in DOMAIN store
            /\ store[draft[v].seq] = draft[v]
            /\ draft[v].payload = job[v]
        BY <1>5, <2>2 DEF ReturnedIsRecorded
      <3> QED
        BY <1>1, <1>3, <1>4, <3>1
    <2> QED
      BY <2>1, <2>2
  <1>8. ExhaustionMeansContention'
    <2> SUFFICES ASSUME NEW v \in Writers, pc'[v] = "exhausted"
                 PROVE  Height' >= height0[v] + Attempts
      BY DEF ExhaustionMeansContention
    <2>1. pc[v] = "exhausted"
      BY <1>5
    <2>2. Height >= height0[v] + Attempts /\ height0[v] \in Nat
      BY <2>1 DEF ExhaustionMeansContention, TypeOK
    <2> QED
      BY <1>1, <1>3, <2>2, AttemptsAssumption
  <1>9. DraftsFit'
    <2> SUFFICES ASSUME NEW v \in Writers, pc'[v] = "append"
                 PROVE  /\ draft[v].payload = job[v]
                        /\ draft[v].seq <= Height'
                        /\ draft[v].prev_hash =
                             IF draft[v].seq = 0 THEN ZeroHash
                             ELSE EntryHash(store'[draft[v].seq - 1])
      BY DEF DraftsFit
    <2>1. pc[v] = "append" /\ draft[v].seq \in Nat
      BY <1>5 DEF TypeOK, Entry
    <2>2. /\ draft[v].payload = job[v]
          /\ draft[v].seq <= Height
          /\ draft[v].prev_hash =
                IF draft[v].seq = 0 THEN ZeroHash
                                    ELSE EntryHash(store[draft[v].seq - 1])
      BY <2>1 DEF DraftsFit
    <2>3. draft[v].seq # 0 => draft[v].seq - 1 \in DOMAIN store
      BY <1>1, <1>4, <2>1, <2>2
    <2> QED
      BY <1>1, <1>3, <2>1, <2>2, <2>3
  <1>10. RefusalsPaidFor'
    <2> SUFFICES ASSUME NEW v \in Writers
                 PROVE  /\ pc'[v] \in Running =>
                              /\ attempt[v] < Attempts
                              /\ Height' >= height0[v] + attempt[v]
                        /\ pc'[v] = "append" =>
                              draft[v].seq >= height0[v] + attempt[v]
      BY DEF RefusalsPaidFor
    <2>1. pc'[v] \in Running => pc[v] = pc'[v]
      BY <1>5 DEF Running
    <2>2. height0[v] \in Nat /\ attempt[v] \in Nat
      BY DEF TypeOK
    <2> QED
      BY <1>1, <1>3, <2>1, <2>2 DEF RefusalsPaidFor, Running
  <1> QED
    BY <1>3, <1>6, <1>7, <1>8, <1>9, <1>10

(* The empty log and idle writers satisfy it. *)
LEMMA InitIndInv == Init => IndInv
  <1> SUFFICES ASSUME Init
               PROVE  IndInv
    OBVIOUS
  <1> USE DEF Init
  <1>1. DOMAIN store = {} /\ Height = 0
    BY FS_EmptySet DEF Height
  <1>2. Genesis(1) \in Entry /\ 1 \in Payloads
    BY SealedEntries, PayloadAssumption DEF Payloads
  <1>3. TypeOK
    BY <1>1, <1>2, FS_EmptySet, AttemptsAssumption DEF TypeOK
  <1>4. ChainIntact
    BY <1>1 DEF ChainIntact
  <1>5. \A w \in Writers : pc[w] = "idle"
    OBVIOUS
  <1> QED
    BY <1>3, <1>4, <1>5
    DEF IndInv, ReturnedIsRecorded, ExhaustionMeansContention, DraftsFit,
        RefusalsPaidFor, Running

(* The inductive step. *)
LEMMA NextIndInv == IndInv /\ [Next]_vars => IndInv'
  <1> SUFFICES ASSUME IndInv, [Next]_vars
               PROVE  IndInv'
    OBVIOUS
  <1> USE DEF IndInv
  <1>0. Height \in Nat /\ DOMAIN store = 0 .. Height - 1
    BY HeightIsNat DEF ChainIntact
  <1>1. ASSUME NEW w \in Writers, NEW p \in Payloads, Call(w, p)
        PROVE  IndInv'
    <2> USE <1>1 DEF Call
    <2>1. Height' = Height /\ ChainIntact'
      BY DEF Height, ChainIntact
    <2>2. TypeOK'
      BY <1>0, AttemptsAssumption DEF TypeOK, Running
    <2>3. \A v \in Writers : v # w => /\ pc'[v] = pc[v]
                                      /\ job'[v] = job[v]
                                      /\ attempt'[v] = attempt[v]
                                      /\ height0'[v] = height0[v]
      BY DEF TypeOK
    <2>4. /\ pc'[w] = "head"
          /\ attempt'[w] = 0
          /\ height0'[w] = Height
      BY DEF TypeOK
    <2>5. ReturnedIsRecorded'
      BY <2>3, <2>4 DEF ReturnedIsRecorded
    <2>6. ExhaustionMeansContention'
      BY <2>1, <2>3, <2>4 DEF ExhaustionMeansContention
    <2>7. DraftsFit'
      BY <2>1, <2>3, <2>4 DEF DraftsFit
    <2>8. RefusalsPaidFor'
      BY <1>0, <2>1, <2>3, <2>4, AttemptsAssumption DEF RefusalsPaidFor
    <2> QED
      BY <2>1, <2>2, <2>5, <2>6, <2>7, <2>8
  <1>2. ASSUME NEW w \in Writers, ReadHead(w)
        PROVE  IndInv'
    <2> USE <1>2 DEF ReadHead
    <2>1. Height' = Height /\ ChainIntact'
      BY DEF Height, ChainIntact
    <2>2. \A v \in Writers : v # w => /\ pc'[v] = pc[v]
                                      /\ draft'[v] = draft[v]
      BY DEF TypeOK
    <2>3. pc'[w] = "append"
      BY DEF TypeOK
    <2>4. /\ draft'[w] \in Entry
          /\ draft'[w].payload = job[w]
          /\ draft'[w].seq = Height
          /\ draft'[w].prev_hash =
                IF Height = 0 THEN ZeroHash ELSE EntryHash(store[Height - 1])
      <3>1. job[w] \in Payloads
        BY DEF TypeOK
      <3>2. CASE DOMAIN store = {} /\ draft' = [draft EXCEPT ![w] = Genesis(job[w])]
        <4>1. draft'[w] = Genesis(job[w])
          BY <3>2 DEF TypeOK
        <4>2. Height = 0
          BY <3>2, FS_EmptySet DEF Height
        <4> QED
          BY <3>1, <4>1, <4>2, SealedEntries DEF Genesis
      <3>3. ASSUME NEW s \in DOMAIN store,
                   IsHead(store[s]),
                   draft' = [draft EXCEPT ![w] = NextEntry(store[s], job[w])]
            PROVE  /\ draft'[w] \in Entry
                   /\ draft'[w].payload = job[w]
                   /\ draft'[w].seq = Height
                   /\ draft'[w].prev_hash =
                        IF Height = 0 THEN ZeroHash
                                      ELSE EntryHash(store[Height - 1])
        <4>1. draft'[w] = NextEntry(store[s], job[w])
          BY <3>3 DEF TypeOK
        <4>2. store[s] \in Entry /\ store[s].seq = s
          BY DEF TypeOK, ChainIntact
        <4>3. s = Height - 1 /\ Height # 0
          <5>1. \A t \in DOMAIN store : t <= s
            BY <3>3, <4>2 DEF IsHead
          <5>2. Height # 0 /\ s \in 0 .. Height - 1
            BY <1>0
          <5>3. Height - 1 \in DOMAIN store
            BY <1>0, <5>2
          <5> QED
            BY <1>0, <5>1, <5>2, <5>3
        <4>4. NextEntry(store[s], job[w]) \in Entry
          BY <3>1, <4>2, SealedEntries
        <4>5. s + 1 = Height
          BY <1>0, <4>3
        <4> QED
          BY <4>1, <4>2, <4>3, <4>4, <4>5 DEF NextEntry
      <3> QED
        BY <3>2, <3>3
    <2>5. TypeOK'
      <3>1. draft' \in [Writers -> Entry]
        BY <2>4 DEF TypeOK
      <3> QED
        BY <3>1 DEF TypeOK, Running
    <2>6. ReturnedIsRecorded'
      BY <2>2, <2>3 DEF ReturnedIsRecorded
    <2>7. ExhaustionMeansContention'
      BY <2>1, <2>2, <2>3 DEF ExhaustionMeansContention
    <2>8. DraftsFit'
      BY <1>0, <2>1, <2>2, <2>3, <2>4 DEF DraftsFit
    <2>9. RefusalsPaidFor'
      BY <1>0, <2>1, <2>2, <2>3, <2>4 DEF RefusalsPaidFor, Running
    <2> QED
      BY <2>1, <2>5, <2>6, <2>7, <2>8, <2>9
  <1>3. ASSUME NEW w \in Writers, AppendEntry(w)
        PROVE  IndInv'
    BY <1>3, WriteKeepsIndInv DEF AppendEntry
  <1>4. ASSUME NEW w \in Writers, AppendConflict(w)
        PROVE  IndInv'
    <2> USE <1>4 DEF AppendConflict
    <2>1. Height' = Height /\ ChainIntact'
      BY DEF Height, ChainIntact
    <2>2. \A v \in Writers : v # w => /\ pc'[v] = pc[v]
                                      /\ attempt'[v] = attempt[v]
      BY DEF TypeOK
    <2>3. /\ attempt'[w] = attempt[w] + 1
          /\ pc'[w] = IF attempt[w] = Attempts - 1 THEN "exhausted" ELSE "head"
      BY DEF TypeOK
    <2>4. /\ attempt[w] \in Nat /\ height0[w] \in Nat /\ Attempts \in Nat
          /\ attempt[w] < Attempts
          /\ draft[w].seq \in Nat
          /\ draft[w].seq >= height0[w] + attempt[w]
          /\ draft[w].seq < Height
      <3>1. draft[w] \in Entry
        BY DEF TypeOK
      <3> QED
        BY <1>0, <3>1, AttemptsAssumption
        DEF TypeOK, RefusalsPaidFor, Running, Entry
    <2>5. TypeOK'
      <3>1. attempt' \in [Writers -> 0 .. Attempts]
        BY <2>3, <2>4 DEF TypeOK
      <3>2. pc' \in [Writers -> {"idle"} \cup Running \cup Ended]
        BY DEF TypeOK, Running, Ended
      <3> QED
        BY <3>1, <3>2 DEF TypeOK
    <2>6. ReturnedIsRecorded'
      BY <2>2, <2>3 DEF ReturnedIsRecorded
    <2>7. ExhaustionMeansContention'
      <3>1. pc'[w] = "exhausted" => Height >= height0[w] + Attempts
        BY <1>0, <2>3, <2>4
      <3> QED
        BY <2>1, <2>2, <3>1 DEF ExhaustionMeansContention
    <2>8. DraftsFit'
      BY <2>1, <2>2, <2>3 DEF DraftsFit
    <2>9. RefusalsPaidFor'
      <3>1. pc'[w] \in Running => /\ attempt[w] + 1 < Attempts
                                  /\ Height >= height0[w] + (attempt[w] + 1)
        BY <1>0, <2>3, <2>4 DEF Running
      <3> QED
        BY <2>1, <2>2, <2>3, <3>1 DEF RefusalsPaidFor
    <2> QED
      BY <2>1, <2>5, <2>6, <2>7, <2>8, <2>9
  <1>5. ASSUME NEW w \in Writers, AnswerLost(w)
        PROVE  IndInv'
    BY <1>5, WriteKeepsIndInv DEF AnswerLost
  <1>6. ASSUME NEW w \in Writers, CallFails(w)
        PROVE  IndInv'
    <2> USE <1>6 DEF CallFails
    <2>1. Height' = Height /\ ChainIntact'
      BY DEF Height, ChainIntact
    <2>2. /\ \A v \in Writers : v # w => pc'[v] = pc[v]
          /\ pc'[w] = "failed"
      BY DEF TypeOK
    <2>3. TypeOK'
      BY DEF TypeOK, Ended
    <2> QED
      BY <2>1, <2>2, <2>3
      DEF ReturnedIsRecorded, ExhaustionMeansContention, DraftsFit,
          RefusalsPaidFor, Running
  <1>7. CASE UNCHANGED vars
    BY <1>7 DEF vars, TypeOK, ChainIntact, ReturnedIsRecorded, DraftsFit,
                ExhaustionMeansContention, RefusalsPaidFor, Height
  <1> QED
    BY <1>1, <1>2, <1>3, <1>4, <1>5, <1>6, <1>7 DEF Next, Step

(* _append over any EventStore that refuses taken seqs: the chain, what    *)
(* was acknowledged, the drafts in flight and the count of refusals fit    *)
(* each other in every reachable state.                                    *)
THEOREM AppendLoopInvariant == Spec => []IndInv
  <1>1. Init => IndInv
    BY InitIndInv
  <1>2. IndInv /\ [Next]_vars => IndInv'
    BY NextIndInv
  <1> QED
    BY <1>1, <1>2, PTL DEF Spec

(* ApprovalService._append: the variables keep their types. *)
THEOREM AppendLoopTypeOK == Spec => []TypeOK
  <1>1. IndInv => TypeOK
    BY DEF IndInv
  <1> QED
    BY <1>1, AppendLoopInvariant, PTL

(* chain.verify_segment never finds a gap or a broken link in a log that   *)
(* only _append wrote, although EventStore.append checks neither.          *)
THEOREM ChainAlwaysIntact == Spec => []ChainIntact
  <1>1. IndInv => ChainIntact
    BY DEF IndInv
  <1> QED
    BY <1>1, AppendLoopInvariant, PTL

(* An entry _append returned is in the log at its seq from then on. *)
THEOREM ReturnedAlwaysRecorded == Spec => []ReturnedIsRecorded
  <1>1. IndInv => ReturnedIsRecorded
    BY DEF IndInv
  <1> QED
    BY <1>1, AppendLoopInvariant, PTL

(* ConcurrencyExhausted is raised only by a call during which others       *)
(* appended append_attempts entries: with fewer concurrent appends than    *)
(* attempts nobody is ever turned away.                                    *)
THEOREM ExhaustionIsContention == Spec => []ExhaustionMeansContention
  <1>1. IndInv => ExhaustionMeansContention
    BY DEF IndInv
  <1> QED
    BY <1>1, AppendLoopInvariant, PTL

-----------------------------------------------------------------------------
(* The refinement: what callers see is an atomic ledger. *)

(* The events in seq order are a sequence as long as the log is high. *)
LEMMA LedgerOfIsSeq ==
    ASSUME IndInv
    PROVE  /\ LedgerOf \in Seq(Payloads)
           /\ Len(LedgerOf) = Height
           /\ \A i \in 1 .. Height : LedgerOf[i] = store[i - 1].payload
  <1>1. Height \in Nat /\ DOMAIN store = 0 .. Height - 1
    BY HeightIsNat DEF IndInv, ChainIntact
  <1>2. \A i \in 1 .. Height : store[i - 1].payload \in Payloads
    <2> SUFFICES ASSUME NEW i \in 1 .. Height
                 PROVE  store[i - 1].payload \in Payloads
      OBVIOUS
    <2>1. i - 1 \in DOMAIN store
      BY <1>1
    <2> QED
      BY <2>1 DEF IndInv, TypeOK, Entry
  <1> QED
    BY <1>1, <1>2 DEF LedgerOf

(* A step that writes extends the ledger by the writer's event. *)
LEMMA WriteAppends ==
    ASSUME IndInv,
           IndInv',
           NEW w \in Writers,
           pc[w] = "append",
           Insert(draft[w])
    PROVE  LedgerOf' = Append(LedgerOf, job[w])
  <1>1. Height \in Nat /\ DOMAIN store = 0 .. Height - 1
    BY HeightIsNat DEF IndInv, ChainIntact
  <1>2. /\ draft[w] \in Entry
        /\ draft[w].payload = job[w]
        /\ draft[w].seq <= Height
        /\ draft[w].prev_hash =
              IF draft[w].seq = 0 THEN ZeroHash
                                  ELSE EntryHash(store[draft[w].seq - 1])
    BY DEF IndInv, DraftsFit, TypeOK
  <1>3. /\ Height' = Height + 1
        /\ store'[Height] = draft[w]
        /\ \A s \in DOMAIN store : store'[s] = store[s]
    BY <1>2, InsertExtends
  <1>4. /\ LedgerOf \in Seq(Payloads) /\ Len(LedgerOf) = Height
        /\ \A i \in 1 .. Height : LedgerOf[i] = store[i - 1].payload
    BY LedgerOfIsSeq
  <1>5. LedgerOf' = [i \in 1 .. Height + 1 |-> store'[i - 1].payload]
    BY <1>3 DEF LedgerOf
  <1>6. job[w] \in Payloads
    BY DEF IndInv, TypeOK
  <1>7. \A i \in 1 .. Height : LedgerOf'[i] = LedgerOf[i]
    <2> SUFFICES ASSUME NEW i \in 1 .. Height
                 PROVE  LedgerOf'[i] = LedgerOf[i]
      OBVIOUS
    <2>1. i - 1 \in DOMAIN store /\ i \in 1 .. Height + 1
      BY <1>1
    <2> QED
      BY <1>3, <1>4, <1>5, <2>1
  <1>8. LedgerOf'[Height + 1] = job[w]
    <2>1. Height + 1 \in 1 .. Height + 1 /\ (Height + 1) - 1 = Height
      BY <1>1
    <2> QED
      BY <1>2, <1>3, <1>5, <2>1
  <1>9. \A i \in 1 .. Height + 1 :
            store'[i - 1].payload = IF i <= Height THEN LedgerOf[i] ELSE job[w]
    <2> SUFFICES ASSUME NEW i \in 1 .. Height + 1
                 PROVE  LedgerOf'[i] = IF i <= Height THEN LedgerOf[i] ELSE job[w]
      BY <1>5
    <2>1. CASE i <= Height
      <3>1. i \in 1 .. Height
        BY <1>1, <2>1
      <3> QED
        BY <1>7, <2>1, <3>1
    <2>2. CASE ~(i <= Height)
      <3>1. i = Height + 1
        BY <1>1, <2>2
      <3> QED
        BY <1>8, <2>2, <3>1
    <2> QED
      BY <2>1, <2>2
  <1>10. LedgerOf' = [i \in 1 .. Height + 1 |->
                        IF i <= Height THEN LedgerOf[i] ELSE job[w]]
    BY <1>5, <1>9
  <1>11. Append(LedgerOf, job[w]) = [i \in 1 .. Height + 1 |->
                        IF i <= Height THEN LedgerOf[i] ELSE job[w]]
    BY <1>4, <1>6
  <1> QED
    BY <1>10, <1>11

(* AppendLoop implements Ledger: a head read or a refusal is a stutter, an *)
(* insert is the whole of the abstract call.                               *)
THEOREM AppendLoopRefinesLedger == Spec => ImplementsLedger
  <1>1. Init => Abstract!Init
    <2> SUFFICES ASSUME Init
                 PROVE  Abstract!Init
      OBVIOUS
    <2>1. Height = 0
      BY FS_EmptySet DEF Init, Height
    <2>2. LedgerOf = <<>>
      BY <2>1 DEF LedgerOf
    <2>3. CallOf = [w \in Writers |-> [state |-> "idle"]]
      BY DEF Init, CallOf, Running
    <2> QED
      BY <2>2, <2>3 DEF Abstract!Init
  <1>2. IndInv /\ IndInv' /\ [Next]_vars => [Abstract!Next]_(Abstract!vars)
    <2> SUFFICES ASSUME IndInv, IndInv', [Next]_vars
                 PROVE  [Abstract!Next]_(Abstract!vars)
      OBVIOUS
    <2> USE DEF Abstract!Next, Abstract!vars
    <2>0. /\ pc \in [Writers -> {"idle"} \cup Running \cup Ended]
          /\ job \in [Writers -> Payloads]
      BY DEF IndInv, TypeOK
    <2>1. ASSUME NEW w \in Writers, NEW p \in Payloads, Call(w, p)
          PROVE  Abstract!Start(w, p)
      <3> USE <2>1 DEF Call
      <3>1. CallOf[w].state # "running"
        BY <2>0 DEF CallOf, Ended, Running
      <3>2. CallOf' = [CallOf EXCEPT ![w] = [state |-> "running", payload |-> p]]
        BY <2>0 DEF CallOf, Running
      <3>3. LedgerOf' = LedgerOf
        BY DEF LedgerOf, Height
      <3> QED
        BY <3>1, <3>2, <3>3 DEF Abstract!Start
    <2>2. ASSUME NEW w \in Writers, ReadHead(w)
          PROVE  UNCHANGED <<LedgerOf, CallOf>>
      BY <2>0, <2>2 DEF ReadHead, LedgerOf, CallOf, Height, Running
    <2>3. ASSUME NEW w \in Writers, NEW outcome \in {"recorded", "failed"},
                 pc[w] = "append",
                 Insert(draft[w]),
                 pc' = [pc EXCEPT ![w] = outcome],
                 UNCHANGED <<job, draft, attempt, height0>>
          PROVE  /\ Abstract!Finish(w, outcome)
                 /\ LedgerOf' = Append(LedgerOf, CallOf[w].payload)
      <3>1. CallOf[w] = [state |-> "running", payload |-> job[w]]
        BY <2>3 DEF CallOf, Running
      <3>2. CallOf' = [CallOf EXCEPT ![w] = [state |-> outcome]]
        BY <2>0, <2>3 DEF CallOf, Running
      <3>3. LedgerOf' = Append(LedgerOf, job[w])
        BY <2>3, WriteAppends
      <3> QED
        BY <3>1, <3>2, <3>3 DEF Abstract!Finish
    <2>4. ASSUME NEW w \in Writers, AppendEntry(w)
          PROVE  Abstract!Record(w)
      BY <2>3, <2>4 DEF AppendEntry, Abstract!Record
    <2>5. ASSUME NEW w \in Writers, AnswerLost(w)
          PROVE  Abstract!RecordUnheard(w)
      BY <2>3, <2>5 DEF AnswerLost, Abstract!RecordUnheard
    <2>6. ASSUME NEW w \in Writers, AppendConflict(w)
          PROVE  Abstract!GiveUp(w) \/ UNCHANGED <<LedgerOf, CallOf>>
      <3> USE <2>6 DEF AppendConflict
      <3>1. LedgerOf' = LedgerOf
        BY DEF LedgerOf, Height
      <3>2. CASE attempt[w] = Attempts - 1
        <4>1. CallOf[w] = [state |-> "running", payload |-> job[w]]
          BY DEF CallOf, Running
        <4>2. CallOf' = [CallOf EXCEPT ![w] = [state |-> "exhausted"]]
          BY <2>0, <3>2 DEF CallOf, Running
        <4> QED
          BY <3>1, <4>1, <4>2 DEF Abstract!GiveUp, Abstract!Finish
      <3>3. CASE attempt[w] # Attempts - 1
        <4>1. CallOf' = CallOf
          BY <2>0, <3>3 DEF CallOf, Running
        <4> QED
          BY <3>1, <4>1
      <3> QED
        BY <3>2, <3>3
    <2>7. ASSUME NEW w \in Writers, CallFails(w)
          PROVE  Abstract!GiveUp(w)
      <3> USE <2>7 DEF CallFails
      <3>1. LedgerOf' = LedgerOf
        BY DEF LedgerOf, Height
      <3>2. CallOf[w] = [state |-> "running", payload |-> job[w]]
        BY DEF CallOf, Running
      <3>3. CallOf' = [CallOf EXCEPT ![w] = [state |-> "failed"]]
        BY <2>0 DEF CallOf, Running
      <3> QED
        BY <3>1, <3>2, <3>3 DEF Abstract!GiveUp, Abstract!Finish
    <2>8. CASE UNCHANGED vars
      BY <2>8 DEF vars, LedgerOf, CallOf, Height
    <2> QED
      BY <2>1, <2>2, <2>4, <2>5, <2>6, <2>7, <2>8 DEF Next, Step
  <1> QED
    BY <1>1, <1>2, AppendLoopInvariant, PTL
    DEF Spec, ImplementsLedger, Abstract!Spec
=============================================================================
