------------------------ MODULE CheckpointingProofs -------------------------
(***************************************************************************)
(* Proofs about Checkpointing, for any tasks, calls and failovers.         *)
(*                                                                         *)
(* The operators below are those of Checkpointing with the log as a        *)
(* parameter L, so that a lemma about them can be used for the log before  *)
(* a step and for the log after it.                                        *)
(***************************************************************************)
EXTENDS Checkpointing, FiniteSetTheorems, WellFoundedInduction, TLAPS

NthIn(L, i) ==
    CHOOSE s \in DOMAIN L : Cardinality({r \in DOMAIN L : r < s}) = i - 1

LeavesIn(L, upTo) ==
    [i \in 1 .. Cardinality({s \in DOMAIN L : s < upTo}) |->
        EntryHash(L[NthIn(L, i)])]

(* What Consistent says of the log L. *)
Holds(L, cp) ==
    /\ Len(LeavesIn(L, cp.size)) >= cp.size
    /\ Root[LeavesIn(L, cp.size)] = cp.root

(* Either no checkpoint, or one over at most n entries that L bears out. *)
TreeHead(L, cp, n) ==
    \/ cp = NoCheckpoint
    \/ cp.size \in Nat /\ cp.size <= n /\ Holds(L, cp)

(* The hash an entry at seq s has to carry. *)
Before(L, s) == IF s = 0 THEN ZeroHash ELSE EntryHash(L[s - 1])

(* L is one chain of h entries. *)
Gapless(L, h) ==
    /\ h \in Nat
    /\ DOMAIN L = 0 .. h - 1
    /\ \A s \in 0 .. h - 1 : L[s].seq = s /\ L[s].prev_hash = Before(L, s)

(* L after an insert of e. *)
With(L, e) ==
    [s \in DOMAIN L \cup {e.seq} |-> IF s = e.seq THEN e ELSE L[s]]

-----------------------------------------------------------------------------
(* If the first n seqs are taken, the i-th of them is i - 1. *)
LEMMA NthOfFull ==
    ASSUME NEW L, DOMAIN L \subseteq Nat, NEW n \in Nat,
           0 .. n - 1 \subseteq DOMAIN L, NEW i \in 1 .. n
    PROVE  NthIn(L, i) = i - 1
<1> DEFINE Below(s) == {r \in DOMAIN L : r < s}
<1>1. \A s \in Nat : Below(s) \subseteq 0 .. s - 1
    OBVIOUS
<1>2. \A s \in Nat : IsFiniteSet(0 .. s - 1) /\ Cardinality(0 .. s - 1) = s
  <2>1. ASSUME NEW s \in Nat
        PROVE  IsFiniteSet(0 .. s - 1) /\ Cardinality(0 .. s - 1) = s
    <3>1. 0 \in Int /\ s - 1 \in Int
        OBVIOUS
    <3>2. IsFiniteSet(0 .. s - 1)
        BY <3>1, FS_Interval
    <3>3. Cardinality(0 .. s - 1) =
            IF 0 > s - 1 THEN 0 ELSE (s - 1) - 0 + 1
        BY <3>1, FS_Interval
    <3> QED BY <3>2, <3>3
  <2> QED BY <2>1
<1>3. i - 1 \in DOMAIN L /\ i - 1 \in Nat
    OBVIOUS
<1>4. Below(i - 1) = 0 .. (i - 1) - 1
    OBVIOUS
<1>5. Cardinality(Below(i - 1)) = i - 1
    BY <1>2, <1>3, <1>4
<1>6. ASSUME NEW s \in DOMAIN L, Cardinality(Below(s)) = i - 1
      PROVE  s = i - 1
  <2>1. s \in Nat
      OBVIOUS
  <2>2. IsFiniteSet(Below(s))
    <3>1. Below(s) \in SUBSET (0 .. s - 1)
        BY <1>1, <2>1
    <3> QED BY <3>1, <1>2, <2>1, FS_Subset
  <2>3. CASE s < i - 1
    <3>1. Below(s) = 0 .. s - 1
        BY <2>1, <2>3
    <3>2. Cardinality(Below(s)) = s
        BY <3>1, <1>2, <2>1
    <3> QED BY <3>2, <1>6, <2>3, <2>1
  <2>4. CASE s > i - 1
    <3>1. 0 .. i - 1 \in SUBSET Below(s)
        BY <2>1, <2>4
    <3>2. Cardinality(0 .. i - 1) <= Cardinality(Below(s))
        BY <3>1, <2>2, FS_Subset
    <3>3. Cardinality(0 .. i - 1) = i
      <4>1. i \in Nat /\ 0 .. i - 1 = 0 .. i - 1
          OBVIOUS
      <4> QED BY <4>1, <1>2
    <3>4. i <= i - 1
        BY <3>2, <3>3, <1>6
    <3> QED BY <3>4
  <2> QED BY <2>1, <2>3, <2>4
<1> HIDE DEF Below
<1>7. NthIn(L, i) = CHOOSE s \in DOMAIN L : Cardinality(Below(s)) = i - 1
    BY DEF NthIn, Below
<1> QED BY <1>3, <1>5, <1>6, <1>7

(* The leaves below n of a log whose first n seqs are taken. *)
LEMMA LeavesOfFull ==
    ASSUME NEW L, DOMAIN L \subseteq Nat, NEW n \in Nat,
           0 .. n - 1 \subseteq DOMAIN L
    PROVE  /\ LeavesIn(L, n) = [i \in 1 .. n |-> EntryHash(L[i - 1])]
           /\ Len(LeavesIn(L, n)) = n
<1>1. {s \in DOMAIN L : s < n} = 0 .. n - 1
    OBVIOUS
<1>2. Cardinality(0 .. n - 1) = n
  <2>1. 0 \in Int /\ n - 1 \in Int
      OBVIOUS
  <2>2. Cardinality(0 .. n - 1) = IF 0 > n - 1 THEN 0 ELSE (n - 1) - 0 + 1
      BY <2>1, FS_Interval
  <2> QED BY <2>2
<1>3. \A i \in 1 .. n : NthIn(L, i) = i - 1
    BY NthOfFull
<1>4. LeavesIn(L, n) = [i \in 1 .. n |-> EntryHash(L[NthIn(L, i)])]
    BY <1>1, <1>2 DEF LeavesIn
<1>5. LeavesIn(L, n) = [i \in 1 .. n |-> EntryHash(L[i - 1])]
    BY <1>3, <1>4
<1> QED BY <1>5

(* A checkpoint that holds has all its entries in the log. *)
LEMMA HoldsMeansFull ==
    ASSUME NEW L, DOMAIN L \subseteq Nat, NEW cp, cp.size \in Nat,
           Holds(L, cp)
    PROVE  0 .. cp.size - 1 \subseteq DOMAIN L
<1> DEFINE n == cp.size
           S == {s \in DOMAIN L : s < n}
<1>1. S \in SUBSET (0 .. n - 1)
    OBVIOUS
<1>2. IsFiniteSet(0 .. n - 1) /\ Cardinality(0 .. n - 1) = n
  <2>1. 0 \in Int /\ n - 1 \in Int
      OBVIOUS
  <2>2. Cardinality(0 .. n - 1) = IF 0 > n - 1 THEN 0 ELSE (n - 1) - 0 + 1
      BY <2>1, FS_Interval
  <2>3. IsFiniteSet(0 .. n - 1)
      BY <2>1, FS_Interval
  <2> QED BY <2>2, <2>3
<1>3. IsFiniteSet(S) /\ Cardinality(S) <= n
    BY <1>1, <1>2, FS_Subset
<1>4. Cardinality(S) \in Nat
    BY <1>3, FS_CardinalityType
<1>5. Len(LeavesIn(L, n)) = Cardinality(S)
  <2>1. LeavesIn(L, n) =
          [i \in 1 .. Cardinality(S) |-> EntryHash(L[NthIn(L, i)])]
      BY DEF LeavesIn
  <2> HIDE DEF S
  <2> QED BY <2>1, <1>4
<1>6. Cardinality(S) = n
    BY <1>3, <1>4, <1>5 DEF Holds
<1>7. S = 0 .. n - 1
    BY <1>1, <1>2, <1>6, FS_Subset
<1> QED BY <1>7

(* Equal prefixes have equal leaves. *)
LEMMA HoldsInBoth ==
    ASSUME NEW L, NEW M, DOMAIN L \subseteq Nat, DOMAIN M \subseteq Nat,
           NEW cp, cp.size \in Nat, Holds(L, cp),
           \A s \in 0 .. cp.size - 1 :
              s \in DOMAIN L => s \in DOMAIN M /\ M[s] = L[s]
    PROVE  Holds(M, cp)
<1> DEFINE n == cp.size
<1>1. 0 .. n - 1 \subseteq DOMAIN L
    BY HoldsMeansFull
<1>2. 0 .. n - 1 \subseteq DOMAIN M
    BY <1>1
<1>3. LeavesIn(L, n) = [i \in 1 .. n |-> EntryHash(L[i - 1])]
    BY <1>1, LeavesOfFull
<1>4. LeavesIn(M, n) = [i \in 1 .. n |-> EntryHash(M[i - 1])]
    BY <1>2, LeavesOfFull
<1>5. \A i \in 1 .. n : M[i - 1] = L[i - 1]
    BY <1>1
<1>6. LeavesIn(M, n) = LeavesIn(L, n)
    BY <1>3, <1>4, <1>5
<1> QED BY <1>6 DEF Holds

(* An insert at a free seq takes nothing away from a checkpoint. *)
LEMMA InsertKeepsHolds ==
    ASSUME NEW L, DOMAIN L \subseteq Nat, NEW e, e.seq \in Nat,
           e.seq \notin DOMAIN L, NEW cp, cp.size \in Nat, Holds(L, cp)
    PROVE  Holds(With(L, e), cp)
<1>1. DOMAIN With(L, e) \subseteq Nat
    BY DEF With
<1>2. \A s \in DOMAIN L : s \in DOMAIN With(L, e) /\ With(L, e)[s] = L[s]
    BY DEF With
<1> QED BY <1>1, <1>2, HoldsInBoth

(* Nor from one that may be none, under a bound no lower than before. *)
LEMMA InsertKeepsHead ==
    ASSUME NEW L, DOMAIN L \subseteq Nat, NEW e, e.seq \in Nat,
           e.seq \notin DOMAIN L, NEW cp, NEW n \in Int, NEW m \in Int,
           n <= m, TreeHead(L, cp, n)
    PROVE  TreeHead(With(L, e), cp, m)
    BY InsertKeepsHolds DEF TreeHead

(* On one chain, an entry sealed to fit behind its seq can only go in at   *)
(* the end, and continues the chain.                                       *)
LEMMA InsertExtends ==
    ASSUME NEW L, NEW h, Gapless(L, h), NEW e, e.seq \in Nat, e.seq <= h,
           e.seq \notin DOMAIN L, e.prev_hash = Before(L, e.seq)
    PROVE  /\ e.seq = h
           /\ Gapless(With(L, e), h + 1)
           /\ \A s \in 0 .. h : Before(With(L, e), s) = Before(L, s)
<1>1. e.seq = h
    BY DEF Gapless
<1>2. DOMAIN With(L, e) = 0 .. h
    BY <1>1 DEF With, Gapless
<1>3. \A s \in 0 .. h - 1 : With(L, e)[s] = L[s]
    BY <1>1 DEF With, Gapless
<1>4. With(L, e)[h] = e
    BY <1>1 DEF With, Gapless
<1>5. \A s \in 0 .. h : Before(With(L, e), s) = Before(L, s)
    BY <1>3 DEF Before, Gapless
<1>6. \A s \in 0 .. h : With(L, e)[s].seq = s
    BY <1>1, <1>3, <1>4 DEF Gapless
<1>7. \A s \in 0 .. h : With(L, e)[s].prev_hash = Before(With(L, e), s)
    BY <1>1, <1>3, <1>4, <1>5 DEF Gapless
<1>8. (h + 1) - 1 = h /\ h + 1 \in Nat
    BY DEF Gapless
<1> HIDE DEF With
<1>9. Gapless(With(L, e), h + 1)
    BY <1>2, <1>6, <1>7, <1>8 DEF Gapless
<1> QED BY <1>1, <1>5, <1>9

-----------------------------------------------------------------------------
Height == Cardinality(Seqs)

(* While nothing was lost: the log is one chain, an entry about to go in   *)
(* fits the log behind its seq, and every checkpoint, wherever it is on    *)
(* its way, is borne out by the log and covers less than where it is or    *)
(* will be put.                                                            *)
Calm ==
    /\ Gapless(log, Height)
    /\ \A s \in Seqs : TreeHead(log, log[s].event.cp, s)
    /\ \A cp \in pinned : cp # NoCheckpoint /\ TreeHead(log, cp, Height - 1)
    /\ \A t \in Tasks :
        /\ pc[t] = "head" => TreeHead(log, draft[t].event.cp, Height)
        /\ pc[t] = "append" =>
              /\ draft[t].seq <= Height
              /\ draft[t].prev_hash = Before(log, draft[t].seq)
              /\ TreeHead(log, draft[t].event.cp, draft[t].seq)

(* ... and the audit under way has found nothing, and knows the hash the   *)
(* next entry has to carry, or the next entry there will ever be.          *)
CalmAudit ==
    /\ audit.failed = {}
    /\ audit.step = "scan" =>
          /\ audit.next <= Height
          /\ audit.prev = Before(log, audit.next)
    /\ TreeHead(log, audit.published, Height)

(* With or without losses: what the last audit has read is still there.    *)
StillRead ==
    /\ \A s \in audit.from .. audit.next - 1 :
          /\ s \in Seqs
          /\ s > audit.from => log[s].prev_hash = EntryHash(log[s - 1])
    /\ audit.step = "scan" /\ audit.next > audit.from =>
          audit.prev = EntryHash(log[audit.next - 1])
    /\ audit.step = "done" /\ "pinned" \notin audit.failed =>
          audit.trusted = NoCheckpoint \/ Holds(log, audit.trusted)

(* Any seqs there are have a highest one. *)
Topped(S) ==
    \A T \in SUBSET S : T # {} => \E s \in T : \A r \in T : r <= s

IInv ==
    /\ TypeOK
    /\ Topped(Seqs)
    /\ failovers = 0 => Calm
    /\ failovers = 0 /\ Resuming = FALSE => CalmAudit
    /\ audit.epoch = failovers => StillRead

-----------------------------------------------------------------------------
(* The initial state and the invariant. *)
LEMMA InitIInv == Init => IInv
<1> SUFFICES ASSUME Init PROVE IInv
    OBVIOUS
<1>1. Seqs = {} /\ DOMAIN log = {}
    BY DEF Init, Seqs
<1>2. IsFiniteSet(Seqs) /\ Height = 0
    BY <1>1, FS_EmptySet DEF Height
<1>3. ZeroHash \in Hash
    BY DEF ZeroHash, Hash
<1>4. IsEntry(NoDraft)
    BY <1>3 DEF IsEntry, NoDraft, Genesis, Event, IsCheckpoint
<1>5. TypeOK
    BY <1>1, <1>2, <1>3, <1>4, BoundsAssumption DEF TypeOK, Init, IsCheckpoint
<1>6. Calm
    BY <1>1, <1>2 DEF Calm, Init, Gapless
<1>7. StillRead /\ CalmAudit
    BY <1>2 DEF StillRead, CalmAudit, TreeHead, Init
<1>8. Topped(Seqs)
    BY <1>1 DEF Topped
<1> QED BY <1>5, <1>6, <1>7, <1>8 DEF IInv

(* Last is the highest of some seqs. *)
LEMMA LastIsHighest ==
    ASSUME NEW S, Topped(S), NEW T \in SUBSET S, T # {}
    PROVE  Last(T) \in T /\ \A r \in T : r <= Last(T)
<1>1. \E s \in T : \A r \in T : r <= s
    BY DEF Topped
<1> QED BY <1>1 DEF Last

(* A checkpoint, an entry, and what sealing makes of them. *)
LEMMA SealedIsEntry ==
    ASSUME TypeOK, Topped(Seqs),
           NEW event, event.id \in Nat, IsCheckpoint(event.cp)
    PROVE  /\ IsEntry(Genesis(event))
           /\ IsEntry(SealedAfterHead(event))
           /\ Genesis(event).event = event
           /\ SealedAfterHead(event).event = event
<1>1. IsEntry(Genesis(event)) /\ Genesis(event).event = event
    BY DEF IsEntry, Genesis, ZeroHash, Hash
<1>2. CASE Seqs = {}
    BY <1>1, <1>2 DEF SealedAfterHead
<1>3. CASE Seqs # {}
  <2>1. Last(Seqs) \in Seqs
      BY <1>3, LastIsHighest
  <2>2. IsEntry(log[Last(Seqs)])
      BY <2>1 DEF TypeOK
  <2>3. EntryHash(log[Last(Seqs)]) \in Hash
      BY <2>2 DEF IsEntry, EntryHash, Hash
  <2> QED BY <1>1, <1>3, <2>2, <2>3 DEF SealedAfterHead, NextEntry, IsEntry
<1> QED BY <1>1, <1>2, <1>3

(* An insert leaves the log well-typed, with a highest seq. *)
LEMMA InsertTyped ==
    ASSUME TypeOK, Topped(Seqs), NEW e, IsEntry(e), Insert(e)
    PROVE  /\ log' = With(log, e)
           /\ Seqs' = Seqs \cup {e.seq}
           /\ Seqs' \subseteq Nat /\ IsFiniteSet(Seqs')
           /\ \A s \in Seqs' : IsEntry(log'[s]) /\ log'[s].seq = s
           /\ Topped(Seqs')
<1>1. log' = With(log, e)
    BY DEF Insert, With, Seqs
<1>2. Seqs' = Seqs \cup {e.seq}
    BY DEF Insert, Seqs
<1>3. Seqs' \subseteq Nat
    BY <1>2 DEF TypeOK, IsEntry
<1>4. IsFiniteSet(Seqs')
    BY <1>2, FS_AddElement DEF TypeOK
<1>5. \A s \in Seqs' : IsEntry(log'[s]) /\ log'[s].seq = s
    BY <1>2 DEF Insert, TypeOK
<1>6. ASSUME NEW T \in SUBSET Seqs', T # {}
      PROVE  \E s \in T : \A r \in T : r <= s
  <2>1. CASE T \subseteq {e.seq}
    <3>1. T = {e.seq} /\ e.seq \in Nat
        BY <1>2, <1>3, <1>6, <2>1
    <3> QED BY <3>1
  <2>2. CASE ~ (T \subseteq {e.seq})
    <3>1. T \ {e.seq} \in SUBSET Seqs /\ T \ {e.seq} # {}
        BY <1>2, <2>2
    <3>2. PICK s \in T \ {e.seq} : \A r \in T \ {e.seq} : r <= s
        BY <3>1 DEF Topped
    <3>3. s \in Nat /\ e.seq \in Nat /\ T \subseteq Nat
        BY <1>2, <1>3
    <3>4. CASE e.seq <= s
        BY <3>2, <3>3, <3>4
    <3>5. CASE e.seq > s /\ e.seq \in T
        BY <3>2, <3>3, <3>5
    <3>6. CASE e.seq \notin T
        BY <3>2, <3>6
    <3> QED BY <3>3, <3>4, <3>5, <3>6
  <2> QED BY <2>1, <2>2
<1>7. Topped(Seqs')
    BY <1>6 DEF Topped
<1> QED BY <1>1, <1>2, <1>3, <1>4, <1>5, <1>7

(* What checkpoint() builds is a checkpoint. *)
LEMMA BuiltIsCheckpoint ==
    ASSUME TypeOK PROVE IsCheckpoint(BuildCheckpoint(Leaves))
<1>1. Cardinality(Seqs) \in Nat
    BY FS_CardinalityType DEF TypeOK
<1>2. Len(Leaves) \in Nat
    BY <1>1 DEF Leaves
<1> QED BY <1>2 DEF IsCheckpoint, BuildCheckpoint

(* What latest_checkpoint answers is one, or none. *)
LEMMA PublishedIsCheckpoint ==
    ASSUME TypeOK, Topped(Seqs) PROVE IsCheckpoint(Published)
<1> DEFINE at == {s \in Seqs : log[s].event.cp # NoCheckpoint}
<1>1. CASE at = {}
    BY <1>1 DEF Published, IsCheckpoint
<1>2. CASE at # {}
  <2>1. at \in SUBSET Seqs
      OBVIOUS
  <2> HIDE DEF at
  <2>2. Last(at) \in Seqs
      BY <1>2, <2>1, LastIsHighest
  <2> USE DEF at
  <2> QED BY <1>2, <2>2 DEF Published, TypeOK, IsEntry
<1> QED BY <1>1, <1>2

(* Every action keeps the types.  What follows is one lemma per kind of    *)
(* step: the tasks', the failovers, the audit's.                           *)
LEMMA TaskTyped ==
    ASSUME TypeOK, Topped(Seqs), NEW t \in Tasks, TaskStep(t)
    PROVE  TypeOK' /\ Topped(Seqs')
<1>1. ASSUME NEW cp, IsCheckpoint(cp), Enter(t, cp)
      PROVE  TypeOK' /\ Topped(Seqs')
  <2>1. calls + 1 \in 0 .. MaxCalls
      BY <1>1, BoundsAssumption DEF Enter, TypeOK
  <2>2. IsEntry(Genesis(Event(calls + 1, cp)))
      BY <1>1 DEF IsEntry, Genesis, Event, ZeroHash, Hash, TypeOK
  <2>3. DOMAIN draft' = Tasks /\ \A u \in Tasks : IsEntry(draft'[u])
      BY <1>1, <2>2 DEF Enter, TypeOK
  <2> QED BY <1>1, <2>1, <2>3 DEF Enter, TypeOK, Seqs
<1>2. CASE Write(t)
    BY <1>1, <1>2 DEF Write, IsCheckpoint
<1>3. CASE Publish(t)
    BY <1>1, <1>3, BuiltIsCheckpoint DEF Publish
<1>4. CASE ReadHead(t)
  <2>1. IsEntry(SealedAfterHead(draft[t].event))
      BY SealedIsEntry DEF TypeOK, IsEntry
  <2>2. DOMAIN draft' = Tasks /\ \A u \in Tasks : IsEntry(draft'[u])
      BY <1>4, <2>1 DEF ReadHead, TypeOK
  <2> QED BY <1>4, <2>2 DEF ReadHead, TypeOK, Seqs
<1>5. IsEntry(NoDraft)
    BY DEF IsEntry, NoDraft, Genesis, Event, IsCheckpoint, ZeroHash, Hash
<1>6. ASSUME End(t)
      PROVE  /\ pc' \in [Tasks -> {"idle", "head", "append"}]
             /\ DOMAIN draft' = Tasks
             /\ \A u \in Tasks : IsEntry(draft'[u])
    BY <1>5, <1>6 DEF End, TypeOK
<1>7. CASE AppendEntry(t)
  <2>1. \A cp \in pinned' : IsCheckpoint(cp)
      BY <1>7 DEF AppendEntry, Returned, TypeOK, IsEntry
  <2> QED BY <1>6, <1>7, <2>1, InsertTyped DEF AppendEntry, TypeOK
<1>8. CASE AppendConflict(t)
  <2>1. IsEntry(Genesis(draft[t].event))
      BY SealedIsEntry DEF TypeOK, IsEntry
  <2>2. DOMAIN draft' = Tasks /\ \A u \in Tasks : IsEntry(draft'[u])
      BY <1>8, <2>1 DEF AppendConflict, TypeOK
  <2> QED BY <1>8, <2>2 DEF AppendConflict, TypeOK, Seqs
<1>9. CASE AnswerLost(t)
    BY <1>6, <1>9, InsertTyped DEF AnswerLost, TypeOK
<1>10. CASE CallFails(t)
    BY <1>6, <1>10 DEF CallFails, TypeOK, Seqs
<1> QED BY <1>2, <1>3, <1>4, <1>7, <1>8, <1>9, <1>10 DEF TaskStep

(* A failover keeps the types. *)
LEMMA FailoverTyped ==
    ASSUME TypeOK, Topped(Seqs), NEW n \in Seqs, Failover(n)
    PROVE  TypeOK' /\ Topped(Seqs')
<1>1. Seqs' \in SUBSET Seqs /\ \A s \in Seqs' : log'[s] = log[s]
    BY DEF Failover, Seqs
<1>2. IsFiniteSet(Seqs')
    BY <1>1, FS_Subset DEF TypeOK
<1>3. Topped(Seqs')
    BY <1>1 DEF Topped
<1>4. failovers' \in 0 .. MaxFailovers /\ failovers' = failovers + 1
    BY BoundsAssumption DEF Failover, TypeOK
<1>5. audit'.epoch \in 0 .. failovers'
    BY <1>4 DEF Failover, TypeOK
<1>6. lost' \subseteq pinned'
    BY DEF Failover, TypeOK
<1> QED BY <1>1, <1>2, <1>3, <1>4, <1>5, <1>6 DEF Failover, TypeOK

(* Every step of an audit keeps the types. *)
LEMMA AuditTyped ==
    ASSUME TypeOK, Topped(Seqs),
           \/ \E trusted \in {NoCheckpoint} \cup pinned, from \in Starts :
                 StartAudit(trusted, from)
           \/ ScanEntry \/ ScanEnds \/ ReadPublished \/ CheckRoot
           \/ CheckPinned
    PROVE  TypeOK' /\ Topped(Seqs')
<1>1. \A from \in Seqs : IsEntry(log[from])
    BY DEF TypeOK
<1>2. CASE \E trusted \in {NoCheckpoint} \cup pinned, from \in Starts :
              StartAudit(trusted, from)
  <2>1. PICK trusted \in {NoCheckpoint} \cup pinned, from \in Starts :
            StartAudit(trusted, from)
      BY <1>2
  <2>2. VerifiedTo + 1 \in Nat
      BY DEF VerifiedTo, TypeOK
  <2>3. \A cp \in pinned : cp.size \in Nat
      BY DEF TypeOK, IsCheckpoint, NoCheckpoint
  <2>4. from \in Nat
      BY <2>2, <2>3 DEF Starts
  <2>5. Anchor(from) \in Hash
      BY <1>1 DEF Anchor, ZeroHash, Hash, IsEntry
  <2> QED BY <2>1, <2>4, <2>5 DEF StartAudit, TypeOK, IsCheckpoint, Seqs
<1>3. CASE ScanEntry
  <2>1. PICK s \in Seqs :
            /\ s >= audit.next
            /\ IF LinkHolds(s)
               THEN audit' = [audit EXCEPT !.next = s + 1,
                                           !.prev = EntryHash(log[s])]
               ELSE Check(FALSE, "chain", "published")
      BY <1>3 DEF ScanEntry
  <2>2. EntryHash(log[s]) \in Hash
      BY <1>1 DEF EntryHash, Hash, IsEntry
  <2>3. s \in Nat
      BY DEF TypeOK
  <2>4. UNCHANGED <<log, calls, failovers, pinned, lost, pc, draft>>
      BY <1>3 DEF ScanEntry, AuditStep
  <2>5. CASE LinkHolds(s)
    <3>1. audit' = [audit EXCEPT !.next = s + 1, !.prev = EntryHash(log[s])]
        BY <2>1, <2>5
    <3>2. s + 1 \in Nat /\ audit.from <= s + 1
        BY <2>1, <2>3 DEF TypeOK
    <3> QED BY <2>2, <2>4, <3>1, <3>2 DEF TypeOK, Seqs
  <2>6. CASE ~ LinkHolds(s)
    <3>1. Check(FALSE, "chain", "published")
        BY <2>1, <2>6
    <3> QED BY <2>4, <3>1 DEF Check, TypeOK, Seqs
  <2> QED BY <2>5, <2>6
<1>4. CASE ScanEnds
    BY <1>4 DEF ScanEnds, AuditStep, Check, TypeOK, Seqs
<1>5. CASE ReadPublished
    BY <1>5, PublishedIsCheckpoint DEF ReadPublished, AuditStep, TypeOK, Seqs
<1>6. CASE CheckRoot
    BY <1>6 DEF CheckRoot, AuditStep, Check, TypeOK, Seqs
<1>7. CASE CheckPinned
    BY <1>7 DEF CheckPinned, AuditStep, Check, TypeOK, Seqs
<1> QED BY <1>2, <1>3, <1>4, <1>5, <1>6, <1>7

-----------------------------------------------------------------------------
(* A gapless log's height is the number of its entries. *)
LEMMA GaplessHeight ==
    ASSUME NEW L, NEW h, Gapless(L, h)
    PROVE  Cardinality(DOMAIN L) = h
<1>1. h \in Nat /\ 0 \in Int /\ h - 1 \in Int
    BY DEF Gapless
<1>2. Cardinality(0 .. h - 1) = IF 0 > h - 1 THEN 0 ELSE (h - 1) - 0 + 1
    BY <1>1, FS_Interval
<1> QED BY <1>1, <1>2 DEF Gapless

(* The operators with the log as a parameter are those of the module. *)
LEMMA LeavesBelowLog ==
    ASSUME NEW n PROVE LeavesBelow(n) = LeavesIn(log, n)
<1>1. \A i : Nth(i) = NthIn(log, i)
    BY DEF Nth, NthIn, Seqs
<1> QED BY <1>1 DEF LeavesBelow, LeavesIn, Seqs

(* verify_consistency says that the log bears the checkpoint out. *)
LEMMA ConsistentHolds ==
    ASSUME NEW cp PROVE Consistent(cp) <=> Holds(log, cp)
    BY LeavesBelowLog DEF Consistent, RootMatches, Holds

(* The checkpoint of a gapless log covers it all. *)
LEMMA BuiltHolds ==
    ASSUME TypeOK, Gapless(log, Height)
    PROVE  TreeHead(log, BuildCheckpoint(Leaves), Height)
<1>1. {s \in DOMAIN log : s < Height} = Seqs
    BY DEF Gapless, Seqs
<1>2. \A i : Nth(i) = NthIn(log, i)
    BY DEF Nth, NthIn, Seqs
<1>3. Leaves = LeavesIn(log, Height)
    BY <1>1, <1>2 DEF Leaves, LeavesIn
<1>4. Height \in Nat /\ 0 .. Height - 1 \subseteq DOMAIN log
      /\ DOMAIN log \subseteq Nat
    BY DEF Gapless
<1>5. Len(Leaves) = Height
    BY <1>3, <1>4, LeavesOfFull
<1> QED BY <1>3, <1>4, <1>5 DEF BuildCheckpoint, TreeHead, Holds

(* What is sealed on a gapless log fits behind its last entry. *)
LEMMA SealedFits ==
    ASSUME TypeOK, Topped(Seqs), Gapless(log, Height), NEW event
    PROVE  /\ SealedAfterHead(event).seq = Height
           /\ SealedAfterHead(event).prev_hash = Before(log, Height)
           /\ SealedAfterHead(event).event = event
<1>1. Height \in Nat /\ Seqs = 0 .. Height - 1
    BY DEF Gapless, Seqs
<1>2. CASE Height = 0
    BY <1>1, <1>2 DEF SealedAfterHead, Genesis, Before
<1>3. CASE Height > 0
  <2>1. Height - 1 \in Seqs /\ Seqs # {}
      BY <1>1, <1>3
  <2>2. Last(Seqs) \in Seqs /\ \A r \in Seqs : r <= Last(Seqs)
      BY <2>1, LastIsHighest
  <2>3. Last(Seqs) = Height - 1
      BY <1>1, <2>1, <2>2
  <2>4. log[Height - 1].seq = Height - 1
      BY <1>1, <2>1 DEF TypeOK
  <2>5. SealedAfterHead(event) = NextEntry(log[Height - 1], event)
      BY <2>1, <2>3 DEF SealedAfterHead
  <2>6. Before(log, Height) = EntryHash(log[Height - 1])
      BY <1>3 DEF Before
  <2> QED BY <1>1, <2>4, <2>5, <2>6 DEF NextEntry
<1> QED BY <1>1, <1>2, <1>3

(* While nothing is lost, an insert makes the one chain longer by one. *)
LEMMA InsertCalm ==
    ASSUME TypeOK, Topped(Seqs), Calm,
           NEW t \in Tasks, pc[t] = "append", Insert(draft[t])
    PROVE  /\ log' = With(log, draft[t])
           /\ Seqs' = Seqs \cup {draft[t].seq}
           /\ draft[t].seq = Height
           /\ Height' = Height + 1
           /\ Gapless(log', Height + 1)
           /\ \A s \in 0 .. Height : Before(log', s) = Before(log, s)
<1> DEFINE e == draft[t]
           h == Height
<1>1. IsEntry(e) /\ e.seq \in Nat
    BY DEF TypeOK, IsEntry
<1>2. e.seq <= h /\ e.prev_hash = Before(log, e.seq) /\ Gapless(log, h)
    BY DEF Calm
<1>3. e.seq \notin DOMAIN log /\ DOMAIN log \subseteq Nat
    BY DEF Insert, Seqs, TypeOK
<1>4. log' = With(log, e) /\ Seqs' = Seqs \cup {e.seq}
    BY <1>1, InsertTyped
<1>5. /\ e.seq = h
      /\ Gapless(log', h + 1)
      /\ \A s \in 0 .. h : Before(log', s) = Before(log, s)
    BY <1>1, <1>2, <1>3, <1>4, InsertExtends
<1>6. Height' = h + 1
    BY <1>5, GaplessHeight DEF Height, Seqs
<1> QED BY <1>4, <1>5, <1>6

(* While nothing is lost, a task's step keeps the log one chain and every  *)
(* checkpoint borne out by it.                                             *)
LEMMA TaskCalm ==
    ASSUME TypeOK, Topped(Seqs), Calm, NEW t \in Tasks, TaskStep(t)
    PROVE  Calm'
<1> DEFINE Fits(u) ==
        /\ pc[u] = "head" => TreeHead(log, draft[u].event.cp, Height)
        /\ pc[u] = "append" =>
              /\ draft[u].seq <= Height
              /\ draft[u].prev_hash = Before(log, draft[u].seq)
              /\ TreeHead(log, draft[u].event.cp, draft[u].seq)
<1>1. \A u \in Tasks : Fits(u)
    BY DEF Calm
<1>2. Gapless(log, Height) /\ Height \in Nat
    BY DEF Calm, Gapless
<1>3. ASSUME log' = log, pinned' = pinned, \A u \in Tasks \ {t} :
                pc'[u] = pc[u] /\ draft'[u] = draft[u],
             Fits(t)'
      PROVE  Calm'
  <2>1. Height' = Height /\ Seqs' = Seqs
      BY <1>3 DEF Height, Seqs
  <2>2. \A u \in Tasks : Fits(u)'
      BY <1>1, <1>3, <2>1
  <2> HIDE DEF Fits
  <2>3. /\ Gapless(log', Height')
        /\ \A s \in Seqs' : TreeHead(log', log'[s].event.cp, s)
        /\ \A cp \in pinned' :
              cp # NoCheckpoint /\ TreeHead(log', cp, Height' - 1)
      BY <1>3, <2>1 DEF Calm
  <2> USE DEF Fits
  <2> QED BY <2>2, <2>3 DEF Calm
<1>4. ASSUME NEW cp, TreeHead(log, cp, Height), Enter(t, cp)
      PROVE  Calm'
  <2>1. Fits(t)'
      BY <1>4 DEF Enter, TypeOK, Genesis, Event, Height, Seqs
  <2>2. \A u \in Tasks \ {t} : pc'[u] = pc[u] /\ draft'[u] = draft[u]
      BY <1>4 DEF Enter, TypeOK
  <2> HIDE DEF Fits
  <2> QED BY <1>3, <1>4, <2>1, <2>2 DEF Enter
<1>5. CASE Write(t)
    BY <1>4, <1>5 DEF Write, TreeHead
<1>6. CASE Publish(t)
    BY <1>2, <1>4, <1>6, BuiltHolds DEF Publish
<1>7. CASE ReadHead(t)
  <2>1. Fits(t)'
    <3>1. draft'[t] = SealedAfterHead(draft[t].event) /\ pc'[t] = "append"
          /\ log' = log /\ Height' = Height
        BY <1>7 DEF ReadHead, TypeOK, Height, Seqs
    <3>2. TreeHead(log, draft[t].event.cp, Height)
        BY <1>1, <1>7 DEF ReadHead
    <3> QED BY <1>2, <3>1, <3>2, SealedFits
  <2>2. \A u \in Tasks \ {t} : pc'[u] = pc[u] /\ draft'[u] = draft[u]
      BY <1>7 DEF ReadHead, TypeOK
  <2> HIDE DEF Fits
  <2> QED BY <1>3, <1>7, <2>1, <2>2 DEF ReadHead
<1>8. CASE AppendConflict(t)
  <2>1. TreeHead(log, draft[t].event.cp, Height)
    <3>1. TreeHead(log, draft[t].event.cp, draft[t].seq)
          /\ draft[t].seq <= Height
        BY <1>1, <1>8 DEF AppendConflict
    <3>2. draft[t].seq \in Nat
        BY DEF TypeOK, IsEntry
    <3> QED BY <1>2, <3>1, <3>2 DEF TreeHead
  <2>2. draft'[t].event = draft[t].event /\ pc'[t] = "head"
        /\ log' = log /\ Height' = Height
      BY <1>8 DEF AppendConflict, TypeOK, Genesis, Height, Seqs
  <2>3. Fits(t)'
      BY <2>1, <2>2
  <2>4. \A u \in Tasks \ {t} : pc'[u] = pc[u] /\ draft'[u] = draft[u]
      BY <1>8 DEF AppendConflict, TypeOK
  <2> HIDE DEF Fits
  <2> QED BY <1>3, <1>8, <2>3, <2>4 DEF AppendConflict
<1>9. ASSUME End(t)
      PROVE  /\ pc'[t] = "idle"
             /\ \A u \in Tasks \ {t} : pc'[u] = pc[u] /\ draft'[u] = draft[u]
    BY <1>9 DEF End, TypeOK
<1>10. CASE CallFails(t)
  <2>1. Fits(t)'
      BY <1>9, <1>10 DEF CallFails
  <2> HIDE DEF Fits
  <2> QED BY <1>3, <1>9, <1>10, <2>1 DEF CallFails
<1>11. ASSUME pc[t] = "append", Insert(draft[t]), End(t),
              pinned' \subseteq pinned \cup Returned(draft[t].event)
       PROVE  Calm'
  <2> DEFINE e == draft[t]
             h == Height
  <2>1. IsEntry(e) /\ e.seq \in Nat
      BY DEF TypeOK, IsEntry
  <2>2. e.seq <= h /\ e.prev_hash = Before(log, e.seq)
        /\ TreeHead(log, e.event.cp, e.seq)
      BY <1>1, <1>11
  <2>3. e.seq \notin DOMAIN log /\ DOMAIN log \subseteq Nat
      BY <1>11 DEF Insert, Seqs, TypeOK
  <2>4. log' = With(log, e) /\ Seqs' = Seqs \cup {e.seq}
      BY <1>11, InsertCalm
  <2>5. /\ e.seq = h
        /\ Gapless(log', h + 1)
        /\ \A s \in 0 .. h : Before(log', s) = Before(log, s)
      BY <1>11, InsertCalm
  <2>6. Height' = h + 1
      BY <1>11, InsertCalm
  <2>7. ASSUME NEW cp, NEW n \in Int, NEW m \in Int, n <= m,
               TreeHead(log, cp, n)
        PROVE  TreeHead(log', cp, m)
      BY <2>1, <2>3, <2>4, <2>7, InsertKeepsHead
  <2>8. ASSUME NEW s \in Seqs' PROVE TreeHead(log', log'[s].event.cp, s)
    <3>1. CASE s = e.seq
        BY <2>1, <2>2, <2>4, <2>7, <3>1 DEF With
    <3>2. CASE s # e.seq
      <4>1. s \in Seqs /\ s \in Nat /\ log'[s] = log[s]
          BY <2>4, <3>2 DEF With, Seqs, TypeOK
      <4>2. TreeHead(log, log[s].event.cp, s)
          BY <4>1 DEF Calm
      <4> QED BY <2>7, <4>1, <4>2
    <3> QED BY <3>1, <3>2
  <2>9. ASSUME NEW cp \in pinned'
        PROVE  cp # NoCheckpoint /\ TreeHead(log', cp, Height' - 1)
    <3>1. h - 1 \in Int /\ h \in Int /\ h - 1 <= h /\ Height' - 1 = h
        BY <1>2, <2>6
    <3>2. CASE cp \in pinned
      <4>1. cp # NoCheckpoint /\ TreeHead(log, cp, h - 1)
          BY <3>2 DEF Calm
      <4> QED BY <2>7, <3>1, <4>1
    <3>3. CASE cp \in Returned(e.event)
      <4>1. cp # NoCheckpoint /\ cp = e.event.cp
          BY <3>3 DEF Returned
      <4> QED BY <2>2, <2>5, <2>7, <3>1, <4>1
    <3> QED BY <1>11, <3>2, <3>3
  <2>10. ASSUME NEW u \in Tasks PROVE Fits(u)'
    <3>1. CASE u = t
        BY <1>9, <1>11, <3>1
    <3>2. CASE u # t
      <4>1. pc'[u] = pc[u] /\ draft'[u] = draft[u] /\ Fits(u)
          BY <1>1, <1>9, <1>11, <3>2
      <4>2. draft[u].seq \in Nat /\ h \in Nat /\ Height' = h + 1
          BY <1>2, <2>6 DEF TypeOK, IsEntry
      <4>3. pc[u] = "head" => TreeHead(log', draft[u].event.cp, Height')
        <5> HIDE DEF h
        <5> QED BY <2>7, <4>1, <4>2 DEF h
      <4>4. ASSUME pc[u] = "append"
            PROVE  /\ draft[u].seq <= Height'
                   /\ draft[u].prev_hash = Before(log', draft[u].seq)
                   /\ TreeHead(log', draft[u].event.cp, draft[u].seq)
        <5>1. draft[u].seq <= h
              /\ draft[u].prev_hash = Before(log, draft[u].seq)
              /\ TreeHead(log, draft[u].event.cp, draft[u].seq)
            BY <4>1, <4>4
        <5>2. TreeHead(log', draft[u].event.cp, draft[u].seq)
            BY <2>7, <4>2, <5>1
        <5>3. Before(log', draft[u].seq) = Before(log, draft[u].seq)
            BY <2>5, <4>2, <5>1
        <5> HIDE DEF h
        <5> QED BY <4>2, <5>1, <5>2, <5>3
      <4> QED BY <4>1, <4>3, <4>4
    <3> QED BY <3>1, <3>2
  <2>11. Gapless(log', Height')
      BY <2>5, <2>6
  <2> HIDE DEF e, h
  <2> QED BY <2>8, <2>9, <2>10, <2>11 DEF Calm
<1>12. CASE AppendEntry(t)
    BY <1>11, <1>12 DEF AppendEntry
<1>13. CASE AnswerLost(t)
    BY <1>11, <1>13 DEF AnswerLost
<1> HIDE DEF Fits
<1> QED BY <1>5, <1>6, <1>7, <1>8, <1>10, <1>12, <1>13 DEF TaskStep

(* What a task's step does to the log, at most: one insert. *)
LEMMA TaskInserts ==
    ASSUME NEW t \in Tasks, TaskStep(t)
    PROVE  /\ UNCHANGED <<audit, failovers>>
           /\ \/ log' = log
              \/ pc[t] = "append" /\ Insert(draft[t])
    BY DEF TaskStep, Write, Publish, Enter, ReadHead, AppendEntry,
           AppendConflict, AnswerLost, CallFails

(* While nothing is lost, whatever tasks do leaves an audit as it was.     *)
LEMMA TaskCalmAudit ==
    ASSUME TypeOK, Topped(Seqs), Calm, CalmAudit,
           NEW t \in Tasks, TaskStep(t)
    PROVE  CalmAudit'
<1>1. audit' = audit
    BY TaskInserts
<1>2. CASE log' = log
    BY <1>1, <1>2 DEF CalmAudit, Height, Seqs
<1>3. CASE pc[t] = "append" /\ Insert(draft[t])
  <2> DEFINE h == Height
             e == draft[t]
  <2>1. h \in Nat /\ Height' = h + 1 /\ log' = With(log, e) /\ e.seq = h
        /\ \A s \in 0 .. h : Before(log', s) = Before(log, s)
      BY <1>3, InsertCalm DEF Calm, Gapless
  <2>2. e.seq \notin DOMAIN log /\ DOMAIN log \subseteq Nat /\ e.seq \in Nat
      BY <1>3, <2>1 DEF Insert, Seqs, TypeOK
  <2>3. TreeHead(log', audit'.published, Height')
    <3>1. h <= Height' /\ h \in Int /\ Height' \in Int
        BY <2>1
    <3>2. TreeHead(log, audit.published, h)
        BY DEF CalmAudit
    <3> HIDE DEF h, e
    <3> QED BY <1>1, <2>1, <2>2, <3>1, <3>2, InsertKeepsHead
  <2>4. audit.next \in Nat
      BY DEF TypeOK
  <2>5. audit'.step = "scan" =>
          audit'.next <= Height' /\ audit'.prev = Before(log', audit'.next)
      BY <1>1, <2>1, <2>4 DEF CalmAudit
  <2> HIDE DEF h, e
  <2> QED BY <1>1, <2>3, <2>5 DEF CalmAudit
<1> QED BY <1>2, <1>3, TaskInserts

(* While nothing is lost, no step of an audit finds fault. *)
LEMMA AuditCalm ==
    ASSUME TypeOK, Topped(Seqs), Calm, CalmAudit, Resuming = FALSE,
           \/ \E trusted \in {NoCheckpoint} \cup pinned, from \in Starts :
                 StartAudit(trusted, from)
           \/ ScanEntry \/ ScanEnds \/ ReadPublished \/ CheckRoot
           \/ CheckPinned
    PROVE  CalmAudit'
<1>1. Gapless(log, Height) /\ Height \in Nat /\ Seqs = 0 .. Height - 1
    BY DEF Calm, Gapless, Seqs
<1>2. ASSUME log' = log PROVE Height' = Height
    BY <1>2 DEF Height, Seqs
<1>3. CASE \E trusted \in {NoCheckpoint} \cup pinned, from \in Starts :
              StartAudit(trusted, from)
  <2>1. PICK trusted \in {NoCheckpoint} \cup pinned, from \in Starts :
            StartAudit(trusted, from)
      BY <1>3
  <2>2. from = 0 \/ \E cp \in pinned : from = cp.size
      BY DEF Starts
  <2>3. from = 0 \/ from \in Seqs
    <3>1. ASSUME NEW cp \in pinned, from = cp.size
          PROVE  from \in Seqs
      <4>1. cp.size \in Nat /\ cp.size <= Height - 1
          BY DEF Calm, TreeHead
      <4> QED BY <1>1, <3>1, <4>1
    <3> QED BY <2>2, <3>1
  <2>4. from \in Nat /\ from <= Height /\ Anchor(from) = Before(log, from)
    <3>1. CASE from \in Seqs
        BY <1>1, <3>1 DEF Anchor, Gapless
    <3>2. CASE from = 0 /\ from \notin Seqs
        BY <1>1, <3>2 DEF Anchor, Before
    <3> QED BY <2>3, <3>1, <3>2
  <2>5. TreeHead(log, NoCheckpoint, Height)
      BY DEF TreeHead
  <2> QED BY <1>2, <2>1, <2>4, <2>5 DEF StartAudit, CalmAudit
<1>4. CASE ScanEntry
  <2>1. PICK s \in Seqs :
            /\ s >= audit.next
            /\ \A r \in Seqs : r >= audit.next => s <= r
            /\ IF LinkHolds(s)
               THEN audit' = [audit EXCEPT !.next = s + 1,
                                           !.prev = EntryHash(log[s])]
               ELSE Check(FALSE, "chain", "published")
      BY <1>4 DEF ScanEntry
  <2>2. audit.step = "scan" /\ log' = log /\ audit.next \in Nat
      BY <1>4 DEF ScanEntry, AuditStep, TypeOK
  <2>3. audit.prev = Before(log, audit.next)
      BY <2>2 DEF CalmAudit
  <2>4. s = audit.next /\ s \in 0 .. Height - 1
      BY <1>1, <2>1, <2>2
  <2>5. LinkHolds(s)
      BY <2>3, <2>4, <1>1 DEF LinkHolds, Gapless
  <2>6. audit' = [audit EXCEPT !.next = s + 1, !.prev = EntryHash(log[s])]
      BY <2>1, <2>5
  <2>7. s + 1 <= Height /\ Before(log, s + 1) = EntryHash(log[s])
      BY <1>1, <2>4 DEF Before
  <2> QED BY <1>2, <2>2, <2>6, <2>7 DEF CalmAudit, TypeOK
<1>5. CASE ScanEnds
    BY <1>2, <1>5 DEF ScanEnds, AuditStep, Check, CalmAudit, TypeOK
<1>6. CASE ReadPublished
  <2>1. TreeHead(log, Published, Height)
    <3> DEFINE at == {s \in Seqs : log[s].event.cp # NoCheckpoint}
    <3>1. CASE at = {}
        BY <3>1 DEF Published, TreeHead
    <3>2. CASE at # {}
      <4>1. at \in SUBSET Seqs
          OBVIOUS
      <4> HIDE DEF at
      <4>2. Last(at) \in Seqs
          BY <3>2, <4>1, LastIsHighest
      <4>3. TreeHead(log, log[Last(at)].event.cp, Last(at))
          BY <4>2 DEF Calm
      <4>4. TreeHead(log, log[Last(at)].event.cp, Height)
          BY <1>1, <4>2, <4>3 DEF TreeHead
      <4> USE DEF at
      <4> QED BY <3>2, <4>4 DEF Published
    <3> QED BY <3>1, <3>2
  <2> QED BY <1>2, <1>6, <2>1 DEF ReadPublished, AuditStep, CalmAudit, TypeOK
<1>7. CASE CheckRoot
  <2>1. audit.published = NoCheckpoint \/ RootMatches(audit.published)
      BY LeavesBelowLog DEF CalmAudit, TreeHead, Holds, RootMatches
  <2> QED BY <1>2, <1>7, <2>1 DEF CheckRoot, AuditStep, Check, CalmAudit, TypeOK
<1>8. CASE CheckPinned
  <2>1. audit.trusted = NoCheckpoint \/ Consistent(audit.trusted)
      BY ConsistentHolds DEF TypeOK, Calm, TreeHead
  <2> QED BY <1>2, <1>8, <2>1
          DEF CheckPinned, AuditStep, Check, CalmAudit, TypeOK
<1> QED BY <1>3, <1>4, <1>5, <1>6, <1>7, <1>8

-----------------------------------------------------------------------------
(* With or without earlier losses, what tasks do leaves in place what an   *)
(* audit has read.                                                         *)
LEMMA TaskStillRead ==
    ASSUME TypeOK, Topped(Seqs), StillRead, NEW t \in Tasks, TaskStep(t)
    PROVE  StillRead'
<1>1. audit' = audit
    BY TaskInserts
<1>2. CASE log' = log
    BY <1>1, <1>2 DEF StillRead, Seqs
<1>3. CASE pc[t] = "append" /\ Insert(draft[t])
  <2> DEFINE e == draft[t]
  <2>1. IsEntry(e) /\ e.seq \in Nat
      BY DEF TypeOK, IsEntry
  <2>2. log' = With(log, e) /\ Seqs' = Seqs \cup {e.seq}
      BY <1>3, <2>1, InsertTyped
  <2>3. e.seq \notin Seqs /\ DOMAIN log = Seqs /\ DOMAIN log \subseteq Nat
      BY <1>3 DEF Insert, Seqs, TypeOK
  <2>4. \A s \in Seqs : s \in Seqs' /\ log'[s] = log[s]
      BY <2>2, <2>3 DEF With
  <2>5. audit.from \in Nat /\ audit.next \in Nat
      BY DEF TypeOK
  <2> HIDE DEF e
  <2>6. ASSUME NEW s \in audit.from .. audit.next - 1
        PROVE  /\ s \in Seqs'
               /\ s > audit.from =>
                    log'[s].prev_hash = EntryHash(log'[s - 1])
    <3>1. s \in Seqs
          /\ (s > audit.from => log[s].prev_hash = EntryHash(log[s - 1]))
        BY DEF StillRead
    <3>2. s > audit.from => s - 1 \in Seqs
        BY <2>5 DEF StillRead
    <3> QED BY <2>4, <3>1, <3>2
  <2>7. audit.step = "scan" /\ audit.next > audit.from =>
            audit.prev = EntryHash(log'[audit.next - 1])
    <3>1. audit.next > audit.from => audit.next - 1 \in Seqs
        BY <2>5 DEF StillRead
    <3> QED BY <2>4, <3>1 DEF StillRead
  <2>8. audit.step = "done" /\ "pinned" \notin audit.failed =>
            audit.trusted = NoCheckpoint \/ Holds(log', audit.trusted)
    <3>1. audit.trusted = NoCheckpoint \/ audit.trusted.size \in Nat
        BY DEF TypeOK, IsCheckpoint
    <3>2. Holds(log, audit.trusted) /\ audit.trusted.size \in Nat
            => Holds(log', audit.trusted)
        BY <2>1, <2>2, <2>3, InsertKeepsHolds
    <3> QED BY <3>1, <3>2 DEF StillRead
  <2> QED BY <1>1, <2>6, <2>7, <2>8 DEF StillRead
<1> QED BY <1>2, <1>3, TaskInserts

(* An audit's own step: what it has read, and the entry it reads, are      *)
(* there.                                                                  *)
LEMMA AuditStillRead ==
    ASSUME TypeOK, audit.epoch = failovers => StillRead,
           audit'.epoch = failovers',
           \/ \E trusted \in {NoCheckpoint} \cup pinned, from \in Starts :
                 StartAudit(trusted, from)
           \/ ScanEntry \/ ScanEnds \/ ReadPublished \/ CheckRoot
           \/ CheckPinned
    PROVE  StillRead'
<1>1. audit.from \in Nat /\ audit.next \in Nat /\ audit.from <= audit.next
    BY DEF TypeOK
<1>2. CASE \E trusted \in {NoCheckpoint} \cup pinned, from \in Starts :
              StartAudit(trusted, from)
  <2>1. PICK trusted \in {NoCheckpoint} \cup pinned, from \in Starts :
            StartAudit(trusted, from)
      BY <1>2
  <2>2. from \in Nat
    <3>1. VerifiedTo + 1 \in Nat
        BY DEF VerifiedTo, TypeOK
    <3>2. \A cp \in pinned : cp.size \in Nat
        BY DEF TypeOK, IsCheckpoint, NoCheckpoint
    <3> QED BY <3>1, <3>2 DEF Starts
  <2>3. audit'.from = from /\ audit'.next = from /\ audit'.step = "scan"
      BY <2>1 DEF StartAudit
  <2>4. audit'.from .. audit'.next - 1 = {} /\ ~ (audit'.next > audit'.from)
      BY <2>2, <2>3
  <2> QED BY <2>3, <2>4 DEF StillRead
<1>3. ASSUME audit'.epoch = audit.epoch, failovers' = failovers, log' = log,
             audit'.from = audit.from
      PROVE  /\ StillRead /\ Seqs' = Seqs
             /\ audit'.next = audit.next /\ audit'.step # "scan"
                /\ (audit'.step = "done" /\ "pinned" \notin audit'.failed =>
                      audit'.trusted = NoCheckpoint
                        \/ Holds(log, audit'.trusted))
                => StillRead'
    BY <1>3 DEF StillRead, Seqs
<1>4. CASE ScanEntry
  <2>1. PICK s \in Seqs :
            IF LinkHolds(s)
            THEN audit' = [audit EXCEPT !.next = s + 1,
                                        !.prev = EntryHash(log[s])]
            ELSE Check(FALSE, "chain", "published")
      BY <1>4 DEF ScanEntry
  <2>2. log' = log /\ failovers' = failovers /\ audit.step = "scan"
      BY <1>4 DEF ScanEntry, AuditStep
  <2>3. CASE LinkHolds(s)
    <3>1. audit' = [audit EXCEPT !.next = s + 1, !.prev = EntryHash(log[s])]
        BY <2>1, <2>3
    <3>2. /\ audit'.from = audit.from /\ audit'.next = audit.next + 1
          /\ audit'.prev = EntryHash(log[audit.next])
          /\ audit'.step = "scan" /\ audit'.epoch = audit.epoch
        BY <2>2, <2>3, <3>1 DEF LinkHolds, TypeOK
    <3>3. StillRead /\ Seqs' = Seqs
        BY <1>3, <2>2, <3>2
    <3>4. audit.next \in Seqs /\ log[audit.next].prev_hash = audit.prev
        BY <2>3 DEF LinkHolds
    <3>5. ASSUME NEW r \in audit'.from .. audit'.next - 1
          PROVE  /\ r \in Seqs'
                 /\ r > audit'.from =>
                       log'[r].prev_hash = EntryHash(log'[r - 1])
      <4>1. CASE r = audit.next
          BY <1>1, <2>2, <3>2, <3>3, <3>4, <4>1 DEF StillRead
      <4>2. CASE r # audit.next
        <5>1. r \in audit.from .. audit.next - 1
            BY <1>1, <3>2, <4>2
        <5> QED BY <2>2, <3>2, <3>3, <5>1 DEF StillRead
      <4> QED BY <4>1, <4>2
    <3>6. audit'.prev = EntryHash(log'[audit'.next - 1])
        BY <1>1, <2>2, <3>2
    <3> QED BY <3>2, <3>5, <3>6 DEF StillRead
  <2>4. CASE ~ LinkHolds(s)
    <3>1. Check(FALSE, "chain", "published")
        BY <2>1, <2>4
    <3> QED BY <1>3, <2>2, <3>1 DEF Check, TypeOK
  <2> QED BY <2>3, <2>4
<1>5. CASE ScanEnds
    BY <1>3, <1>5 DEF ScanEnds, AuditStep, Check, TypeOK
<1>6. CASE ReadPublished
    BY <1>3, <1>6 DEF ReadPublished, AuditStep, TypeOK
<1>7. CASE CheckRoot
    BY <1>3, <1>7 DEF CheckRoot, AuditStep, Check, TypeOK
<1>8. CASE CheckPinned
  <2> DEFINE ok == audit.trusted = NoCheckpoint \/ Consistent(audit.trusted)
  <2>1. log' = log /\ failovers' = failovers /\ Check(ok, "pinned", "done")
      BY <1>8 DEF CheckPinned, AuditStep
  <2>2. ok => audit.trusted = NoCheckpoint \/ Holds(log, audit.trusted)
      BY ConsistentHolds
  <2> HIDE DEF ok
  <2>3. /\ audit'.trusted = audit.trusted /\ audit'.from = audit.from
        /\ audit'.next = audit.next /\ audit'.epoch = audit.epoch
        /\ audit'.step = "done"
        /\ "pinned" \notin audit'.failed => ok
      BY <2>1 DEF Check, TypeOK
  <2> QED BY <1>3, <2>1, <2>2, <2>3
<1> QED BY <1>2, <1>4, <1>5, <1>6, <1>7, <1>8

-----------------------------------------------------------------------------
(* Every step keeps the invariant. *)
LEMMA NextIInv == IInv /\ [Next]_vars => IInv'
<1> SUFFICES ASSUME IInv, [Next]_vars PROVE IInv'
    OBVIOUS
<1>1. TypeOK /\ Topped(Seqs)
    BY DEF IInv
<1>2. failovers \in Nat /\ audit.epoch \in Nat /\ audit.epoch <= failovers
    BY <1>1, BoundsAssumption DEF TypeOK
<1>3. CASE \E t \in Tasks : TaskStep(t)
  <2>1. PICK t \in Tasks : TaskStep(t)
      BY <1>3
  <2>2. failovers' = failovers /\ audit' = audit
      BY <2>1, TaskInserts
  <2>3. TypeOK' /\ Topped(Seqs')
      BY <1>1, <2>1, TaskTyped
  <2>4. failovers = 0 => Calm /\ Calm'
      BY <1>1, <2>1, TaskCalm DEF IInv
  <2>5. failovers = 0 /\ Resuming = FALSE => CalmAudit'
      BY <1>1, <2>1, <2>4, TaskCalmAudit DEF IInv
  <2>6. audit.epoch = failovers => StillRead'
      BY <1>1, <2>1, TaskStillRead DEF IInv
  <2> QED BY <2>2, <2>3, <2>4, <2>5, <2>6 DEF IInv
<1>4. CASE \E n \in Seqs : Failover(n)
  <2>1. PICK n \in Seqs : Failover(n)
      BY <1>4
  <2>2. failovers' = failovers + 1 /\ audit' = audit
      BY <2>1 DEF Failover
  <2>3. failovers' # 0 /\ audit'.epoch # failovers'
      BY <1>2, <2>2
  <2>4. TypeOK' /\ Topped(Seqs')
      BY <1>1, <2>1, FailoverTyped
  <2> QED BY <2>3, <2>4 DEF IInv
<1>5. CASE \/ \E trusted \in {NoCheckpoint} \cup pinned, from \in Starts :
                 StartAudit(trusted, from)
           \/ ScanEntry \/ ScanEnds \/ ReadPublished \/ CheckRoot
           \/ CheckPinned
  <2>1. TypeOK' /\ Topped(Seqs')
      BY <1>1, <1>5, AuditTyped
  <2>2. UNCHANGED <<log, calls, failovers, pinned, lost, pc, draft>>
      BY <1>5 DEF StartAudit, ScanEntry, ScanEnds, ReadPublished, CheckRoot,
                  CheckPinned, AuditStep
  <2>3. failovers = 0 => Calm /\ Calm'
      BY <2>2 DEF IInv, Calm, Height, Seqs
  <2>4. failovers = 0 /\ Resuming = FALSE => CalmAudit'
      BY <1>1, <1>5, <2>3, AuditCalm DEF IInv
  <2>5. audit'.epoch = failovers' => StillRead'
      BY <1>1, <1>5, AuditStillRead DEF IInv
  <2> QED BY <2>1, <2>2, <2>3, <2>4, <2>5 DEF IInv
<1>6. CASE UNCHANGED vars
  <2>1. Calm => Calm'
      BY <1>6 DEF vars, Calm, Height, Seqs
  <2>2. CalmAudit => CalmAudit'
      BY <1>6 DEF vars, CalmAudit, Height, Seqs
  <2>3. StillRead => StillRead'
      BY <1>6 DEF vars, StillRead, Seqs
  <2>4. TypeOK' /\ Topped(Seqs')
      BY <1>1, <1>6 DEF vars, TypeOK, Seqs
  <2> QED BY <1>6, <2>1, <2>2, <2>3, <2>4 DEF IInv, vars
<1> QED BY <1>3, <1>4, <1>5, <1>6 DEF Next

(* The invariant holds of every behaviour: what the theorems below rest    *)
(* on.                                                                     *)
THEOREM Invariance == Spec => []IInv
<1> QED BY InitIInv, NextIInv, PTL DEF Spec

(* The variables keep their types, for any tasks, calls and failovers.     *)
THEOREM Typed == Spec => []TypeOK
<1>1. IInv => TypeOK
    BY DEF IInv
<1> QED BY <1>1, Invariance, PTL

(* Concurrent writers and publishers cannot bring a checkpoint about that  *)
(* the log does not bear out, or that stands before an entry it covers.    *)
THEOREM PublishedHeadsAgree == Spec => []HeadsAgree
<1>1. IInv => HeadsAgree
  <2> SUFFICES ASSUME IInv, failovers = 0
               PROVE  /\ \A cp \in pinned : Consistent(cp)
                      /\ \A s \in Seqs :
                            log[s].event.cp # NoCheckpoint =>
                              log[s].event.cp.size <= s
                                /\ Consistent(log[s].event.cp)
      BY DEF HeadsAgree
  <2>1. Calm
      BY DEF IInv
  <2> QED BY <2>1, ConsistentHolds DEF Calm, TreeHead
<1> QED BY <1>1, Invariance, PTL

(* Audits of everything, or of what came since a checkpoint somebody       *)
(* holds, find no fault in a log that has lost nothing, while it grows.    *)
THEOREM HonestLogsPass == ASSUME Resuming = FALSE PROVE Spec => []NoFalseAlarms
<1>1. IInv => NoFalseAlarms
    BY DEF IInv, CalmAudit, NoFalseAlarms
<1> QED BY <1>1, Invariance, PTL

(* A clean report is good until the store next fails over.                 *)
THEOREM CleanReportsStand == Spec => []ReportsStand
<1>1. IInv => ReportsStand
  <2> SUFFICES ASSUME IInv, audit.step = "done", audit.failed = {},
                      audit.epoch = failovers
               PROVE  /\ \A s \in audit.from .. audit.next - 1 :
                            s \in Seqs /\ (s > audit.from => Linked(s))
                      /\ audit.trusted # NoCheckpoint
                            => Consistent(audit.trusted)
      BY DEF ReportsStand
  <2>1. StillRead /\ audit.from \in Nat /\ audit.next \in Nat
      BY DEF IInv, TypeOK
  <2>2. ASSUME NEW s \in audit.from .. audit.next - 1
        PROVE  s \in Seqs /\ (s > audit.from => Linked(s))
    <3>1. s \in Seqs
        BY <2>1 DEF StillRead
    <3>2. s > audit.from =>
            /\ s # 0 /\ s - 1 \in Seqs
            /\ log[s].prev_hash = EntryHash(log[s - 1])
        BY <2>1 DEF StillRead
    <3> QED BY <3>1, <3>2 DEF Linked
  <2> QED BY <2>1, <2>2, ConsistentHolds DEF StillRead
<1> QED BY <1>1, Invariance, PTL

-----------------------------------------------------------------------------
(***************************************************************************)
(* Trees.  A root determines the leaves it was made from, and an audit     *)
(* path proves one entry at one index and nothing else.                    *)
(*                                                                         *)
(* The induction of the library takes an operator as a parameter, which    *)
(* none of the provers can instantiate: an induction over the size of      *)
(* trees is the search for a smallest counterexample.                      *)
(***************************************************************************)

(* Some numbers have a least one. *)
LEMMA NatHasLeast ==
    ASSUME NEW T \in SUBSET Nat, T # {}
    PROVE  \E x \in T : \A y \in T : x <= y
<1>1. IsWellFoundedOn(OpToRel(<, Nat), Nat)
    BY NatLessThanWellFounded
<1>2. \E x \in T : \A y \in T : ~(<<y, x>> \in OpToRel(<, Nat))
    BY <1>1, WFMin
<1>3. PICK x \in T : \A y \in T : ~(<<y, x>> \in OpToRel(<, Nat))
    BY <1>2
<1>4. \A y \in T : y < x => <<y, x>> \in OpToRel(<, Nat)
    BY DEF OpToRel
<1>5. \A y \in T : ~(y < x)
    BY <1>3, <1>4
<1> QED BY <1>5

(* Twice a power of two is one. *)
LEMMA TwiceAPower ==
    ASSUME NEW k \in Nat \ {0}, PowerOfTwo(k)
    PROVE  PowerOfTwo(2 * k)
<1> SUFFICES ASSUME NEW d \in 1 .. 2 * k, NEW q \in 1 .. 2 * k, d * q = 2 * k
             PROVE  d = 1 \/ d % 2 = 0
    BY DEF PowerOfTwo
<1> SUFFICES ASSUME d % 2 # 0 PROVE d = 1
    OBVIOUS
<1>1. PICK e \in Nat : d = 2 * e + 1
  <2>1. d = 2 * (d \div 2) + (d % 2) /\ d % 2 \in 0 .. 1 /\ d \div 2 \in Nat
      OBVIOUS
  <2> QED BY <2>1
<1> DEFINE m == k - e * q
<1>2. e * q \in Nat
    OBVIOUS
<1>3. d * q = 2 * (e * q) + q
    BY <1>1
<1>4. q = 2 * m /\ m \in Nat /\ m > 0
    BY <1>2, <1>3
<1>5. d * m = k
  <2>1. d * (2 * m) = 2 * (d * m)
      BY <1>1, <1>4
  <2> HIDE DEF m
  <2>2. d * m \in Nat
      BY <1>4
  <2> QED BY <1>4, <2>1, <2>2
<1>6. d <= k /\ m <= k
  <2> HIDE DEF m
  <2> QED BY <1>4, <1>5
<1> HIDE DEF m
<1> QED BY <1>4, <1>5, <1>6 DEF PowerOfTwo

(* There is a place to split at. *)
LEMMA SplitIsBetween ==
    ASSUME NEW n \in Nat, n > 1
    PROVE  Split(n) \in 1 .. n - 1
<1> DEFINE P == {k \in 1 .. n - 1 : PowerOfTwo(k)}
           T == {n - k : k \in P}
<1>1. 1 \in P
    BY DEF PowerOfTwo
<1>2. T \in SUBSET Nat /\ T # {}
    BY <1>1
<1>3. PICK k \in P : \A l \in P : n - k <= n - l
  <2> HIDE DEF T
  <2>1. \E x \in T : \A y \in T : x <= y
      BY <1>2, NatHasLeast
  <2> QED BY <2>1 DEF T
<1>4. n <= 2 * k
  <2> SUFFICES ASSUME 2 * k < n PROVE FALSE
      OBVIOUS
  <2>1. 2 * k \in P
      BY TwiceAPower
  <2> QED BY <1>3, <2>1
<1> QED BY <1>3, <1>4 DEF Split

-----------------------------------------------------------------------------
(* A leaf keeps the hash it is made of. *)
LEMMA LeafIsInjective ==
    ASSUME NEW a, NEW b, Leaf(a) = Leaf(b) PROVE a = b
<1>1. Leaf(a)[2] = a /\ Leaf(b)[2] = b
    BY DEF Leaf
<1> QED BY <1>1

(* A node keeps both of its children. *)
LEMMA NodeIsInjective ==
    ASSUME NEW a, NEW b, NEW c, NEW d, Node(a, b) = Node(c, d)
    PROVE  a = c /\ b = d
<1>1. /\ Node(a, b)[2] = a /\ Node(a, b)[3] = b
      /\ Node(c, d)[2] = c /\ Node(c, d)[3] = d
    BY DEF Node
<1> QED BY <1>1

-----------------------------------------------------------------------------
(* The three recursions over trees.  Each is a function on some points,    *)
(* whose value at x follows from its values at smaller points; that there  *)
(* is such a function is shown for the three of them together.             *)
RootStep(f, hashes) ==
    IF hashes = <<>> THEN EmptyTree
    ELSE IF Len(hashes) = 1 THEN Leaf(hashes[1])
    ELSE LET k == Split(Len(hashes))
         IN  Node(f[SubSeq(hashes, 1, k)],
                  f[SubSeq(hashes, k + 1, Len(hashes))])

ProofStep(f, hashes) ==
    [index \in 0 .. Len(hashes) - 1 |->
        IF Len(hashes) = 1 THEN <<>>
        ELSE LET k     == Split(Len(hashes))
                 left  == SubSeq(hashes, 1, k)
                 right == SubSeq(hashes, k + 1, Len(hashes))
             IN  IF index < k
                 THEN WithSibling(f[left][index], Root[right])
                 ELSE WithSibling(f[right][index - k], Root[left])]

AboveStep(hash, proof, f, n) ==
    [i \in 0 .. n - 1 |-> [d \in 0 .. Len(proof) |->
        IF n = 1 THEN (IF d = 0 THEN Leaf(hash) ELSE NoRoot)
        ELSE IF d = 0 THEN NoRoot
        ELSE LET k   == Split(n)
                 sub == IF i < k THEN f[k][i][d - 1]
                                 ELSE f[n - k][i - k][d - 1]
             IN  IF sub = NoRoot THEN NoRoot
                 ELSE IF i < k THEN Node(sub, proof[d])
                               ELSE Node(proof[d], sub)]]

(* w says which of the three: <<"root">>, <<"proof">>, or <<"above">> with *)
(* the hash and the proof that are verified.                               *)
Points(w) == IF w[1] = "root" THEN Seq(Hash)
             ELSE IF w[1] = "proof" THEN Trees ELSE Nat \ {0}

Size(w, x) == IF w[1] \in {"root", "proof"} THEN Len(x) ELSE x

Step(w, f, x) == IF w[1] = "root" THEN RootStep(f, x)
                 ELSE IF w[1] = "proof" THEN ProofStep(f, x)
                 ELSE AboveStep(w[2], w[3], f, x)

UpTo(w, n) == {x \in Points(w) : Size(w, x) <= n}

Approximates(w, f, n) == f = [x \in UpTo(w, n) |-> Step(w, f, x)]

(* Every point has a size. *)
LEMMA SizesAreNumbers ==
    ASSUME NEW w, NEW x \in Points(w) PROVE Size(w, x) \in Nat
    BY DEF Size, Points, Trees

(* The two halves of a list are lists, shorter than it. *)
LEMMA Halves ==
    ASSUME NEW h \in Seq(Hash), Len(h) > 1
    PROVE  /\ Split(Len(h)) \in 1 .. Len(h) - 1
           /\ SubSeq(h, 1, Split(Len(h))) \in Trees
           /\ Len(SubSeq(h, 1, Split(Len(h)))) = Split(Len(h))
           /\ SubSeq(h, Split(Len(h)) + 1, Len(h)) \in Trees
           /\ Len(SubSeq(h, Split(Len(h)) + 1, Len(h)))
                = Len(h) - Split(Len(h))
<1> DEFINE k == Split(Len(h))
<1>1. Len(h) \in Nat
    OBVIOUS
<1>2. k \in 1 .. Len(h) - 1
    BY <1>1, SplitIsBetween
<1> HIDE DEF k
<1>3. SubSeq(h, 1, k) \in Seq(Hash) /\ Len(SubSeq(h, 1, k)) = k
    BY <1>1, <1>2
<1>4. /\ SubSeq(h, k + 1, Len(h)) \in Seq(Hash)
      /\ Len(SubSeq(h, k + 1, Len(h))) = Len(h) - k
    BY <1>1, <1>2
<1>5. \A s \in Seq(Hash) : Len(s) # 0 => s \in Trees
    BY DEF Trees
<1>6. k # 0 /\ Len(h) - k # 0
    BY <1>1, <1>2
<1> QED BY <1>2, <1>3, <1>4, <1>5, <1>6 DEF k

(* Two functions that agree on the smaller points agree on what is made of *)
(* them.                                                                   *)
LEMMA StepDepends ==
    ASSUME NEW w, NEW f, NEW g, NEW x \in Points(w),
           \A y \in Points(w) : Size(w, y) < Size(w, x) => f[y] = g[y]
    PROVE  Step(w, f, x) = Step(w, g, x)
<1>1. CASE w[1] \in {"root", "proof"}
  <2>1. x \in Seq(Hash) /\ Size(w, x) = Len(x) /\ Len(x) \in Nat
      BY <1>1 DEF Points, Trees, Size
  <2>2. CASE x = <<>> \/ Len(x) = 1
    <3>1. RootStep(f, x) = RootStep(g, x)
        BY <2>2 DEF RootStep
    <3>2. Len(x) = 1 => ProofStep(f, x) = ProofStep(g, x)
        BY DEF ProofStep
    <3>3. w[1] = "proof" => Len(x) = 1
        BY <2>2 DEF Points, Trees
    <3> QED BY <1>1, <3>1, <3>2, <3>3 DEF Step
  <2>3. CASE x # <<>> /\ Len(x) # 1
    <3> DEFINE k == Split(Len(x))
               l == SubSeq(x, 1, k)
               r == SubSeq(x, k + 1, Len(x))
    <3>1. Len(x) > 1
      <4>1. Len(x) # 0 /\ Len(x) # 1
          BY <2>1, <2>3
      <4>2. \A n \in Nat : n # 0 /\ n # 1 => n > 1
          OBVIOUS
      <4> QED BY <2>1, <4>1, <4>2
    <3>2. /\ l \in Trees /\ Len(l) < Len(x) /\ r \in Trees /\ Len(r) < Len(x)
          /\ k \in 1 .. Len(x) - 1
        BY <2>1, <3>1, Halves
    <3>3. l \in Points(w) /\ r \in Points(w)
          /\ Size(w, l) = Len(l) /\ Size(w, r) = Len(r)
        BY <1>1, <3>2 DEF Points, Trees, Size
    <3>4. f[l] = g[l] /\ f[r] = g[r]
        BY <2>1, <3>2, <3>3
    <3>5. RootStep(f, x) = RootStep(g, x)
        BY <2>3, <3>4 DEF RootStep
    <3>6. ProofStep(f, x) = ProofStep(g, x)
        BY <3>4 DEF ProofStep
    <3> QED BY <1>1, <3>5, <3>6 DEF Step
  <2> QED BY <2>2, <2>3
<1>2. CASE w[1] \notin {"root", "proof"}
  <2>1. x \in Nat \ {0} /\ \A y \in Nat \ {0} : y < x => f[y] = g[y]
      BY <1>2 DEF Points, Size
  <2>2. CASE x = 1
      BY <1>2, <2>2 DEF Step, AboveStep
  <2>3. CASE x # 1
    <3> DEFINE k == Split(x)
    <3>1. k \in 1 .. x - 1
        BY <2>1, <2>3, SplitIsBetween
    <3>2. f[k] = g[k] /\ f[x - k] = g[x - k]
        BY <2>1, <3>1
    <3>3. AboveStep(w[2], w[3], f, x) = AboveStep(w[2], w[3], g, x)
        BY <3>2 DEF AboveStep
    <3> QED BY <1>2, <3>3 DEF Step
  <2> QED BY <2>2, <2>3
<1> QED BY <1>1, <1>2

(* Two approximations agree where both are defined. *)
LEMMA ApproximationsAgree ==
    ASSUME NEW w, NEW f, NEW g, NEW m \in Nat, NEW n \in Nat,
           Approximates(w, f, m), Approximates(w, g, n)
    PROVE  \A x \in Points(w) :
              Size(w, x) <= m /\ Size(w, x) <= n => f[x] = g[x]
<1> DEFINE Bad == {x \in Points(w) :
                     Size(w, x) <= m /\ Size(w, x) <= n /\ f[x] # g[x]}
           T == {Size(w, x) : x \in Bad}
<1> SUFFICES ASSUME Bad # {} PROVE FALSE
    OBVIOUS
<1>1. T \in SUBSET Nat /\ T # {}
  <2>1. \A x \in Bad : Size(w, x) \in Nat
      BY SizesAreNumbers
  <2> HIDE DEF Bad
  <2> QED BY <2>1
<1>2. PICK x \in Bad : \A y \in Bad : Size(w, x) <= Size(w, y)
  <2> HIDE DEF T
  <2>1. \E p \in T : \A q \in T : p <= q
      BY <1>1, NatHasLeast
  <2> QED BY <2>1 DEF T
<1>3. /\ x \in Points(w) /\ Size(w, x) \in Nat
      /\ Size(w, x) <= m /\ Size(w, x) <= n
    BY SizesAreNumbers
<1>4. ASSUME NEW y \in Points(w), Size(w, y) < Size(w, x)
      PROVE  f[y] = g[y]
  <2> SUFFICES ASSUME f[y] # g[y] PROVE FALSE
      OBVIOUS
  <2>1. Size(w, y) \in Nat
      BY SizesAreNumbers
  <2>2. y \in Bad
      BY <1>3, <1>4, <2>1
  <2> QED BY <1>2, <1>3, <1>4, <2>1, <2>2
<1>5. Step(w, f, x) = Step(w, g, x)
    BY <1>3, <1>4, StepDepends
<1>6. x \in UpTo(w, m) /\ x \in UpTo(w, n)
    BY <1>3 DEF UpTo
<1>7. f[x] = Step(w, f, x) /\ g[x] = Step(w, g, x)
    BY <1>6 DEF Approximates
<1>8. f[x] # g[x]
    OBVIOUS
<1> QED BY <1>5, <1>7, <1>8

(* There is one up to every size. *)
LEMMA ApproximationsExist ==
    ASSUME NEW w, NEW n \in Nat PROVE \E f : Approximates(w, f, n)
<1> DEFINE T == {m \in Nat : ~ \E f : Approximates(w, f, m)}
<1> SUFFICES ASSUME T # {} PROVE FALSE
    OBVIOUS
<1>1. PICK m \in T : \A p \in T : m <= p
  <2>1. T \in SUBSET Nat
      OBVIOUS
  <2> HIDE DEF T
  <2>2. \E q \in T : \A p \in T : q <= p
      BY <2>1, NatHasLeast
  <2> QED BY <2>2
<1>2. m \in Nat
    OBVIOUS
<1>3. \E f : \A x \in UpTo(w, m), y \in Points(w) :
          Size(w, y) < Size(w, x) => f[y] = Step(w, f, y)
  <2>1. CASE m = 0
    <3>1. \A x \in UpTo(w, m), y \in Points(w) : ~(Size(w, y) < Size(w, x))
        BY <2>1, SizesAreNumbers DEF UpTo
    <3> QED BY <3>1
  <2>2. CASE m # 0
    <3>1. m - 1 \in Nat /\ m - 1 \notin T
        BY <1>1, <1>2, <2>2
    <3>2. PICK f : Approximates(w, f, m - 1)
        BY <3>1
    <3>3. \A x \in UpTo(w, m), y \in Points(w) :
             Size(w, y) < Size(w, x) => y \in UpTo(w, m - 1)
        BY <1>2, SizesAreNumbers DEF UpTo
    <3>4. \A y \in UpTo(w, m - 1) : f[y] = Step(w, f, y)
        BY <3>2 DEF Approximates
    <3> QED BY <3>3, <3>4
  <2> QED BY <2>1, <2>2
<1>4. PICK f : \A x \in UpTo(w, m), y \in Points(w) :
                  Size(w, y) < Size(w, x) => f[y] = Step(w, f, y)
    BY <1>3
<1> DEFINE g == [x \in UpTo(w, m) |-> Step(w, f, x)]
<1>5. ASSUME NEW x \in UpTo(w, m) PROVE Step(w, f, x) = Step(w, g, x)
  <2>1. x \in Points(w) /\ Size(w, x) <= m /\ Size(w, x) \in Nat
      BY SizesAreNumbers DEF UpTo
  <2>2. ASSUME NEW y \in Points(w), Size(w, y) < Size(w, x)
        PROVE  f[y] = g[y]
    <3>1. y \in UpTo(w, m)
        BY <1>2, <2>1, <2>2, SizesAreNumbers DEF UpTo
    <3> QED BY <1>4, <2>2, <3>1
  <2> HIDE DEF g
  <2> QED BY <2>1, <2>2, StepDepends
<1>6. g = [x \in UpTo(w, m) |-> Step(w, g, x)]
    BY <1>5
<1> HIDE DEF g
<1>7. Approximates(w, g, m)
    BY <1>6 DEF Approximates
<1> QED BY <1>7

(* So there is a function that does at every point what the step says. *)
LEMMA RecursionHolds ==
    ASSUME NEW w PROVE \E f : f = [x \in Points(w) |-> Step(w, f, x)]
<1> DEFINE A(n) == CHOOSE f : Approximates(w, f, n)
           R == [x \in Points(w) |-> A(Size(w, x))[x]]
<1>1. \A n \in Nat : Approximates(w, A(n), n)
    BY ApproximationsExist
<1> HIDE DEF A
<1>2. ASSUME NEW x \in Points(w) PROVE R[x] = Step(w, R, x)
  <2> DEFINE n == Size(w, x)
  <2>1. n \in Nat /\ x \in UpTo(w, n)
      BY SizesAreNumbers DEF UpTo
  <2>2. A(n)[x] = Step(w, A(n), x)
      BY <1>1, <2>1 DEF Approximates
  <2>3. ASSUME NEW y \in Points(w), Size(w, y) < n
        PROVE  A(n)[y] = R[y]
    <3>1. Size(w, y) \in Nat /\ Size(w, y) <= Size(w, y) /\ Size(w, y) <= n
        BY <2>1, <2>3, SizesAreNumbers
    <3>2. Approximates(w, A(n), n)
          /\ Approximates(w, A(Size(w, y)), Size(w, y))
        BY <1>1, <2>1, <3>1
    <3>3. A(n)[y] = A(Size(w, y))[y]
        BY <2>1, <3>1, <3>2, ApproximationsAgree
    <3> QED BY <3>3
  <2> HIDE DEF R
  <2>4. Step(w, A(n), x) = Step(w, R, x)
      BY <2>3, StepDepends
  <2> QED BY <2>2, <2>4 DEF R
<1>3. R = [x \in Points(w) |-> Step(w, R, x)]
    BY <1>2
<1> HIDE DEF R
<1> QED BY <1>3

(* merkle_root does as its definition says, on every list of hashes. *)
LEMMA RootUnfolds ==
    ASSUME NEW h \in Seq(Hash) PROVE Root[h] = RootStep(Root, h)
<1>1. \E f : f = [x \in Points(<<"root">>) |-> Step(<<"root">>, f, x)]
    BY RecursionHolds
<1>2. \E f : f = [hashes \in Seq(Hash) |-> RootStep(f, hashes)]
    BY <1>1 DEF Points, Step
<1>3. Root = [hashes \in Seq(Hash) |-> RootStep(Root, hashes)]
    BY <1>2 DEF Root, RootStep
<1> QED BY <1>3

(* So does inclusion_proof, on every tree. *)
LEMMA InclusionProofUnfolds ==
    ASSUME NEW h \in Trees
    PROVE  InclusionProof[h] = ProofStep(InclusionProof, h)
<1>1. \E f : f = [x \in Points(<<"proof">>) |-> Step(<<"proof">>, f, x)]
    BY RecursionHolds
<1>2. \E f : f = [hashes \in Trees |-> ProofStep(f, hashes)]
    BY <1>1 DEF Points, Step
<1>3. InclusionProof = [hashes \in Trees |-> ProofStep(InclusionProof, hashes)]
    BY <1>2 DEF InclusionProof, ProofStep
<1> QED BY <1>3

(* What a verifier computes. *)
LEMMA VerifyUnfolds ==
    ASSUME NEW hash, NEW proof
    PROVE  \E f : /\ \A n \in Nat \ {0} : f[n] = AboveStep(hash, proof, f, n)
                  /\ \A index, size, root :
                        VerifyInclusion(hash, index, size, proof, root)
                          <=> index < size /\ f[size][index][Len(proof)] = root
<1> DEFINE w == <<"above", hash, proof>>
           Above == CHOOSE f :
                      f = [n \in Nat \ {0} |-> AboveStep(hash, proof, f, n)]
<1>1. w[1] = "above" /\ w[2] = hash /\ w[3] = proof
    OBVIOUS
<1>2. \E f : f = [x \in Points(w) |-> Step(w, f, x)]
    BY RecursionHolds
<1>3. \E f : f = [n \in Nat \ {0} |-> AboveStep(hash, proof, f, n)]
    BY <1>1, <1>2 DEF Points, Step
<1>4. Above = [n \in Nat \ {0} |-> AboveStep(hash, proof, Above, n)]
    BY <1>3
<1>5. ASSUME NEW index, NEW size, NEW root
      PROVE  VerifyInclusion(hash, index, size, proof, root)
               <=> index < size /\ Above[size][index][Len(proof)] = root
    BY DEF VerifyInclusion, AboveStep
<1> HIDE DEF Above
<1> QED BY <1>4, <1>5

-----------------------------------------------------------------------------
Tag(h) == IF h = <<>> THEN "empty" ELSE IF Len(h) = 1 THEN "leaf" ELSE "node"

(* A root shows of what kind it is, and is not that of a failed proof. *)
LEMMA RootsAreTagged ==
    ASSUME NEW h \in Seq(Hash) PROVE Root[h][1] = Tag(h) /\ Root[h] # NoRoot
<1>1. Root[h] = RootStep(Root, h)
    BY RootUnfolds
<1>2. Root[h][1] = Tag(h)
    BY <1>1 DEF RootStep, Tag, EmptyTree, Leaf, Node
<1>3. NoRoot[1] = "no root"
    BY DEF NoRoot
<1>4. Tag(h) # "no root"
    BY DEF Tag
<1> QED BY <1>2, <1>3, <1>4

(* The root of a tree that is more than a leaf. *)
LEMMA RootOfHalves ==
    ASSUME NEW h \in Seq(Hash), Len(h) > 1
    PROVE  Root[h] = Node(Root[SubSeq(h, 1, Split(Len(h)))],
                          Root[SubSeq(h, Split(Len(h)) + 1, Len(h))])
<1>1. h # <<>> /\ Len(h) # 1
  <2>1. Len(<<>>) = 0 /\ Len(h) \in Nat
      OBVIOUS
  <2>2. \A n \in Nat : n > 1 => n # 0 /\ n # 1
      OBVIOUS
  <2>3. Len(h) # 0 /\ Len(h) # 1
      BY <2>1, <2>2
  <2> QED BY <2>1, <2>3
<1>2. Root[h] = RootStep(Root, h)
    BY RootUnfolds
<1> QED BY <1>1, <1>2 DEF RootStep

(* What the halves of a list hold. *)
LEMMA HalvesHold ==
    ASSUME NEW h \in Seq(Hash), Len(h) > 1
    PROVE  LET k == Split(Len(h))
           IN  /\ \A i \in 1 .. k : SubSeq(h, 1, k)[i] = h[i]
               /\ \A i \in 1 .. Len(h) - k :
                     SubSeq(h, k + 1, Len(h))[i] = h[k + i]
<1> DEFINE k == Split(Len(h))
<1>1. Len(h) \in Nat /\ k \in 1 .. Len(h) - 1
    BY Halves
<1> HIDE DEF k
<1>2. \A i \in 1 .. k : SubSeq(h, 1, k)[i] = h[i]
    BY <1>1
<1>3. ASSUME NEW i \in 1 .. Len(h) - k
      PROVE  SubSeq(h, k + 1, Len(h))[i] = h[k + i]
  <2>1. SubSeq(h, k + 1, Len(h))[i] = h[k + 1 + i - 1]
      BY <1>1
  <2>2. k + 1 + i - 1 = k + i
      BY <1>1
  <2> QED BY <2>1, <2>2
<1> QED BY <1>2, <1>3 DEF k

(* Lists with the same root are the same list. *)
LEMMA RootDetermines ==
    ASSUME NEW g \in Seq(Hash), NEW h \in Seq(Hash), Root[g] = Root[h]
    PROVE  g = h
<1> DEFINE Twin(p, q) == Root[p] = Root[q] /\ p # q
           T == {n \in Nat : \E p, q \in Seq(Hash) : Len(p) = n /\ Twin(p, q)}
<1> SUFFICES ASSUME g # h PROVE FALSE
    OBVIOUS
<1>1. PICK n \in T : \A m \in T : n <= m
  <2>1. Len(g) \in T
      OBVIOUS
  <2>2. T \in SUBSET Nat /\ T # {}
      BY <2>1
  <2> HIDE DEF T
  <2>3. \E x \in T : \A y \in T : x <= y
      BY <2>2, NatHasLeast
  <2> QED BY <2>3
<1>2. PICK p \in Seq(Hash), q \in Seq(Hash) : Len(p) = n /\ Twin(p, q)
    BY <1>1
<1>3. ASSUME NEW s \in Seq(Hash), NEW r \in Seq(Hash),
             Root[s] = Root[r], Len(s) < n
      PROVE  s = r
  <2>1. Len(s) \in Nat /\ n \in Nat
      OBVIOUS
  <2>2. s # r => Len(s) \in T
      BY <1>3, <2>1
  <2> HIDE DEF T
  <2> QED BY <1>1, <1>3, <2>1, <2>2
<1>4. n \in Nat /\ Len(p) = n /\ Root[p] = Root[q] /\ p # q
    BY <1>2
<1> HIDE DEF T, Twin
<1>5. Tag(p) = Tag(q)
    BY <1>4, RootsAreTagged
<1>6. CASE Tag(p) = "empty"
    BY <1>4, <1>5, <1>6 DEF Tag
<1>7. CASE Tag(p) = "leaf"
  <2>1. p # <<>> /\ q # <<>> /\ Len(p) = 1 /\ Len(q) = 1
      BY <1>5, <1>7 DEF Tag
  <2>2. Root[p] = RootStep(Root, p) /\ Root[q] = RootStep(Root, q)
      BY RootUnfolds
  <2>3. Root[p] = Leaf(p[1]) /\ Root[q] = Leaf(q[1])
      BY <2>1, <2>2 DEF RootStep
  <2>4. p[1] = q[1]
      BY <1>4, <2>3, LeafIsInjective
  <2> QED BY <1>4, <2>1, <2>4
<1>8. CASE Tag(p) = "node"
  <2>1. Len(p) > 1 /\ Len(q) > 1 /\ Len(q) \in Nat
    <3>1. Len(p) # 0 /\ Len(p) # 1 /\ Len(q) # 0 /\ Len(q) # 1
        BY <1>5, <1>8 DEF Tag
    <3>2. \A i \in Nat : i # 0 /\ i # 1 => i > 1
        OBVIOUS
    <3>3. Len(p) \in Nat /\ Len(q) \in Nat
        OBVIOUS
    <3> QED BY <3>1, <3>2, <3>3
  <2> DEFINE k == Split(n)
             pl == SubSeq(p, 1, k)
             pr == SubSeq(p, k + 1, n)
             l == Split(Len(q))
             ql == SubSeq(q, 1, l)
             qr == SubSeq(q, l + 1, Len(q))
  <2>2. /\ k \in 1 .. n - 1
        /\ pl \in Seq(Hash) /\ Len(pl) = k
        /\ pr \in Seq(Hash) /\ Len(pr) = n - k
      BY <1>4, <2>1, Halves DEF Trees
  <2>3. /\ l \in 1 .. Len(q) - 1
        /\ ql \in Seq(Hash) /\ Len(ql) = l
        /\ qr \in Seq(Hash) /\ Len(qr) = Len(q) - l
      BY <2>1, Halves DEF Trees
  <2>4. Root[p] = Node(Root[pl], Root[pr]) /\ Root[q] = Node(Root[ql], Root[qr])
      BY <1>4, <2>1, RootOfHalves
  <2>5. /\ \A i \in 1 .. k : pl[i] = p[i]
        /\ \A i \in 1 .. n - k : pr[i] = p[k + i]
      BY <1>4, <2>1, HalvesHold
  <2>6. /\ \A i \in 1 .. l : ql[i] = q[i]
        /\ \A i \in 1 .. Len(q) - l : qr[i] = q[l + i]
      BY <2>1, HalvesHold
  <2> HIDE DEF k, pl, pr, l, ql, qr
  <2>7. Root[pl] = Root[ql] /\ Root[pr] = Root[qr]
    <3>1. Node(Root[pl], Root[pr]) = Node(Root[ql], Root[qr])
        BY <1>4, <2>4
    <3> QED BY <3>1, NodeIsInjective
  <2>8. pl = ql /\ pr = qr
    <3>1. k < n /\ n - k < n
        BY <1>4, <2>2
    <3> QED BY <1>3, <2>2, <2>3, <2>7, <3>1
  <2>9. k = l /\ Len(q) = n
    <3>1. k = l
        BY <2>2, <2>3, <2>8
    <3>2. n - k = Len(q) - l
        BY <2>2, <2>3, <2>8
    <3>3. \A a, b, c \in Int : a - c = b - c => a = b
        OBVIOUS
    <3>4. n \in Int /\ Len(q) \in Int /\ k \in Int
        BY <1>4, <2>1, <2>2
    <3> QED BY <3>1, <3>2, <3>3, <3>4
  <2>10. ASSUME NEW i \in 1 .. n PROVE p[i] = q[i]
    <3>1. CASE i <= k
        BY <2>2, <2>5, <2>6, <2>8, <2>9, <3>1
    <3>2. CASE i > k
      <4>1. i - k \in 1 .. n - k /\ k + (i - k) = i
          BY <1>4, <2>2, <3>2
      <4> QED BY <2>5, <2>6, <2>8, <2>9, <4>1
    <3> QED BY <1>4, <2>2, <3>1, <3>2
  <2> QED BY <1>4, <2>9, <2>10
<1> QED BY <1>6, <1>7, <1>8 DEF Tag

(* An audit path: none in a tree of one, and else one sibling behind the   *)
(* path in its half.                                                       *)
LEMMA PathsStep ==
    ASSUME NEW h \in Trees, NEW i \in 0 .. Len(h) - 1
    PROVE  LET k == Split(Len(h))
               l == SubSeq(h, 1, k)
               r == SubSeq(h, k + 1, Len(h))
           IN  /\ Len(h) = 1 => InclusionProof[h][i] = <<>>
               /\ Len(h) > 1 /\ i < k =>
                    InclusionProof[h][i] =
                      Append(InclusionProof[l][i], Root[r])
               /\ Len(h) > 1 /\ i >= k =>
                    InclusionProof[h][i] =
                      Append(InclusionProof[r][i - k], Root[l])
<1>1. InclusionProof[h] = ProofStep(InclusionProof, h)
    BY InclusionProofUnfolds
<1>2. Len(h) \in Nat
    BY DEF Trees
<1> DEFINE k == Split(Len(h))
           l == SubSeq(h, 1, k)
           r == SubSeq(h, k + 1, Len(h))
<1>3. InclusionProof[h][i] =
        IF Len(h) = 1 THEN <<>>
        ELSE IF i < k THEN Append(InclusionProof[l][i], Root[r])
                      ELSE Append(InclusionProof[r][i - k], Root[l])
    BY <1>1 DEF ProofStep, WithSibling
<1>4. Len(h) > 1 => k \in Nat /\ Len(h) # 1
  <2> SUFFICES ASSUME Len(h) > 1 PROVE k \in Nat /\ Len(h) # 1
      OBVIOUS
  <2>1. \A n \in Nat : n > 1 => n # 1
      OBVIOUS
  <2>2. k \in 1 .. Len(h) - 1
      BY <1>2, SplitIsBetween
  <2>3. k \in Nat
      BY <1>2, <2>2
  <2>4. Len(h) # 1
      BY <1>2, <2>1
  <2> QED BY <2>3, <2>4
<1> HIDE DEF k, l, r
<1>5. Len(h) = 1 => InclusionProof[h][i] = <<>>
    BY <1>3
<1>6. Len(h) > 1 /\ i < k =>
         InclusionProof[h][i] = Append(InclusionProof[l][i], Root[r])
    BY <1>3, <1>4
<1>7. Len(h) > 1 /\ i >= k =>
         InclusionProof[h][i] = Append(InclusionProof[r][i - k], Root[l])
  <2>1. i >= k /\ k \in Nat => ~(i < k)
      BY <1>2
  <2> QED BY <1>3, <1>4, <2>1
<1> QED BY <1>5, <1>6, <1>7 DEF k, l, r

Roots == {Root[h] : h \in Seq(Hash)}

(* Audit paths are lists of roots. *)
LEMMA PathsAreLists ==
    ASSUME NEW h \in Trees, NEW i \in 0 .. Len(h) - 1
    PROVE  InclusionProof[h][i] \in Seq(Roots)
<1> DEFINE Bad(g, j) == InclusionProof[g][j] \notin Seq(Roots)
           T == {n \in Nat : \E g \in Trees :
                    Len(g) = n /\ \E j \in 0 .. n - 1 : Bad(g, j)}
<1> SUFFICES ASSUME Bad(h, i) PROVE FALSE
    OBVIOUS
<1>1. PICK n \in T : \A m \in T : n <= m
  <2>1. Len(h) \in Nat
      BY DEF Trees
  <2>2. Len(h) \in T
      BY <2>1
  <2>3. T \in SUBSET Nat /\ T # {}
      BY <2>2
  <2> HIDE DEF T
  <2>4. \E x \in T : \A y \in T : x <= y
      BY <2>3, NatHasLeast
  <2> QED BY <2>4
<1>2. PICK g \in Trees : Len(g) = n /\ \E j \in 0 .. n - 1 : Bad(g, j)
    BY <1>1
<1>3. PICK j \in 0 .. n - 1 : Bad(g, j)
    BY <1>2
<1>4. n \in Nat /\ g \in Seq(Hash)
    BY DEF Trees
<1>5. ASSUME NEW s \in Trees, Len(s) < n, NEW e \in 0 .. Len(s) - 1
      PROVE  InclusionProof[s][e] \in Seq(Roots)
  <2>1. Len(s) \in Nat
      BY DEF Trees
  <2>2. Bad(s, e) => Len(s) \in T
      BY <2>1
  <2>3. Len(s) \notin T
    <3> HIDE DEF T
    <3> QED BY <1>1, <1>4, <1>5, <2>1
  <2> QED BY <2>2, <2>3
<1>6. InclusionProof[g][j] \notin Seq(Roots)
    BY <1>3
<1> HIDE DEF Bad, T
<1>7. CASE n = 1
  <2>1. InclusionProof[g][j] = <<>>
      BY <1>2, <1>7, PathsStep
  <2>2. <<>> \in Seq(Roots)
      OBVIOUS
  <2> QED BY <1>6, <2>1, <2>2
<1>8. CASE n > 1
  <2> DEFINE k == Split(n)
             l == SubSeq(g, 1, k)
             r == SubSeq(g, k + 1, n)
  <2>1. /\ k \in 1 .. n - 1 /\ l \in Trees /\ Len(l) = k
        /\ r \in Trees /\ Len(r) = n - k
      BY <1>2, <1>4, <1>8, Halves
  <2>2. Root[l] \in Roots /\ Root[r] \in Roots
      BY <2>1 DEF Roots, Trees
  <2>3. /\ j < k => InclusionProof[g][j] =
                      Append(InclusionProof[l][j], Root[r])
        /\ j >= k => InclusionProof[g][j] =
                       Append(InclusionProof[r][j - k], Root[l])
      BY <1>2, <1>8, PathsStep
  <2> HIDE DEF k, l, r
  <2>4. CASE j < k
    <3>1. InclusionProof[l][j] \in Seq(Roots)
        BY <1>4, <1>5, <2>1, <2>4
    <3>2. Append(InclusionProof[l][j], Root[r]) \in Seq(Roots)
        BY <2>2, <3>1
    <3> QED BY <1>6, <2>3, <2>4, <3>2
  <2>5. CASE j >= k
    <3>1. j - k \in 0 .. Len(r) - 1 /\ Len(r) < n
        BY <1>4, <2>1, <2>5
    <3>2. InclusionProof[r][j - k] \in Seq(Roots)
        BY <1>5, <2>1, <3>1
    <3>3. Append(InclusionProof[r][j - k], Root[l]) \in Seq(Roots)
        BY <2>2, <3>2
    <3> QED BY <1>6, <2>3, <2>5, <3>3
  <2> QED BY <1>4, <2>1, <2>4, <2>5
<1>9. n # 0
    BY <1>2, <1>4 DEF Trees
<1> QED BY <1>4, <1>7, <1>8, <1>9

Distinct(h) == \A a, b \in 1 .. Len(h) : h[a] = h[b] => a = b

(* The halves of a list of distinct hashes are two such lists, and differ. *)
LEMMA HalvesAreDistinct ==
    ASSUME NEW h \in Trees, Len(h) > 1, Distinct(h)
    PROVE  LET k == Split(Len(h))
               l == SubSeq(h, 1, k)
               r == SubSeq(h, k + 1, Len(h))
           IN  Distinct(l) /\ Distinct(r) /\ Root[l] # Root[r]
<1> DEFINE n == Len(h)
           k == Split(n)
           l == SubSeq(h, 1, k)
           r == SubSeq(h, k + 1, n)
<1>1. h \in Seq(Hash) /\ n \in Nat
    BY DEF Trees
<1>2. /\ k \in 1 .. n - 1 /\ l \in Seq(Hash) /\ Len(l) = k
      /\ r \in Seq(Hash) /\ Len(r) = n - k
    BY <1>1, Halves DEF Trees
<1>3. /\ \A i \in 1 .. k : l[i] = h[i]
      /\ \A i \in 1 .. n - k : r[i] = h[k + i]
    BY <1>1, HalvesHold
<1>4. \A a, b \in 1 .. n : h[a] = h[b] => a = b
    BY DEF Distinct
<1> HIDE DEF n, k, l, r
<1>5. Distinct(l)
    BY <1>1, <1>2, <1>3, <1>4 DEF Distinct
<1>6. Distinct(r)
  <2>1. ASSUME NEW a \in 1 .. n - k, NEW b \in 1 .. n - k, r[a] = r[b]
        PROVE  a = b
    <3>1. h[k + a] = h[k + b] /\ k + a \in 1 .. n /\ k + b \in 1 .. n
        BY <1>1, <1>2, <1>3, <2>1
    <3>2. k + a = k + b
        BY <1>4, <3>1
    <3> QED BY <1>2, <3>2
  <2> QED BY <1>2, <2>1 DEF Distinct
<1>7. Root[l] # Root[r]
  <2> SUFFICES ASSUME Root[l] = Root[r] PROVE FALSE
      OBVIOUS
  <2>1. l = r
      BY <1>2, RootDetermines
  <2>2. 1 \in 1 .. k /\ 1 \in 1 .. n - k /\ k + 1 \in 1 .. n /\ 1 \in 1 .. n
      BY <1>1, <1>2
  <2>3. h[1] = h[k + 1]
      BY <1>3, <2>1, <2>2
  <2> QED BY <1>2, <1>4, <2>2, <2>3
<1> QED BY <1>5, <1>6, <1>7 DEF n, k, l, r

(* Follows(g, i, proof): proof starts with the audit path of g's i-th.     *)
Follows(g, i, proof) ==
    LET path == InclusionProof[g][i]
    IN  /\ Len(path) <= Len(proof)
        /\ \A e \in 1 .. Len(path) : proof[e] = path[e]

(* ... and takes a hash at j to the root of g exactly if j is i and the    *)
(* hash is the one that is there.                                          *)
Exact(hash, f, g, i, j) ==
    f[Len(g)][j][Len(InclusionProof[g][i])] = Root[g]
      <=> j = i /\ hash = g[i + 1]

(* In a tree of one leaf. *)
LEMMA ExactAtLeaf ==
    ASSUME NEW hash, NEW proof, NEW f, Len(proof) \in Nat,
           \A m \in Nat \ {0} : f[m] = AboveStep(hash, proof, f, m),
           NEW g \in Trees, Len(g) = 1
    PROVE  Exact(hash, f, g, 0, 0)
<1>1. InclusionProof[g][0] = <<>> /\ Len(<<>>) = 0
    BY PathsStep
<1>2. f[1][0][0] = Leaf(hash)
  <2>1. f[1] = AboveStep(hash, proof, f, 1)
      OBVIOUS
  <2>2. 0 \in 0 .. 1 - 1 /\ 0 \in 0 .. Len(proof)
      OBVIOUS
  <2> QED BY <2>1, <2>2 DEF AboveStep
<1>3. Root[g] = Leaf(g[1])
  <2>1. Root[g] = RootStep(Root, g) /\ g # <<>>
      BY RootUnfolds DEF Trees
  <2> QED BY <2>1 DEF RootStep
<1>4. Leaf(hash) = Leaf(g[1]) <=> hash = g[1]
    BY LeafIsInjective
<1>5. f[Len(g)][0][Len(InclusionProof[g][0])] = Leaf(hash)
    BY <1>1, <1>2
<1> QED BY <1>3, <1>4, <1>5 DEF Exact

(* In a tree of more, if it is so in the half that i is in. *)
LEMMA ExactAtNode ==
    ASSUME NEW hash, NEW proof, NEW f, Len(proof) \in Nat,
           \A m \in Nat \ {0} : f[m] = AboveStep(hash, proof, f, m),
           NEW g \in Trees, Len(g) > 1, Distinct(g),
           NEW i \in 0 .. Len(g) - 1, NEW j \in 0 .. Len(g) - 1,
           Follows(g, i, proof),
           \A h \in Trees : \A a, b \in 0 .. Len(h) - 1 :
              Len(h) < Len(g) /\ Distinct(h) /\ Follows(h, a, proof)
                => Exact(hash, f, h, a, b)
    PROVE  Exact(hash, f, g, i, j)
<1> DEFINE n == Len(g)
           k == Split(n)
           l == SubSeq(g, 1, k)
           r == SubSeq(g, k + 1, n)
           path == InclusionProof[g][i]
           d == Len(path)
           sub == IF j < k THEN f[k][j][d - 1] ELSE f[n - k][j - k][d - 1]
<1>1. n \in Nat /\ n > 1 /\ n # 1 /\ g \in Seq(Hash)
  <2>1. n \in Nat
      BY DEF Trees
  <2>2. \A m \in Nat : m > 1 => m # 1
      OBVIOUS
  <2> QED BY <2>1, <2>2 DEF Trees
<1>2. /\ k \in 1 .. n - 1 /\ l \in Trees /\ Len(l) = k
      /\ r \in Trees /\ Len(r) = n - k
    BY <1>1, Halves
<1>3. /\ \A e \in 1 .. k : l[e] = g[e]
      /\ \A e \in 1 .. n - k : r[e] = g[k + e]
    BY <1>1, HalvesHold
<1>4. Root[g] = Node(Root[l], Root[r])
    BY <1>1, RootOfHalves
<1>5. Distinct(l) /\ Distinct(r) /\ Root[l] # Root[r]
    BY <1>1, HalvesAreDistinct
<1>6. Root[l] # NoRoot /\ Root[r] # NoRoot /\ Root[g] # NoRoot
    BY <1>2, RootsAreTagged DEF Trees
<1>7. d \in Nat /\ d <= Len(proof) /\ \A e \in 1 .. d : proof[e] = path[e]
  <2>1. path \in Seq(Roots)
      BY PathsAreLists
  <2> QED BY <2>1 DEF Follows
<1>8. f[n][j][d] = IF d = 0 \/ sub = NoRoot THEN NoRoot
                   ELSE IF j < k THEN Node(sub, proof[d])
                                 ELSE Node(proof[d], sub)
  <2>1. n \in Nat \ {0} /\ j \in 0 .. n - 1 /\ d \in 0 .. Len(proof)
      BY <1>1, <1>7
  <2>2. f[n] = AboveStep(hash, proof, f, n)
      BY <2>1
  <2> HIDE DEF path, d, n
  <2>3. f[n][j][d] = IF d = 0 THEN NoRoot
                     ELSE IF sub = NoRoot THEN NoRoot
                     ELSE IF j < k THEN Node(sub, proof[d])
                                   ELSE Node(proof[d], sub)
      BY <1>1, <2>1, <2>2 DEF AboveStep
  <2> HIDE DEF sub, k
  <2> QED BY <2>3
<1>9. i \in 0 .. n - 1 /\ j \in 0 .. n - 1
    OBVIOUS
<1>10. ASSUME NEW h \in Trees, Len(h) < n, Distinct(h),
              NEW a \in 0 .. Len(h) - 1, NEW b \in 0 .. Len(h) - 1,
              Follows(h, a, proof)
       PROVE  f[Len(h)][b][Len(InclusionProof[h][a])] = Root[h]
                <=> b = a /\ hash = h[a + 1]
    BY <1>10 DEF Exact
<1>11. /\ i < k => path = Append(InclusionProof[l][i], Root[r])
       /\ i >= k => path = Append(InclusionProof[r][i - k], Root[l])
    BY <1>1, PathsStep
<1>12. ASSUME NEW h \in Trees, NEW a \in 0 .. Len(h) - 1, NEW root,
              root \in Roots, path = Append(InclusionProof[h][a], root)
       PROVE  /\ Len(InclusionProof[h][a]) = d - 1 /\ d > 0
              /\ Follows(h, a, proof) /\ proof[d] = root
  <2> DEFINE p == InclusionProof[h][a]
  <2>1. p \in Seq(Roots)
      BY PathsAreLists
  <2> HIDE DEF p
  <2>2. path = Append(p, root)
      BY <1>12 DEF p
  <2>3. /\ Len(path) = Len(p) + 1 /\ Len(p) \in Nat
        /\ path[Len(p) + 1] = root
        /\ \A e \in 1 .. Len(p) : path[e] = p[e]
      BY <1>12, <2>1, <2>2
  <2>4. Len(p) = d - 1 /\ d > 0 /\ proof[d] = root
      BY <1>7, <2>3
  <2>5. Len(p) <= Len(proof) /\ \A e \in 1 .. Len(p) : proof[e] = p[e]
      BY <1>7, <2>3
  <2> QED BY <2>4, <2>5 DEF Follows, p
<1>13. Root[l] \in Roots /\ Root[r] \in Roots
    BY <1>2 DEF Roots, Trees
<1> HIDE DEF n, k, l, r, path, d, sub
<1>14. CASE i < k
  <2>1. /\ Len(InclusionProof[l][i]) = d - 1 /\ d > 0
        /\ Follows(l, i, proof) /\ proof[d] = Root[r]
    <3>1. i \in 0 .. Len(l) - 1
        BY <1>1, <1>2, <1>9, <1>14
    <3> QED BY <1>2, <1>11, <1>12, <1>13, <1>14, <3>1
  <2>2. CASE j < k
    <3>1. f[k][j][d - 1] = Root[l] <=> j = i /\ hash = l[i + 1]
      <4>1. /\ i \in 0 .. Len(l) - 1 /\ j \in 0 .. Len(l) - 1
            /\ Len(l) < n
          BY <1>1, <1>2, <1>9, <1>14, <2>2
      <4>2. f[Len(l)][j][Len(InclusionProof[l][i])] = Root[l]
              <=> j = i /\ hash = l[i + 1]
          BY <1>2, <1>5, <1>10, <2>1, <4>1
      <4> QED BY <1>2, <2>1, <4>2
    <3>2. sub = f[k][j][d - 1]
        BY <2>2 DEF sub
    <3>3. f[n][j][d] = IF sub = NoRoot THEN NoRoot ELSE Node(sub, Root[r])
        BY <1>8, <2>1, <2>2
    <3>4. f[n][j][d] = Root[g] <=> sub = Root[l]
        BY <1>4, <1>6, <3>3, NodeIsInjective
    <3>5. l[i + 1] = g[i + 1]
        BY <1>2, <1>3, <1>9, <1>14
    <3> QED BY <3>1, <3>2, <3>4, <3>5 DEF Exact, n, d, path
  <2>3. CASE ~(j < k)
    <3>1. f[n][j][d] = IF sub = NoRoot THEN NoRoot ELSE Node(Root[r], sub)
        BY <1>8, <2>1, <2>3
    <3>2. f[n][j][d] # Root[g]
        BY <1>4, <1>5, <1>6, <3>1, NodeIsInjective
    <3>3. j # i
        BY <1>14, <2>3
    <3> QED BY <3>2, <3>3 DEF Exact, n, d, path
  <2> QED BY <2>2, <2>3
<1>15. CASE ~(i < k)
  <2>1. i - k \in 0 .. Len(r) - 1 /\ i >= k
      BY <1>1, <1>2, <1>9, <1>15
  <2>2. /\ Len(InclusionProof[r][i - k]) = d - 1 /\ d > 0
        /\ Follows(r, i - k, proof) /\ proof[d] = Root[l]
      BY <1>2, <1>11, <1>12, <1>13, <2>1
  <2>3. CASE j < k
    <3>1. f[n][j][d] = IF sub = NoRoot THEN NoRoot ELSE Node(sub, Root[l])
        BY <1>8, <2>2, <2>3
    <3>2. f[n][j][d] # Root[g]
        BY <1>4, <1>5, <1>6, <3>1, NodeIsInjective
    <3>3. j # i
        BY <1>15, <2>3
    <3> QED BY <3>2, <3>3 DEF Exact, n, d, path
  <2>4. CASE ~(j < k)
    <3>1. j - k \in 0 .. Len(r) - 1 /\ Len(r) < n
        BY <1>1, <1>2, <1>9, <2>4
    <3>2. f[n - k][j - k][d - 1] = Root[r]
            <=> j - k = i - k /\ hash = r[i - k + 1]
      <4>1. f[Len(r)][j - k][Len(InclusionProof[r][i - k])] = Root[r]
              <=> j - k = i - k /\ hash = r[i - k + 1]
          BY <1>2, <1>5, <1>10, <2>1, <2>2, <3>1
      <4> QED BY <1>2, <2>2, <4>1
    <3>3. sub = f[n - k][j - k][d - 1]
        BY <2>4 DEF sub
    <3>4. f[n][j][d] = IF sub = NoRoot THEN NoRoot ELSE Node(Root[l], sub)
        BY <1>8, <2>2, <2>4
    <3>5. f[n][j][d] = Root[g] <=> sub = Root[r]
        BY <1>4, <1>6, <3>4, NodeIsInjective
    <3>6. r[i - k + 1] = g[i + 1]
      <4>1. i - k + 1 \in 1 .. n - k /\ k + (i - k + 1) = i + 1
          BY <1>1, <1>2, <1>9, <2>1
      <4> QED BY <1>3, <4>1
    <3>7. j - k = i - k <=> j = i
        BY <1>1, <1>2, <1>9
    <3> QED BY <3>2, <3>3, <3>5, <3>6, <3>7 DEF Exact, n, d, path
  <2> QED BY <2>3, <2>4
<1> QED BY <1>14, <1>15

(* In every tree of distinct hashes. *)
LEMMA PathsAreExact ==
    ASSUME NEW hash, NEW proof, NEW f, Len(proof) \in Nat,
           \A m \in Nat \ {0} : f[m] = AboveStep(hash, proof, f, m),
           NEW g \in Trees, Distinct(g),
           NEW i \in 0 .. Len(g) - 1, NEW j \in 0 .. Len(g) - 1,
           Follows(g, i, proof)
    PROVE  Exact(hash, f, g, i, j)
<1> DEFINE Bad(h, a, b) == /\ Distinct(h) /\ Follows(h, a, proof)
                           /\ ~Exact(hash, f, h, a, b)
           T == {n \in Nat : \E h \in Trees :
                   Len(h) = n /\ \E a, b \in 0 .. n - 1 : Bad(h, a, b)}
<1> SUFFICES ASSUME Bad(g, i, j) PROVE FALSE
    OBVIOUS
<1>1. PICK n \in T : \A m \in T : n <= m
  <2>1. Len(g) \in Nat
      BY DEF Trees
  <2>2. Len(g) \in T
      BY <2>1
  <2>3. T \in SUBSET Nat /\ T # {}
      BY <2>2
  <2> HIDE DEF T
  <2>4. \E x \in T : \A y \in T : x <= y
      BY <2>3, NatHasLeast
  <2> QED BY <2>4
<1>2. PICK h \in Trees :
          Len(h) = n /\ \E a, b \in 0 .. n - 1 : Bad(h, a, b)
    BY <1>1
<1>3. PICK a \in 0 .. n - 1, b \in 0 .. n - 1 : Bad(h, a, b)
    BY <1>2
<1>4. n \in Nat /\ n # 0
    BY <1>2 DEF Trees
<1>5. ASSUME NEW s \in Trees, NEW c \in 0 .. Len(s) - 1,
             NEW e \in 0 .. Len(s) - 1, Len(s) < n
      PROVE  ~Bad(s, c, e)
  <2>1. Len(s) \in Nat
      BY DEF Trees
  <2>2. Bad(s, c, e) => Len(s) \in T
      BY <2>1
  <2>3. Len(s) \notin T
    <3> HIDE DEF T
    <3> QED BY <1>1, <1>4, <1>5, <2>1
  <2> QED BY <2>2, <2>3
<1>6. Distinct(h) /\ Follows(h, a, proof) /\ ~Exact(hash, f, h, a, b)
    BY <1>3
<1>7. \A s \in Trees : \A c, e \in 0 .. Len(s) - 1 :
         Len(s) < n /\ Distinct(s) /\ Follows(s, c, proof)
           => Exact(hash, f, s, c, e)
    BY <1>5
<1> HIDE DEF Bad, T
<1>8. CASE n = 1
  <2>1. a = 0 /\ b = 0
      BY <1>8
  <2> QED BY <1>2, <1>6, <1>8, <2>1, ExactAtLeaf
<1>9. CASE n > 1
  <2>1. Len(h) > 1 /\ a \in 0 .. Len(h) - 1 /\ b \in 0 .. Len(h) - 1
      BY <1>2, <1>9
  <2>2. \A s \in Trees : \A c, e \in 0 .. Len(s) - 1 :
           Len(s) < Len(h) /\ Distinct(s) /\ Follows(s, c, proof)
             => Exact(hash, f, s, c, e)
      BY <1>2, <1>7
  <2>3. Exact(hash, f, h, a, b)
      BY <1>6, <2>1, <2>2, ExactAtNode
  <2> QED BY <1>6, <2>3
<1> QED BY <1>4, <1>8, <1>9

(* Against the root and the size of a tree of distinct entries, however    *)
(* large, the audit path of an index proves the entry there to be there,   *)
(* and nothing else.                                                       *)
THEOREM InclusionIsExact ==
    ASSUME NEW g \in Trees, Distinct(g), NEW i \in 0 .. Len(g) - 1,
           NEW hash, NEW j \in Nat
    PROVE  VerifyInclusion(hash, j, Len(g), InclusionProof[g][i], Root[g])
             <=> j = i /\ hash = g[i + 1]
<1> DEFINE path == InclusionProof[g][i]
<1>1. path \in Seq(Roots) /\ Len(path) \in Nat
    BY PathsAreLists
<1>2. Len(g) \in Nat
    BY DEF Trees
<1>3. Follows(g, i, path)
    BY <1>1 DEF Follows
<1> HIDE DEF path
<1>4. PICK f : /\ \A n \in Nat \ {0} : f[n] = AboveStep(hash, path, f, n)
               /\ \A index, size, root :
                     VerifyInclusion(hash, index, size, path, root)
                       <=> index < size /\ f[size][index][Len(path)] = root
    BY VerifyUnfolds
<1>5. VerifyInclusion(hash, j, Len(g), path, Root[g])
        <=> j < Len(g) /\ f[Len(g)][j][Len(path)] = Root[g]
    BY <1>4
<1>6. CASE j < Len(g)
  <2>1. j \in 0 .. Len(g) - 1
      BY <1>2, <1>6
  <2>2. Exact(hash, f, g, i, j)
      BY <1>1, <1>3, <1>4, <2>1, PathsAreExact
  <2> QED BY <1>5, <1>6, <2>2 DEF Exact, path
<1>7. CASE ~(j < Len(g))
  <2>1. j # i
      BY <1>2, <1>7
  <2> QED BY <1>5, <1>7, <2>1 DEF path
<1> QED BY <1>6, <1>7

(* In the words of Merkle's own definition. *)
LEMMA InclusionExactAlways == ASSUME NEW most \in Nat PROVE InclusionExact(most)
<1> DEFINE tree == [n \in 1 .. most |-> [i \in 1 .. n |-> <<i>>]]
<1>1. ASSUME NEW n \in 1 .. most, NEW i \in 0 .. most - 1,
             NEW j \in 0 .. most - 1, NEW h \in 0 .. most - 1, i < n
      PROVE  VerifyInclusion(<<h + 1>>, j, n, InclusionProof[tree[n]][i],
                             Root[tree[n]])
               <=> h = i /\ j = i
  <2> DEFINE g == [e \in 1 .. n |-> <<e>>]
  <2>1. tree[n] = g
      OBVIOUS
  <2>2. g \in Seq(Hash) /\ Len(g) = n
      BY DEF Hash
  <2>3. g \in Trees /\ Distinct(g)
    <3>1. \A a, b \in 1 .. n : <<a>> = <<b>> => a = b
        OBVIOUS
    <3>2. n # 0 /\ Len(<<>>) = 0
        OBVIOUS
    <3> QED BY <2>2, <3>1, <3>2 DEF Trees, Distinct
  <2>4. g[i + 1] = <<i + 1>>
      BY <1>1
  <2>5. <<h + 1>> = <<i + 1>> <=> h = i
      OBVIOUS
  <2>6. i \in 0 .. Len(g) - 1 /\ j \in Nat
      BY <1>1, <2>2
  <2> HIDE DEF g, tree
  <2>7. VerifyInclusion(<<h + 1>>, j, Len(g), InclusionProof[g][i], Root[g])
          <=> j = i /\ <<h + 1>> = g[i + 1]
      BY <2>3, <2>6, InclusionIsExact
  <2> QED BY <2>1, <2>2, <2>4, <2>5, <2>7
<1> QED BY <1>1 DEF InclusionExact

(* Before the first call and for whatever bound, what the run checks. *)
THEOREM InclusionProofsAreExactHolds == Spec => []InclusionProofsAreExact
<1>1. InclusionProofsAreExact
    BY InclusionExactAlways, BoundsAssumption DEF InclusionProofsAreExact
<1> QED BY <1>1, PTL

-----------------------------------------------------------------------------
(***************************************************************************)
(* Losses.  After a failover an audit has the root alone to go by.  One    *)
(* leaf that can never be in the log again, the last one the checkpoint    *)
(* covers, tells every later log from the one it was made of.              *)
(***************************************************************************)

(* The leaves of a log, gaps or none.  How many seqs of S are below s: *)
Rank(S, s) == Cardinality({r \in S : r < s})

(* Some seq has any rank there is. *)
LEMMA RanksAreTaken ==
    ASSUME NEW S, S \subseteq Nat, IsFiniteSet(S), Topped(S),
           NEW i \in 1 .. Cardinality(S)
    PROVE  \E s \in S : Rank(S, s) = i - 1
<1> DEFINE below(s) == {r \in S : r < s}
           T == {s \in S : Rank(S, s) >= i - 1}
<1>1. Cardinality(S) \in Nat
    BY FS_CardinalityType
<1>2. \A s \in S : below(s) \in SUBSET S /\ IsFiniteSet(below(s))
    BY FS_Subset
<1>3. \A s \in S : Rank(S, s) = Cardinality(below(s)) /\ Rank(S, s) \in Nat
    BY <1>2, FS_CardinalityType DEF Rank
<1> HIDE DEF below
<1>4. ASSUME NEW s \in S, NEW A \in SUBSET S, s \notin A,
             \A r \in A : r < s, \A r \in S : r < s => r \in A
      PROVE  Rank(S, s) = Cardinality(A)
  <2>1. below(s) = A
      BY <1>4 DEF below
  <2> QED BY <1>3, <2>1
<1>5. T \in SUBSET Nat /\ T # {}
  <2>1. S # {}
      BY FS_EmptySet
  <2>2. PICK s \in S : \A r \in S : r <= s
      BY <2>1 DEF Topped
  <2>3. Rank(S, s) = Cardinality(S \ {s})
      BY <1>4, <2>2
  <2>4. Cardinality(S \ {s}) = Cardinality(S) - 1
      BY <2>2, FS_RemoveElement
  <2>5. Rank(S, s) >= i - 1
      BY <1>1, <2>3, <2>4
  <2>6. s \in T
      BY <2>5
  <2> QED BY <2>6
<1>6. PICK s \in T : \A r \in T : s <= r
  <2> HIDE DEF T
  <2>1. \E x \in T : \A y \in T : x <= y
      BY <1>5, NatHasLeast
  <2> QED BY <2>1
<1>7. s \in S /\ s \in Nat /\ Rank(S, s) \in Nat /\ Rank(S, s) >= i - 1
    BY <1>3
<1>8. ASSUME Rank(S, s) > i - 1 PROVE FALSE
  <2>1. below(s) # {} /\ below(s) \in SUBSET S
      BY <1>2, <1>3, <1>7, <1>8, FS_EmptySet
  <2>2. PICK p \in below(s) : \A r \in below(s) : r <= p
      BY <2>1 DEF Topped
  <2>3. p \in S /\ p < s /\ p \in Nat
      BY DEF below
  <2>4. Rank(S, p) = Cardinality(below(s) \ {p})
    <3>1. below(s) \ {p} \in SUBSET S /\ p \notin below(s) \ {p}
        BY <2>1
    <3>2. \A r \in below(s) \ {p} : r < p
        BY <2>1, <2>2, <2>3
    <3>3. \A r \in S : r < p => r \in below(s) \ {p}
        BY <1>7, <2>3 DEF below
    <3> QED BY <1>4, <2>3, <3>1, <3>2, <3>3
  <2>5. Cardinality(below(s) \ {p}) = Rank(S, s) - 1
    <3>1. Cardinality(below(s) \ {p}) = Cardinality(below(s)) - 1
        BY <1>2, <1>7, <2>2, FS_RemoveElement
    <3> QED BY <1>3, <1>7, <3>1
  <2>6. p \in T
      BY <1>7, <1>8, <2>3, <2>4, <2>5
  <2> QED BY <1>6, <1>7, <2>3, <2>6
<1> QED BY <1>7, <1>8

(* The leaves are hashes of entries, and the last is at a seq no lower     *)
(* than it would have without gaps.                                        *)
LEMMA LeavesAreHashes ==
    ASSUME TypeOK, Topped(Seqs)
    PROVE  /\ Leaves \in Seq(Hash) /\ Len(Leaves) = Cardinality(Seqs)
           /\ Cardinality(Seqs) \in Nat
           /\ Cardinality(Seqs) > 0 =>
                \E s \in Seqs :
                   /\ s >= Cardinality(Seqs) - 1
                   /\ Leaves[Cardinality(Seqs)] = EntryHash(log[s])
<1> DEFINE n == Cardinality(Seqs)
<1>1. n \in Nat /\ Seqs \subseteq Nat /\ IsFiniteSet(Seqs)
    BY FS_CardinalityType DEF TypeOK
<1>2. ASSUME NEW i \in 1 .. n
      PROVE  Nth(i) \in Seqs /\ Rank(Seqs, Nth(i)) = i - 1
  <2>1. \E s \in Seqs : Rank(Seqs, s) = i - 1
      BY <1>1, RanksAreTaken
  <2> QED BY <2>1 DEF Nth, Rank
<1>3. \A s \in Seqs : EntryHash(log[s]) \in Hash
    BY DEF TypeOK, IsEntry, EntryHash, Hash
<1>4. Leaves = [i \in 1 .. n |-> EntryHash(log[Nth(i)])]
    BY DEF Leaves
<1>5. Leaves \in Seq(Hash) /\ Len(Leaves) = n
  <2>1. \A i \in 1 .. n : EntryHash(log[Nth(i)]) \in Hash
      BY <1>2, <1>3
  <2> HIDE DEF n
  <2> QED BY <1>1, <1>4, <2>1
<1>6. ASSUME n > 0
      PROVE  Nth(n) >= n - 1 /\ Leaves[n] = EntryHash(log[Nth(n)])
  <2>1. n \in 1 .. n
      BY <1>1, <1>6
  <2>2. Nth(n) \in Nat /\ Rank(Seqs, Nth(n)) = n - 1
      BY <1>1, <1>2, <2>1
  <2>3. Rank(Seqs, Nth(n)) <= Nth(n)
    <3> DEFINE m == Nth(n)
    <3> HIDE DEF m, n
    <3>1. m \in Nat /\ 0 \in Int /\ m - 1 \in Int
        BY <2>2 DEF m
    <3>2. {r \in Seqs : r < m} \in SUBSET (0 .. m - 1)
      <4>1. \A r \in Seqs : r \in Nat
          BY <1>1
      <4> QED BY <3>1, <4>1
    <3>3. /\ IsFiniteSet(0 .. m - 1)
          /\ Cardinality(0 .. m - 1) =
               IF 0 > m - 1 THEN 0 ELSE (m - 1) - 0 + 1
        BY <3>1, FS_Interval
    <3>4. Cardinality({r \in Seqs : r < m}) <= Cardinality(0 .. m - 1)
        BY <3>2, <3>3, FS_Subset
    <3>5. Cardinality(0 .. m - 1) = m
        BY <3>1, <3>3
    <3>6. Rank(Seqs, m) = Cardinality({r \in Seqs : r < m})
        BY DEF Rank
    <3> QED BY <3>4, <3>5, <3>6 DEF m
  <2> HIDE DEF n
  <2> QED BY <1>1, <1>4, <2>1, <2>2, <2>3
<1>7. n > 0 => n \in 1 .. n
    BY <1>1
<1>8. n > 0 => \E s \in Seqs : s >= n - 1 /\ Leaves[n] = EntryHash(log[s])
    BY <1>2, <1>6, <1>7
<1> QED BY <1>1, <1>5, <1>8

-----------------------------------------------------------------------------
InFlight == {t \in Tasks : pc[t] # "idle"}

(* A call is written once at most, and not after its task is done with it. *)
CallsAreUnique ==
    /\ \A s, r \in Seqs : log[s].event.id = log[r].event.id => s = r
    /\ \A s \in Seqs : log[s].event.id \in 1 .. calls
    /\ \A t \in InFlight :
        /\ draft[t].event.id \in 1 .. calls
        /\ \A s \in Seqs : log[s].event.id # draft[t].event.id
        /\ \A u \in InFlight : draft[u].event.id = draft[t].event.id => u = t

(* The call is neither in the log nor on its way to it, and never will be. *)
Dead(id) ==
    /\ id \in 1 .. calls
    /\ \A s \in Seqs : log[s].event.id # id
    /\ \A t \in InFlight : draft[t].event.id # id

(* The call is in the log, where an n-th entry can be. *)
InPlace(id, n) == \E s \in Seqs : s >= n - 1 /\ log[s].event.id = id

(* The last call of the last leaf. *)
Tip(hashes) ==
    LET last == hashes[Len(hashes)]
    IN  last[Len(last)]

Commits(cp, hashes) ==
    hashes \in Seq(Hash) /\ Len(hashes) = cp.size /\ Root[hashes] = cp.root

(* A checkpoint commits to leaves the last of which is in the log, or was  *)
(* taken from it for good.                                                 *)
Grounded(cp) ==
    \/ cp = NoCheckpoint
    \/ \E hashes \in Seq(Hash) :
        /\ Commits(cp, hashes)
        /\ cp.size > 0 => \/ InPlace(Tip(hashes), cp.size)
                          \/ Dead(Tip(hashes))

(* ... and was taken from it. *)
Orphaned(cp) ==
    \E hashes \in Seq(Hash) :
        Commits(cp, hashes) /\ cp.size > 0 /\ Dead(Tip(hashes))

(* The checkpoints that somebody holds, or that are on their way. *)
Held == pinned \cup {draft[t].event.cp : t \in InFlight}

Losses ==
    /\ CallsAreUnique
    /\ \A cp \in Held : Grounded(cp)
    /\ \A cp \in lost : Orphaned(cp)
    /\ audit.doomed => audit.trusted \in lost
    /\ LossIsReported

(* A checkpoint whose last call is dead fits no log any more. *)
LEMMA OrphansDoNotFit ==
    ASSUME TypeOK, NEW cp, Orphaned(cp) PROVE ~Consistent(cp)
<1> SUFFICES ASSUME Consistent(cp) PROVE FALSE
    OBVIOUS
<1>1. PICK hashes \in Seq(Hash) :
          Commits(cp, hashes) /\ cp.size > 0 /\ Dead(Tip(hashes))
    BY DEF Orphaned
<1> DEFINE n == cp.size
           leaves == LeavesIn(log, n)
<1>2. n \in Nat /\ n > 0 /\ Len(hashes) = n /\ Root[hashes] = cp.root
    BY <1>1 DEF Commits
<1>3. Holds(log, cp)
    BY ConsistentHolds
<1>4. DOMAIN log \subseteq Nat
    BY DEF TypeOK, Seqs
<1>5. 0 .. n - 1 \subseteq DOMAIN log
    BY <1>2, <1>3, <1>4, HoldsMeansFull
<1>6. leaves = [i \in 1 .. n |-> EntryHash(log[i - 1])] /\ Len(leaves) = n
    BY <1>2, <1>4, <1>5, LeavesOfFull
<1>7. \A i \in 1 .. n : i - 1 \in Seqs /\ EntryHash(log[i - 1]) \in Hash
  <2>1. \A s \in Seqs : EntryHash(log[s]) \in Hash
      BY DEF TypeOK, IsEntry, EntryHash, Hash
  <2>2. \A i \in 1 .. n : i - 1 \in Seqs
      BY <1>2, <1>5 DEF Seqs
  <2> QED BY <2>1, <2>2
<1>8. leaves \in Seq(Hash)
  <2> HIDE DEF leaves, n
  <2> QED BY <1>2, <1>6, <1>7
<1>9. Root[leaves] = cp.root
    BY <1>3 DEF Holds
<1>10. leaves = hashes
  <2> HIDE DEF leaves, n
  <2> QED BY <1>2, <1>6, <1>8, <1>9, RootDetermines
<1>11. hashes[n] = EntryHash(log[n - 1]) /\ n - 1 \in Seqs
  <2> HIDE DEF leaves, n
  <2> QED BY <1>2, <1>6, <1>7, <1>10
<1>12. Tip(hashes) = log[n - 1].event.id
  <2>1. log[n - 1].prev_hash \in Seq(Nat) /\ log[n - 1].event.id \in Nat
      BY <1>11 DEF TypeOK, IsEntry, Hash
  <2> HIDE DEF n
  <2> QED BY <1>2, <1>11, <2>1 DEF Tip, EntryHash
<1> QED BY <1>1, <1>11, <1>12 DEF Dead

(* What checkpoint() builds is grounded. *)
LEMMA BuiltIsGrounded ==
    ASSUME TypeOK, Topped(Seqs) PROVE Grounded(BuildCheckpoint(Leaves))
<1> DEFINE n == Cardinality(Seqs)
           cp == BuildCheckpoint(Leaves)
<1>1. Leaves \in Seq(Hash) /\ Len(Leaves) = n /\ n \in Nat
    BY LeavesAreHashes
<1>2. cp.size = n /\ Commits(cp, Leaves)
    BY <1>1 DEF BuildCheckpoint, Commits
<1>3. ASSUME n > 0 PROVE InPlace(Tip(Leaves), n)
  <2>1. PICK s \in Seqs :
            s >= n - 1 /\ Leaves[n] = EntryHash(log[s])
      BY <1>3, LeavesAreHashes
  <2>2. log[s].prev_hash \in Seq(Nat) /\ log[s].event.id \in Nat
      BY DEF TypeOK, IsEntry, Hash
  <2>3. Tip(Leaves) = log[s].event.id
    <3> HIDE DEF n
    <3> QED BY <1>1, <2>1, <2>2 DEF Tip, EntryHash
  <2> QED BY <2>1, <2>3 DEF InPlace
<1> HIDE DEF n, cp
<1>4. Grounded(cp)
    BY <1>1, <1>2, <1>3 DEF Grounded
<1> QED BY <1>4 DEF cp

(* How a step may treat calls: an entry that is new in the log was in      *)
(* flight, and what is in flight was so before or is a new call.           *)
CallsMoveOn ==
    /\ calls' \in Nat /\ calls <= calls'
    /\ \A s \in Seqs' :
          \/ s \in Seqs /\ log'[s] = log[s]
          \/ \E t \in InFlight : log'[s].event.id = draft[t].event.id
    /\ \A t \in InFlight' :
          \/ \E u \in InFlight : draft'[t].event.id = draft[u].event.id
          \/ draft'[t].event.id = calls + 1

(* The dead stay dead. *)
LEMMA DeadForGood ==
    ASSUME TypeOK, CallsMoveOn, NEW id, Dead(id) PROVE Dead(id)'
<1>1. id \in 1 .. calls /\ calls \in Nat
    BY DEF Dead, TypeOK
<1>2. id \in 1 .. calls'
    BY <1>1 DEF CallsMoveOn
<1>3. \A s \in Seqs' : log'[s].event.id # id
    BY DEF Dead, CallsMoveOn
<1>4. \A t \in InFlight' : draft'[t].event.id # id
    BY <1>1 DEF Dead, CallsMoveOn
<1> QED BY <1>2, <1>3, <1>4 DEF Dead

(* A checkpoint over a dead call stays one. *)
LEMMA OrphansStayOrphans ==
    ASSUME TypeOK, CallsMoveOn, NEW cp, Orphaned(cp) PROVE Orphaned(cp)'
<1>1. PICK hashes \in Seq(Hash) :
          Commits(cp, hashes) /\ cp.size > 0 /\ Dead(Tip(hashes))
    BY DEF Orphaned
<1>2. Dead(Tip(hashes))'
  <2> DEFINE id == Tip(hashes)
  <2>1. Dead(id)
      BY <1>1
  <2> HIDE DEF id
  <2>2. Dead(id)'
      BY <2>1, DeadForGood
  <2> QED BY <2>2 DEF id
<1> QED BY <1>1, <1>2 DEF Orphaned

(* While the log loses nothing, a grounded checkpoint stays so. *)
LEMMA GroundedStays ==
    ASSUME TypeOK, CallsMoveOn,
           \A s \in Seqs : s \in Seqs' /\ log'[s] = log[s],
           NEW cp, Grounded(cp)
    PROVE  Grounded(cp)'
<1>1. CASE cp = NoCheckpoint
    BY <1>1 DEF Grounded
<1>2. CASE cp # NoCheckpoint
  <2>1. PICK hashes \in Seq(Hash) :
            /\ Commits(cp, hashes)
            /\ cp.size > 0 => \/ InPlace(Tip(hashes), cp.size)
                              \/ Dead(Tip(hashes))
      BY <1>2 DEF Grounded
  <2> DEFINE id == Tip(hashes)
  <2>2. cp.size > 0 => InPlace(id, cp.size) \/ Dead(id)
      BY <2>1
  <2> HIDE DEF id
  <2>3. InPlace(id, cp.size) => InPlace(id, cp.size)'
      BY DEF InPlace
  <2>4. Dead(id) => Dead(id)'
      BY DeadForGood
  <2>5. cp.size > 0 => InPlace(Tip(hashes), cp.size)' \/ Dead(Tip(hashes))'
      BY <2>2, <2>3, <2>4 DEF id
  <2> QED BY <2>1, <2>5 DEF Grounded
<1> QED BY <1>1, <1>2

(* A task's step moves calls on and takes nothing from the log, and calls  *)
(* stay unique; what is held after it was held before, or has just been    *)
(* built.                                                                  *)
LEMMA TaskMovesCallsOn ==
    ASSUME TypeOK, Topped(Seqs), CallsAreUnique, NEW t \in Tasks, TaskStep(t)
    PROVE  /\ CallsMoveOn /\ CallsAreUnique'
           /\ \A s \in Seqs : s \in Seqs' /\ log'[s] = log[s]
           /\ \A cp \in Held' : \/ cp \in Held \/ cp = NoCheckpoint
                                \/ cp = BuildCheckpoint(Leaves)
           /\ UNCHANGED <<lost, audit>>
<1>1. calls \in Nat /\ DOMAIN pc = Tasks /\ DOMAIN draft = Tasks
    BY DEF TypeOK
<1>2. ASSUME NEW cp, Enter(t, cp)
      PROVE  /\ CallsMoveOn /\ CallsAreUnique'
             /\ log' = log /\ Seqs' = Seqs
             /\ \A c \in Held' : c \in Held \/ c = cp
  <2>1. InFlight' = InFlight \cup {t} /\ t \notin InFlight
      BY <1>1, <1>2 DEF Enter, InFlight
  <2>2. /\ draft'[t].event.id = calls + 1 /\ draft'[t].event.cp = cp
        /\ \A u \in InFlight : draft'[u] = draft[u]
      BY <1>1, <1>2, <2>1 DEF Enter, Genesis, Event, InFlight
  <2>3. calls' = calls + 1 /\ log' = log /\ Seqs' = Seqs /\ pinned' = pinned
      BY <1>2 DEF Enter, Seqs
  <2>4. CallsMoveOn
      BY <1>1, <2>1, <2>2, <2>3 DEF CallsMoveOn
  <2>5. /\ \A s \in Seqs : log[s].event.id \in Nat /\ log[s].event.id <= calls
        /\ \A u \in InFlight :
              draft[u].event.id \in Nat /\ draft[u].event.id <= calls
      BY <1>1 DEF CallsAreUnique
  <2>6. CallsAreUnique'
      BY <1>1, <2>1, <2>2, <2>3, <2>5 DEF CallsAreUnique
  <2>7. \A c \in Held' : c \in Held \/ c = cp
      BY <2>1, <2>2, <2>3 DEF Held
  <2> QED BY <2>3, <2>4, <2>6, <2>7
<1>3. ASSUME log' = log, calls' = calls, pinned' = pinned,
             InFlight' \subseteq InFlight,
             \A u \in InFlight' : draft'[u].event = draft[u].event
      PROVE  /\ CallsMoveOn /\ CallsAreUnique'
             /\ Seqs' = Seqs /\ Held' \subseteq Held
  <2>1. Seqs' = Seqs
      BY <1>3 DEF Seqs
  <2>2. CallsMoveOn
      BY <1>1, <1>3, <2>1 DEF CallsMoveOn
  <2>3. CallsAreUnique'
      BY <1>3, <2>1 DEF CallsAreUnique
  <2>4. Held' \subseteq Held
      BY <1>3 DEF Held
  <2> QED BY <2>1, <2>2, <2>3, <2>4
<1>4. ASSUME End(t)
      PROVE  /\ InFlight' = InFlight \ {t}
             /\ \A u \in InFlight' : draft'[u] = draft[u]
    BY <1>1, <1>4 DEF End, InFlight
<1>5. ASSUME pc[t] = "append", Insert(draft[t]), End(t), calls' = calls,
             pinned' = pinned \cup Returned(draft[t].event) \/ pinned' = pinned
      PROVE  /\ CallsMoveOn /\ CallsAreUnique'
             /\ \A s \in Seqs : s \in Seqs' /\ log'[s] = log[s]
             /\ Held' \subseteq Held
  <2> DEFINE e == draft[t]
  <2>1. IsEntry(e) /\ t \in InFlight
      BY <1>1, <1>5 DEF TypeOK, InFlight
  <2>2. Seqs' = Seqs \cup {e.seq} /\ e.seq \notin Seqs
      BY <1>5, <2>1, InsertTyped DEF Insert
  <2>3. log'[e.seq] = e /\ \A s \in Seqs : log'[s] = log[s]
      BY <1>5, <2>2 DEF Insert
  <2>4. /\ InFlight' = InFlight \ {t}
        /\ \A u \in InFlight' : draft'[u] = draft[u]
      BY <1>4, <1>5
  <2>5. t \in InFlight /\ e = draft[t]
      BY <2>1
  <2> HIDE DEF e
  <2>6. CallsMoveOn
      BY <1>1, <1>5, <2>2, <2>3, <2>4, <2>5 DEF CallsMoveOn
  <2>7. CallsAreUnique'
    <3>1. /\ \A s, r \in Seqs' :
                log'[s].event.id = log'[r].event.id => s = r
          /\ \A s \in Seqs' : log'[s].event.id \in 1 .. calls'
        BY <1>5, <2>2, <2>3, <2>5 DEF CallsAreUnique
    <3>2. ASSUME NEW u \in InFlight'
          PROVE  /\ draft'[u].event.id \in 1 .. calls'
                 /\ \A s \in Seqs' : log'[s].event.id # draft'[u].event.id
                 /\ \A v \in InFlight' :
                       draft'[v].event.id = draft'[u].event.id => v = u
        BY <1>5, <2>2, <2>3, <2>4, <2>5 DEF CallsAreUnique
    <3> QED BY <3>1, <3>2 DEF CallsAreUnique
  <2>8. Held' \subseteq Held
    <3>1. \A cp \in Returned(e.event) : cp = e.event.cp
        BY DEF Returned
    <3>2. e.event.cp \in Held
        BY <2>5 DEF Held
    <3>3. pinned' \subseteq Held
        BY <1>5, <3>1, <3>2 DEF Held, e
    <3> QED BY <2>4, <3>3 DEF Held
  <2> QED BY <2>2, <2>3, <2>6, <2>7, <2>8
<1>6. CASE Write(t)
    BY <1>2, <1>6 DEF Write, Enter
<1>7. CASE Publish(t)
    BY <1>2, <1>7 DEF Publish, Enter
<1>8. CASE ReadHead(t)
  <2>1. SealedAfterHead(draft[t].event).event = draft[t].event
      BY SealedIsEntry DEF TypeOK, IsEntry
  <2>2. /\ InFlight' \subseteq InFlight
        /\ \A u \in InFlight' : draft'[u].event = draft[u].event
      BY <1>1, <1>8, <2>1 DEF ReadHead, InFlight
  <2> QED BY <1>3, <1>8, <2>2 DEF ReadHead
<1>9. CASE AppendEntry(t)
    BY <1>5, <1>9 DEF AppendEntry
<1>10. CASE AppendConflict(t)
  <2>1. Genesis(draft[t].event).event = draft[t].event
      BY DEF Genesis
  <2>2. /\ InFlight' \subseteq InFlight
        /\ \A u \in InFlight' : draft'[u].event = draft[u].event
      BY <1>1, <1>10, <2>1 DEF AppendConflict, InFlight
  <2> QED BY <1>3, <1>10, <2>2 DEF AppendConflict
<1>11. CASE AnswerLost(t)
    BY <1>5, <1>11 DEF AnswerLost
<1>12. CASE CallFails(t)
  <2>1. InFlight' \subseteq InFlight
        /\ \A u \in InFlight' : draft'[u].event = draft[u].event
      BY <1>4, <1>12 DEF CallFails
  <2> QED BY <1>3, <1>12, <2>1 DEF CallFails
<1> QED BY <1>6, <1>7, <1>8, <1>9, <1>10, <1>11, <1>12 DEF TaskStep

(* A task's step keeps what is known of losses. *)
LEMMA TaskLosses ==
    ASSUME TypeOK, Topped(Seqs), Losses, NEW t \in Tasks, TaskStep(t)
    PROVE  Losses'
<1>1. /\ CallsMoveOn /\ CallsAreUnique'
      /\ \A s \in Seqs : s \in Seqs' /\ log'[s] = log[s]
      /\ \A cp \in Held' : \/ cp \in Held \/ cp = NoCheckpoint
                           \/ cp = BuildCheckpoint(Leaves)
      /\ UNCHANGED <<lost, audit>>
    BY TaskMovesCallsOn DEF Losses
<1>2. ASSUME NEW cp \in Held' PROVE Grounded(cp)'
  <2>1. Grounded(cp)
    <3>1. CASE cp \in Held
        BY <3>1 DEF Losses
    <3>2. CASE cp = NoCheckpoint
        BY <3>2 DEF Grounded
    <3>3. CASE cp = BuildCheckpoint(Leaves)
        BY <3>3, BuiltIsGrounded
    <3> QED BY <1>1, <3>1, <3>2, <3>3
  <2> QED BY <1>1, <2>1, GroundedStays
<1>3. ASSUME NEW cp \in lost' PROVE Orphaned(cp)'
  <2>1. Orphaned(cp)
      BY <1>1 DEF Losses
  <2> QED BY <1>1, <2>1, OrphansStayOrphans
<1>4. (audit.doomed => audit.trusted \in lost)'
    BY <1>1 DEF Losses
<1>5. LossIsReported'
    BY <1>1 DEF Losses, LossIsReported
<1> QED BY <1>1, <1>2, <1>3, <1>4, <1>5 DEF Losses

(* A failover orphans the checkpoints over what it took. *)
LEMMA FailoverLosses ==
    ASSUME TypeOK, Topped(Seqs), Losses, NEW n \in Seqs, Failover(n)
    PROVE  Losses'
<1>1. /\ Seqs' = {s \in Seqs : s < n} /\ \A s \in Seqs' : log'[s] = log[s]
      /\ lost' = lost \cup {cp \in pinned : cp.size > n}
      /\ UNCHANGED <<calls, pinned, pc, draft, audit>>
    BY DEF Failover, Seqs
<1>2. InFlight' = InFlight /\ Held' = Held /\ Seqs' \subseteq Seqs
    BY <1>1 DEF InFlight, Held
<1>3. CallsMoveOn
    BY <1>1, <1>2 DEF CallsMoveOn, TypeOK
<1>4. CallsAreUnique'
    BY <1>1, <1>2 DEF CallsAreUnique, Losses
<1>5. Seqs \subseteq Nat /\ n \in Nat
    BY DEF TypeOK
<1>6. ASSUME NEW s \in Seqs, s >= n, NEW id, id = log[s].event.id
      PROVE  Dead(id)'
  <2>1. CallsAreUnique
      BY DEF Losses
  <2>2. id \in 1 .. calls' /\ \A t \in InFlight' : draft'[t].event.id # id
      BY <1>1, <1>2, <1>6, <2>1 DEF CallsAreUnique
  <2>3. ASSUME NEW r \in Seqs' PROVE log'[r].event.id # id
    <3>1. r \in Seqs /\ r < n /\ log'[r] = log[r]
        BY <1>1
    <3>2. r # s
        BY <1>5, <1>6, <3>1
    <3> QED BY <1>6, <2>1, <3>1, <3>2 DEF CallsAreUnique
  <2> QED BY <2>2, <2>3 DEF Dead
<1>7. ASSUME NEW cp \in pinned, cp.size > n PROVE Orphaned(cp)'
  <2>1. cp # NoCheckpoint /\ cp.size \in Nat
      BY <1>5, <1>7 DEF NoCheckpoint, TypeOK, IsCheckpoint
  <2>2. PICK hashes \in Seq(Hash) :
            /\ Commits(cp, hashes)
            /\ cp.size > 0 => \/ InPlace(Tip(hashes), cp.size)
                              \/ Dead(Tip(hashes))
      BY <2>1 DEF Losses, Held, Grounded
  <2> DEFINE id == Tip(hashes)
  <2>3. cp.size > 0 /\ (InPlace(id, cp.size) \/ Dead(id))
      BY <1>5, <1>7, <2>1, <2>2
  <2> HIDE DEF id
  <2>4. Dead(id) => Dead(id)'
      BY <1>3, DeadForGood
  <2>5. ASSUME InPlace(id, cp.size) PROVE Dead(id)'
    <3>1. PICK s \in Seqs : s >= cp.size - 1 /\ log[s].event.id = id
        BY <2>5 DEF InPlace
    <3>2. s >= n
        BY <1>5, <1>7, <2>1, <3>1
    <3> QED BY <1>6, <3>1, <3>2
  <2>6. Dead(id)'
      BY <2>3, <2>4, <2>5
  <2>7. Dead(Tip(hashes))'
      BY <2>6 DEF id
  <2> QED BY <2>2, <2>3, <2>7 DEF Orphaned
<1>8. ASSUME NEW cp \in lost' PROVE Orphaned(cp)'
  <2>1. CASE cp \in lost
      BY <1>3, <2>1, OrphansStayOrphans DEF Losses
  <2>2. CASE cp \in pinned /\ cp.size > n
      BY <1>7, <2>2
  <2> QED BY <1>1, <2>1, <2>2
<1>9. ASSUME NEW cp \in Held' PROVE Grounded(cp)'
  <2>1. CASE cp = NoCheckpoint
      BY <2>1 DEF Grounded
  <2>2. CASE cp # NoCheckpoint
    <3>1. PICK hashes \in Seq(Hash) :
              /\ Commits(cp, hashes)
              /\ cp.size > 0 => \/ InPlace(Tip(hashes), cp.size)
                                \/ Dead(Tip(hashes))
        BY <1>2, <2>2 DEF Losses, Grounded
    <3> DEFINE id == Tip(hashes)
    <3>2. cp.size > 0 => InPlace(id, cp.size) \/ Dead(id)
        BY <3>1
    <3> HIDE DEF id
    <3>3. Dead(id) => Dead(id)'
        BY <1>3, DeadForGood
    <3>4. InPlace(id, cp.size) => InPlace(id, cp.size)' \/ Dead(id)'
      <4>1. SUFFICES ASSUME NEW s \in Seqs, s >= cp.size - 1,
                            log[s].event.id = id
                     PROVE  InPlace(id, cp.size)' \/ Dead(id)'
          BY DEF InPlace
      <4>2. CASE s >= n
          BY <1>6, <4>1, <4>2
      <4>3. CASE s < n
          BY <1>1, <4>1, <4>3 DEF InPlace
      <4> QED BY <1>5, <4>2, <4>3
    <3>5. cp.size > 0 => InPlace(Tip(hashes), cp.size)' \/ Dead(Tip(hashes))'
        BY <3>2, <3>3, <3>4 DEF id
    <3> QED BY <3>1, <3>5 DEF Grounded
  <2> QED BY <2>1, <2>2
<1>10. (audit.doomed => audit.trusted \in lost)'
    BY <1>1 DEF Losses
<1>11. LossIsReported'
    BY <1>1 DEF Losses, LossIsReported
<1> QED BY <1>4, <1>8, <1>9, <1>10, <1>11 DEF Losses

(* An audit knows what was lost when it began, and sees it. *)
LEMMA AuditLosses ==
    ASSUME TypeOK, Losses,
           \/ \E trusted \in {NoCheckpoint} \cup pinned, from \in Starts :
                 StartAudit(trusted, from)
           \/ ScanEntry \/ ScanEnds \/ ReadPublished \/ CheckRoot
           \/ CheckPinned
    PROVE  Losses'
<1>1. UNCHANGED <<log, calls, failovers, pinned, lost, pc, draft>>
    BY DEF StartAudit, ScanEntry, ScanEnds, ReadPublished, CheckRoot,
           CheckPinned, AuditStep
<1>2. Seqs' = Seqs /\ InFlight' = InFlight /\ Held' = Held
    BY <1>1 DEF Seqs, InFlight, Held
<1>3. CallsAreUnique'
    BY <1>1, <1>2 DEF Losses, CallsAreUnique
<1>4. CallsMoveOn /\ \A s \in Seqs : s \in Seqs' /\ log'[s] = log[s]
    BY <1>1, <1>2 DEF CallsMoveOn, TypeOK
<1>5. \A cp \in Held' : Grounded(cp)'
  <2>1. ASSUME NEW cp \in Held' PROVE Grounded(cp)'
    <3>1. Grounded(cp)
        BY <1>2 DEF Losses
    <3> QED BY <1>4, <3>1, GroundedStays
  <2> QED BY <2>1
<1>6. \A cp \in lost' : Orphaned(cp)'
  <2>1. ASSUME NEW cp \in lost' PROVE Orphaned(cp)'
    <3>1. Orphaned(cp)
        BY <1>1 DEF Losses
    <3> QED BY <1>4, <3>1, OrphansStayOrphans
  <2> QED BY <2>1
<1>7. /\ audit'.doomed => audit'.trusted \in lost
      /\ audit'.step = "done" /\ audit'.doomed => "pinned" \in audit'.failed
  <2>1. DOMAIN audit = {"step", "trusted", "from", "next", "prev",
                        "published", "failed", "epoch", "doomed"}
        /\ (audit.doomed => audit.trusted \in lost)
      BY DEF TypeOK, Losses
  <2>2. CASE \E trusted \in {NoCheckpoint} \cup pinned, from \in Starts :
                StartAudit(trusted, from)
    <3>1. PICK trusted \in {NoCheckpoint} \cup pinned, from \in Starts :
              StartAudit(trusted, from)
        BY <2>2
    <3>2. /\ audit'.step = "scan" /\ audit'.trusted = trusted
          /\ audit'.doomed = (trusted \in lost)
        BY <3>1 DEF StartAudit
    <3>3. audit'.doomed => audit'.trusted \in lost
        BY <3>2
    <3>4. audit'.step # "done"
        BY <3>2
    <3> QED BY <3>3, <3>4
  <2>3. ASSUME audit'.doomed = audit.doomed, audit'.trusted = audit.trusted,
               audit'.step # "done"
        PROVE  /\ audit'.doomed => audit'.trusted \in lost
               /\ audit'.step = "done" /\ audit'.doomed
                    => "pinned" \in audit'.failed
      BY <2>1, <2>3
  <2>4. CASE ScanEntry
    <3>1. \E s \in Seqs :
             \/ audit' = [audit EXCEPT !.next = s + 1,
                                       !.prev = EntryHash(log[s])]
             \/ Check(FALSE, "chain", "published")
        BY <2>4 DEF ScanEntry
    <3>2. audit.step = "scan"
        BY <2>4 DEF ScanEntry, AuditStep
    <3>3. /\ audit'.doomed = audit.doomed /\ audit'.trusted = audit.trusted
          /\ audit'.step # "done"
        BY <2>1, <3>1, <3>2 DEF Check
    <3> QED BY <2>3, <3>3
  <2>5. CASE ScanEnds
      BY <2>1, <2>3, <2>5 DEF ScanEnds, Check
  <2>6. CASE ReadPublished
      BY <2>1, <2>3, <2>6 DEF ReadPublished
  <2>7. CASE CheckRoot
      BY <2>1, <2>3, <2>7 DEF CheckRoot, Check
  <2>8. CASE CheckPinned
    <3> DEFINE ok == audit.trusted = NoCheckpoint
                       \/ Consistent(audit.trusted)
    <3>1. Check(ok, "pinned", "done")
        BY <2>8 DEF CheckPinned
    <3>2. audit.doomed => ~ok
      <4> SUFFICES ASSUME audit.doomed PROVE ~ok
          OBVIOUS
      <4>1. Orphaned(audit.trusted)
          BY <2>1 DEF Losses
      <4>2. audit.trusted # NoCheckpoint
          BY <4>1 DEF Orphaned, NoCheckpoint
      <4> QED BY <4>1, <4>2, OrphansDoNotFit
    <3> HIDE DEF ok
    <3>3. /\ audit'.doomed = audit.doomed
          /\ audit'.trusted = audit.trusted
          /\ ~ok => "pinned" \in audit'.failed
        BY <2>1, <3>1 DEF Check
    <3> QED BY <2>1, <3>2, <3>3
  <2> QED BY <2>2, <2>4, <2>5, <2>6, <2>7, <2>8
<1> QED BY <1>1, <1>3, <1>5, <1>6, <1>7 DEF Losses, LossIsReported

(* In the initial state nothing is lost, and every step keeps it known. *)
LEMMA LossesInvariance == Spec => []Losses
<1>1. Init => Losses
  <2> SUFFICES ASSUME Init PROVE Losses
      OBVIOUS
  <2>1. Seqs = {} /\ InFlight = {} /\ Held = {} /\ lost = {}
      BY DEF Init, Seqs, InFlight, Held
  <2>2. ~audit.doomed
      BY DEF Init
  <2> QED BY <2>1, <2>2 DEF Losses, CallsAreUnique, LossIsReported
<1>2. IInv /\ Losses /\ [Next]_vars => Losses'
  <2> SUFFICES ASSUME TypeOK, Topped(Seqs), Losses, [Next]_vars
               PROVE  Losses'
      BY DEF IInv
  <2>1. CASE \E t \in Tasks : TaskStep(t)
      BY <2>1, TaskLosses
  <2>2. CASE \E n \in Seqs : Failover(n)
      BY <2>2, FailoverLosses
  <2>3. CASE \/ \E trusted \in {NoCheckpoint} \cup pinned, from \in Starts :
                   StartAudit(trusted, from)
             \/ ScanEntry \/ ScanEnds \/ ReadPublished \/ CheckRoot
             \/ CheckPinned
      BY <2>3, AuditLosses
  <2>4. CASE UNCHANGED vars
      BY <2>4 DEF vars, Losses, CallsAreUnique, Held, InFlight, Grounded,
                  Orphaned, InPlace, Dead, Seqs, LossIsReported
  <2> QED BY <2>1, <2>2, <2>3, <2>4 DEF Next
<1> QED BY <1>1, <1>2, Invariance, PTL DEF Spec

(* Nobody who kept a checkpoint can be shown a log that lost entries under *)
(* it and went on: the loss is in every report against that checkpoint.    *)
THEOREM LossesAreReported == Spec => []LossIsReported
<1>1. Losses => LossIsReported
    BY DEF Losses
<1> QED BY <1>1, LossesInvariance, PTL
=============================================================================
