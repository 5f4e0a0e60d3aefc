----------------------------- MODULE OutcomeProofs -----------------------------
(***************************************************************************)
(* What the clients of ApprovalService may rely on, for any number of      *)
(* concurrent calls, any policy and roster: GateSound, whatever fails; and *)
(* the properties of a service at rest, each as long as certain store      *)
(* calls do not fail, which its theorem names.  All others may.            *)
(***************************************************************************)
EXTENDS ApprovalServiceProofs, FiniteSetTheorems

-----------------------------------------------------------------------------
(* The gate.  Enough approvals, once there, are there for good: the log    *)
(* only grows and its first request stays the request.  So it is enough    *)
(* that a status is computed from nothing but the log's own approvals,     *)
(* whatever body the call that computes it holds.                          *)

(* The decisions whose approvers are the Endorsers. *)
Endorses(d) ==
    /\ d.verdict = "approve"
    /\ d.authorized
    /\ d.context = FirstBody
    /\ d.decided_at.instant <= Deadline(RequestOf(FirstBody), PolicyInForce)
    /\ Eligible(d.approver, PolicyInForce, Identities)
    /\ PolicyInForce.separation_of_duties => d.approver # Requester

Endorsements == {i \in Positions("decision.recorded") : Endorses(ledger[i].env)}

EnoughEndorsers == Cardinality(Endorsers) >= PolicyInForce.threshold

(* What GateSound takes to be inductive: whatever a call computed and the  *)
(* log announces, at any point of the call.                                *)
Gated ==
    /\ \A t \in Tasks : status[t] = "approved" => EnoughEndorsers
    /\ \A i \in Positions("status.changed") :
          ledger[i].status = "approved" => EnoughEndorsers

-----------------------------------------------------------------------------
(* The endorsers are the approvers of the endorsements. *)
LEMMA EndorsersOfEndorsements ==
    Endorsers = {ledger[i].env.approver : i \in Endorsements}
  BY DEF Endorsers, Endorsements, Endorses

(* Finitely many entries have finitely many approvers. *)
LEMMA ApproversAreFinite ==
    ASSUME NEW log, Len(log) \in Nat, NEW S \in SUBSET (1 .. Len(log))
    PROVE  IsFiniteSet({log[i].env.approver : i \in S})
  <1>1. IsFiniteSet(1 .. Len(log))
    BY FS_Interval
  <1>2. IsFiniteSet(S)
    BY <1>1, FS_Subset
  <1> DEFINE T == {log[i].env.approver : i \in S}
             f == [i \in S |-> log[i].env.approver]
  <1>3. f \in Surjection(S, T)
    BY DEF Surjection
  <1> QED
    BY <1>2, <1>3, FS_Surjection

(* More people are no fewer than asked for. *)
LEMMA MoreAreEnough ==
    ASSUME NEW S, NEW T, IsFiniteSet(T), S \subseteq T,
           Cardinality(S) >= PolicyInForce.threshold
    PROVE  Cardinality(T) >= PolicyInForce.threshold
  <1>1. IsFiniteSet(S) /\ Cardinality(S) <= Cardinality(T)
    BY FS_Subset
  <1>2. Cardinality(S) \in Nat /\ Cardinality(T) \in Nat
    BY <1>1, FS_CardinalityType
  <1> QED
    BY <1>1, <1>2, ThresholdAssumption

(* Whoever has approved has approved: no step takes an endorsement away.   *)
LEMMA EnoughStaysEnough ==
    ASSUME IInv, [Next]_vars, EnoughEndorsers
    PROVE  EnoughEndorsers'
  <1>1. IsFiniteSet(Endorsers')
    <2>1. ledger' \in Seq(Entry)
      BY TypesAreKept DEF TypeOK
    <2>2. Endorsements' \subseteq 1 .. Len(ledger')
      BY <2>1 DEF Endorsements, Positions
    <2>3. Endorsers' = {ledger'[i].env.approver : i \in Endorsements'}
      BY DEF Endorsers, Endorsements, Endorses
    <2> QED
      BY <2>1, <2>2, <2>3, ApproversAreFinite
  <1>2. Endorsers \subseteq Endorsers'
    <2>1. ledger \in Seq(Entry)
      BY DEF IInv, TypeOK
    <2>2. /\ Positions("decision.recorded") \subseteq Positions("decision.recorded")'
          /\ \A i \in Positions("decision.recorded") : ledger'[i] = ledger[i]
      <3>1. CASE ledger' = ledger
        BY <3>1 DEF Positions
      <3>2. CASE \E t \in Tasks : ledger' = Append(ledger, EntryFrom(t))
        BY <2>1, <3>2 DEF Positions
      <3> QED
        BY <3>1, <3>2, LogGrows
    <2>3. Positions("decision.recorded") # {} => RequestExists
      BY DEF IInv, DecisionsBind, RequestExists
    <2>4. ASSUME NEW i \in Endorsements
          PROVE  i \in Endorsements' /\ ledger'[i] = ledger[i]
      <3>1. i \in Positions("decision.recorded") /\ Endorses(ledger[i].env)
        BY DEF Endorsements
      <3>2. FirstBody' = FirstBody
        BY <2>3, <3>1, RequestStays
      <3>3. Endorses(ledger[i].env)'
        BY <2>2, <3>1, <3>2 DEF Endorses, RequestOf
      <3> QED
        BY <2>2, <3>1, <3>3 DEF Endorsements
    <2>5. Endorsers' = {ledger'[i].env.approver : i \in Endorsements'}
      BY DEF Endorsers, Endorsements, Endorses
    <2> QED
      BY <2>4, <2>5, EndorsersOfEndorsements
  <1> QED
    BY <1>1, <1>2, MoreAreEnough DEF EnoughEndorsers

(* evaluate approves only on the voices of enough people. *)
LEMMA ApprovalNeedsVoices ==
    ASSUME NEW request, NEW decisions, NEW at,
           Evaluate(request, decisions, PolicyInForce, Identities, at).status = "approved"
    PROVE  Cardinality(Voters(decisions,
                              Voices(decisions,
                                     Counted(request, decisions, PolicyInForce, Identities)),
                              "approve")) >= PolicyInForce.threshold
  BY DEF Evaluate

(* Whoever a call counts, on the whole log or a part of it, has endorsed   *)
(* the request: decisions in the log are about its first body, so a call   *)
(* that holds another one counts nobody.                                   *)
LEMMA VotersAreEndorsers ==
    ASSUME IInv, NEW n, NEW b
    PROVE  Voters(DecisionsIn(n),
                  Voices(DecisionsIn(n),
                         Counted(RequestOf(b), DecisionsIn(n), PolicyInForce, Identities)),
                  "approve") \subseteq Endorsers
  <1> DEFINE ds == DecisionsIn(n)
             counted == Counted(RequestOf(b), ds, PolicyInForce, Identities)
  <1> SUFFICES ASSUME NEW i \in Voices(ds, counted), ds[i].verdict = "approve"
               PROVE  ds[i].approver \in Endorsers
    BY DEF Voters
  <1>1. i \in DOMAIN ds /\ Counts(ds[i], RequestOf(b), PolicyInForce, Identities)
    BY DEF Voices, Counted
  <1>2. i \in Positions("decision.recorded") /\ ds[i] = ledger[i].env
    BY <1>1 DEF DecisionsIn
  <1>3. ledger[i].env.authorized /\ ledger[i].env.context = FirstBody
    BY <1>2 DEF IInv, DecisionsBind
  <1>4. b = FirstBody
    BY <1>1, <1>2, <1>3 DEF Counts, ContextDigest, RequestOf
  <1>5. Endorses(ledger[i].env)
    BY <1>1, <1>2, <1>3, <1>4 DEF Endorses, Counts, RequestOf
  <1> QED
    BY <1>2, <1>5, EndorsersOfEndorsements DEF Endorsements

(* An approval is computed only where there are enough. *)
LEMMA ApprovalNeedsEndorsers ==
    ASSUME IInv, NEW n, NEW b, NEW at, StatusAfter(n, b, at) = "approved"
    PROVE  EnoughEndorsers
  <1>1. ledger \in Seq(Entry) /\ Endorsements \subseteq 1 .. Len(ledger)
    BY DEF IInv, TypeOK, Endorsements, Positions
  <1>2. IsFiniteSet(Endorsers)
    BY <1>1, ApproversAreFinite, EndorsersOfEndorsements
  <1> QED
    BY <1>2, ApprovalNeedsVoices, VotersAreEndorsers, MoreAreEnough
       DEF StatusAfter, EnoughEndorsers

(* A call's status is the one it had, none, or one just computed. *)
LEMMA StatusesAreComputed ==
    ASSUME IInv, [Next]_vars, NEW u \in Tasks
    PROVE  \/ status'[u] \in {status[u], NoStatus}
           \/ \E n, b, at : status'[u] = StatusAfter(n, b, at)
  <1>1. status \in [Tasks -> Statuses \cup {NoStatus}]
    BY DEF IInv, TypeOK
  <1>2. CASE UNCHANGED vars \/ Tick
    BY <1>2 DEF vars, Tick, locals
  <1>3. ASSUME NEW t \in Tasks, Call(t)
        PROVE  status'[u] \in {status[u], NoStatus}
    BY <1>1, <1>3 DEF Call, CallCreate, CallSubmitDecision, CallSubmitSigned,
                      CallGetStatus, Begin
  <1>4. ASSUME NEW t \in Tasks, ProjectRead(t) \/ Recompute(t) \/ ReadStatus(t)
        PROVE  \/ status'[u] = status[u]
               \/ \E n, b, at : status'[u] = StatusAfter(n, b, at)
    BY <1>1, <1>4 DEF ProjectRead, Recompute, ReadStatus, Recomputed
  <1>5. ASSUME NEW t \in Tasks,
               \/ CreateLoad(t) \/ CreateAppend(t) \/ Upsert(t) \/ DecideLoad(t)
               \/ SubmitLoad(t) \/ ReserveWon(t) \/ ReserveLost(t)
               \/ DecisionAppend(t) \/ StatusAppend(t) \/ Complete(t) \/ Release(t)
               \/ StoreRaises(t) \/ Crash(t)
        PROVE  status' = status
    BY <1>5 DEF CreateLoad, CreateAppend, Upsert, DecideLoad, SubmitLoad, ReserveWon,
                ReserveLost, DecisionAppend, StatusAppend, Complete, Release,
                StoreRaises, Crash, AppendStep, locals
  <1> QED
    BY <1>2, <1>3, <1>4, <1>5 DEF Next, Step

(* A status that the log announces is one that a call had computed. *)
LEMMA AnnouncedIsComputed ==
    ASSUME IInv, [Next]_vars, NEW i \in Positions("status.changed")'
    PROVE  \/ i \in Positions("status.changed") /\ ledger'[i] = ledger[i]
           \/ \E t \in Tasks : ledger'[i].status = status[t]
  <1>1. ledger \in Seq(Entry)
    BY DEF IInv, TypeOK
  <1>2. CASE ledger' = ledger
    BY <1>2 DEF Positions
  <1>3. ASSUME NEW t \in Tasks, pc[t] \in AppendPoints,
               ledger' = Append(ledger, EntryFrom(t)), i = Len(ledger) + 1
        PROVE  ledger'[i].status = status[t]
    <2>1. ledger'[i] = EntryFrom(t) /\ EntryFrom(t).type = "status.changed"
      BY <1>1, <1>3 DEF Positions
    <2> QED
      BY <1>3, <2>1 DEF EntryFrom, AppendPoints
  <1>4. ASSUME NEW t \in Tasks, ledger' = Append(ledger, EntryFrom(t)), i # Len(ledger) + 1
        PROVE  i \in Positions("status.changed") /\ ledger'[i] = ledger[i]
    BY <1>1, <1>4 DEF Positions
  <1> QED
    BY <1>2, <1>3, <1>4, LogGrows

(* Gated is inductive. *)
LEMMA GatedStays ==
    ASSUME IInv, Gated, [Next]_vars
    PROVE  Gated'
  <1>1. ASSUME NEW t \in Tasks, status'[t] = "approved"
        PROVE  EnoughEndorsers'
    <2>1. status[t] = "approved" \/ \E n, b, at : StatusAfter(n, b, at) = "approved"
      BY <1>1, StatusesAreComputed DEF NoStatus
    <2>2. EnoughEndorsers
      BY <2>1, ApprovalNeedsEndorsers DEF Gated
    <2> QED
      BY <2>2, EnoughStaysEnough
  <1>2. ASSUME NEW i \in Positions("status.changed")', ledger'[i].status = "approved"
        PROVE  EnoughEndorsers'
    <2>1. EnoughEndorsers
      BY <1>2, AnnouncedIsComputed DEF Gated
    <2> QED
      BY <2>1, EnoughStaysEnough
  <1> QED
    BY <1>1, <1>2 DEF Gated

(* ApprovalService's GateSound: whoever gates an action on "approved", as  *)
(* returned by a call or read in a status.changed entry, acts only when as *)
(* many eligible people as the policy asks for, the requester not among    *)
(* them, have signed for this very request before its window closed.       *)
THEOREM GateSoundHolds == Spec => []GateSound
  <1>1. Init => Gated
    BY DEF Init, Gated, Positions, NoStatus
  <1>2. IInv /\ Gated /\ [Next]_vars => Gated'
    BY GatedStays
  <1>3. Gated => GateSound
    BY DEF Gated, GateSound, EnoughEndorsers
  <1> QED
    BY <1>1, <1>2, <1>3, Invariant, PTL DEF Spec

-----------------------------------------------------------------------------
(* What steps do to calls, rows and decisions.                             *)

(* Calls begin at their first store call, and leave the stores alone. *)
LEMMA CallsBegin ==
    ASSUME IInv, NEW t \in Tasks, Call(t)
    PROVE  /\ UNCHANGED <<ledger, idem, now>>
           /\ pc[t] \in Ended
           /\ pc'[t] \in {"create_load", "decide_load", "submit_load", "read"}
           /\ pc'[t] = "read" => env'[t] = NoEnvelope
           /\ \A u \in Tasks \ {t} : /\ pc'[u] = pc[u] /\ body'[u] = body[u]
                                     /\ env'[u] = env[u] /\ status'[u] = status[u]
  <1>1. /\ pc \in [Tasks -> Ended \cup StorePoints]
        /\ body \in [Tasks -> Bodies]
        /\ env \in [Tasks -> AllEnvelopes \cup {NoEnvelope}]
        /\ status \in [Tasks -> Statuses \cup {NoStatus}]
    BY DEF IInv, TypeOK
  <1>2. ASSUME NEW point, NEW b, NEW e, Begin(t, point, b, e)
        PROVE  /\ UNCHANGED <<ledger, idem, now>>
               /\ pc[t] \in Ended
               /\ pc'[t] = point /\ env'[t] = e
               /\ \A u \in Tasks \ {t} : /\ pc'[u] = pc[u] /\ body'[u] = body[u]
                                         /\ env'[u] = env[u] /\ status'[u] = status[u]
    BY <1>1, <1>2 DEF Begin, stores
  <1>3. \/ Begin(t, "create_load", now, NoEnvelope) \/ Begin(t, "read", 0, NoEnvelope)
        \/ \E e : Begin(t, "decide_load", 0, e) \/ Begin(t, "submit_load", 0, e)
    BY DEF Call, CallCreate, CallSubmitDecision, CallSubmitSigned, CallGetStatus
  <1> QED
    BY <1>2, <1>3

(* Where a call goes, and what it does to the rows, from where it was.     *)
LEMMA StepsGo ==
    ASSUME IInv, NEW t \in Tasks, Step(t) \/ StoreRaises(t) \/ Crash(t)
    PROVE  /\ pc[t] \in StorePoints
           /\ pc'[t] = "decision_append" =>
                \/ ReserveWon(t)
                \/ SubmitLoad(t) /\ ~Idempotency
           /\ pc'[t] = "reserve" => SubmitLoad(t) /\ Idempotency
           /\ pc'[t] = "release" => StoreRaises(t) /\ pc[t] \in TryPoints
           /\ \/ idem' = idem
              \/ pc[t] = "reserve" /\ InsertsRow(t) /\ KeyOf(env[t]) \notin DOMAIN idem
              \/ pc[t] = "complete" /\ CompletesRow(t)
              \/ pc[t] = "release" /\ DeletesRow(t)
           /\ pc[t] # "decide_load" => env'[t] = env[t]
  <1>1. /\ pc \in [Tasks -> Ended \cup StorePoints]
        /\ env \in [Tasks -> AllEnvelopes \cup {NoEnvelope}]
    BY DEF IInv, TypeOK
  <1> USE DEF Go
  <1>2. CASE \/ CreateLoad(t) \/ CreateAppend(t) \/ ProjectRead(t) \/ ReadStatus(t)
             \/ DecisionAppend(t) \/ Recompute(t) \/ StatusAppend(t)
    BY <1>1, <1>2 DEF CreateLoad, CreateAppend, ProjectRead, ReadStatus, DecisionAppend,
                      Recompute, StatusAppend, AppendStep, WritesEntry, stores, StorePoints,
                      AppendPoints
  <1>3. CASE Upsert(t)
    BY <1>1, <1>3 DEF Upsert, WritesView, locals, StorePoints
  <1>4. CASE DecideLoad(t)
    BY <1>1, <1>4 DEF DecideLoad, stores, StorePoints
  <1>5. CASE SubmitLoad(t)
    BY <1>1, <1>5 DEF SubmitLoad, stores, StorePoints
  <1>6. CASE ReserveWon(t) \/ ReserveLost(t)
    BY <1>1, <1>6 DEF ReserveWon, ReserveLost, stores, locals, StorePoints
  <1>7. CASE Complete(t) \/ Release(t)
    BY <1>1, <1>7 DEF Complete, Release, locals, StorePoints
  <1>8. CASE Crash(t)
    BY <1>1, <1>8 DEF Crash, stores, locals
  <1>9. CASE StoreRaises(t)
    <2>1. /\ pc'[t] \in {"release", "error"} /\ env'[t] = env[t]
          /\ pc'[t] = "release" => pc[t] \in TryPoints
      BY <1>1, <1>9 DEF StoreRaises, Handler, locals
    <2>2. /\ pc[t] \in StorePoints
      BY <1>9, RaisingAssumption DEF StoreRaises
    <2> QED
      BY <1>9, <2>1, <2>2 DEF StoreRaises, WritesEntry, WritesView, stores
  <1> QED
    BY <1>2, <1>3, <1>4, <1>5, <1>6, <1>7, <1>8, <1>9 DEF Step

(* The entries of the log come from the calls that append. *)
LEMMA WhoAppends ==
    ASSUME IInv, [Next]_vars, ledger' # ledger
    PROVE  \E t \in Tasks :
              /\ CreateAppend(t) \/ DecisionAppend(t) \/ StatusAppend(t) \/ StoreRaises(t)
              /\ pc[t] \in AppendPoints
              /\ ledger' = Append(ledger, EntryFrom(t))
  <1>1. CASE UNCHANGED vars \/ Tick
    BY <1>1 DEF vars, Tick, stores
  <1>2. ASSUME NEW t \in Tasks, Call(t)
        PROVE  FALSE
    BY <1>2, CallsBegin
  <1>3. ASSUME NEW t \in Tasks, CreateAppend(t) \/ DecisionAppend(t) \/ StatusAppend(t)
        PROVE  pc[t] \in AppendPoints /\ ledger' = Append(ledger, EntryFrom(t))
    BY <1>3 DEF CreateAppend, DecisionAppend, StatusAppend, AppendStep, WritesEntry,
                AppendPoints
  <1>4. ASSUME NEW t \in Tasks, StoreRaises(t)
        PROVE  pc[t] \in AppendPoints /\ ledger' = Append(ledger, EntryFrom(t))
    BY <1>4 DEF StoreRaises, WritesEntry, WritesView, InsertsRow, CompletesRow,
                DeletesRow, stores
  <1>5. ASSUME NEW t \in Tasks,
               \/ CreateLoad(t) \/ ProjectRead(t) \/ Upsert(t) \/ DecideLoad(t)
               \/ SubmitLoad(t) \/ ReserveWon(t) \/ ReserveLost(t) \/ Recompute(t)
               \/ Complete(t) \/ ReadStatus(t) \/ Release(t) \/ Crash(t)
        PROVE  FALSE
    BY <1>5 DEF CreateLoad, ProjectRead, Upsert, DecideLoad, SubmitLoad, ReserveWon,
                ReserveLost, Recompute, Complete, ReadStatus, Release, Crash,
                WritesView, InsertsRow, CompletesRow, DeletesRow, stores
  <1> QED
    BY <1>1, <1>2, <1>3, <1>4, <1>5 DEF Next, Step

(* A decision in the log was there before, or a call has just written it.  *)
LEMMA NewDecisions ==
    ASSUME IInv, [Next]_vars, NEW i \in Positions("decision.recorded")'
    PROVE  \/ i \in Positions("decision.recorded") /\ ledger'[i] = ledger[i]
           \/ \E t \in Tasks :
                 /\ pc[t] = "decision_append" /\ ledger'[i].env = env[t]
                 /\ i = Len(ledger) + 1
                 /\ DecisionAppend(t) \/ StoreRaises(t)
  <1>1. ledger \in Seq(Entry) /\ pc \in [Tasks -> Ended \cup StorePoints]
    BY DEF IInv, TypeOK
  <1>2. CASE ledger' = ledger
    BY <1>2 DEF Positions
  <1>3. CASE ledger' # ledger
    <2>1. PICK t \in Tasks : /\ CreateAppend(t) \/ DecisionAppend(t) \/ StatusAppend(t)
                                \/ StoreRaises(t)
                             /\ pc[t] \in AppendPoints
                             /\ ledger' = Append(ledger, EntryFrom(t))
      BY <1>3, WhoAppends
    <2>2. CASE i \in Positions("decision.recorded") /\ ledger'[i] = ledger[i]
      BY <2>2
    <2>3. CASE i = Len(ledger) + 1
      <3>1. ledger'[i] = EntryFrom(t) /\ EntryFrom(t).type = "decision.recorded"
        BY <1>1, <2>1, <2>3 DEF Positions
      <3>2. pc[t] = "decision_append"
        <4>1. pc[t] = "create_append" => EntryFrom(t).type = "request.created"
          BY DEF EntryFrom
        <4>2. pc[t] = "status_append" => EntryFrom(t).type = "status.changed"
          BY DEF EntryFrom
        <4> QED
          BY <2>1, <3>1, <4>1, <4>2 DEF AppendPoints
      <3>3. ledger'[i].env = env[t]
        BY <3>1, <3>2 DEF EntryFrom
      <3> QED
        BY <2>1, <2>3, <3>2, <3>3 DEF CreateAppend, StatusAppend
    <2> QED
      BY <1>1, <2>1, <2>2, <2>3 DEF Positions
  <1> QED
    BY <1>2, <1>3

(* A call about to append its decision was about to do so before, or has   *)
(* just won its key.                                                       *)
LEMMA AboutToAppend ==
    ASSUME IInv, Idempotency, [Next]_vars, NEW u \in Tasks, pc'[u] = "decision_append"
    PROVE  \/ pc[u] = "decision_append" /\ env'[u] = env[u]
           \/ ReserveWon(u)
  <1>1. CASE UNCHANGED vars \/ Tick
    BY <1>1 DEF vars, Tick, locals
  <1>2. ASSUME NEW t \in Tasks, Call(t)
        PROVE  pc[u] = "decision_append" /\ env'[u] = env[u]
    BY <1>2, CallsBegin
  <1>3. ASSUME NEW t \in Tasks, Step(t) \/ StoreRaises(t) \/ Crash(t)
        PROVE  \/ pc[u] = "decision_append" /\ env'[u] = env[u]
               \/ ReserveWon(u)
    BY <1>3, StepsGo, OneCallMoves
  <1> QED
    BY <1>1, <1>2, <1>3 DEF Next

-----------------------------------------------------------------------------
(* One decision per key, as long as the calls inside the try block of      *)
(* submit_signed_decision do not raise: then no row is ever deleted.       *)

(* What OneDecisionPerKey takes to be inductive: the key of a decision in  *)
(* the log stays taken, and who is about to append has a key of its own.   *)
KeysSpent ==
    /\ \A t \in Tasks : pc[t] # "release"
    /\ \A i \in Positions("decision.recorded") : KeyOf(ledger[i].env) \in DOMAIN idem
    /\ \A t \in Tasks : pc[t] = "decision_append" =>
          \A i \in Positions("decision.recorded") : KeyOf(ledger[i].env) # KeyOf(env[t])
    /\ OneDecisionPerKey

(* Nothing is released, and rows stay. *)
LEMMA RowsStay ==
    ASSUME Raising \cap TryPoints = {}, IInv, KeysSpent, [Next]_vars
    PROVE  /\ \A t \in Tasks : pc'[t] # "release"
           /\ DOMAIN idem \subseteq DOMAIN idem'
  <1>1. CASE UNCHANGED vars \/ Tick
    BY <1>1 DEF vars, Tick, stores, KeysSpent
  <1>2. ASSUME NEW t \in Tasks, Call(t)
        PROVE  (\A u \in Tasks : pc'[u] # "release") /\ DOMAIN idem \subseteq DOMAIN idem'
    <2>1. pc'[t] # "release"
      BY <1>2, CallsBegin
    <2> QED
      BY <1>2, <2>1, CallsBegin DEF KeysSpent
  <1>3. ASSUME NEW t \in Tasks, Step(t) \/ StoreRaises(t) \/ Crash(t)
        PROVE  (\A u \in Tasks : pc'[u] # "release") /\ DOMAIN idem \subseteq DOMAIN idem'
    <2>1. pc'[t] # "release"
      BY <1>3, StepsGo DEF StoreRaises
    <2>2. \A u \in Tasks : pc'[u] # "release"
      BY <1>3, <2>1, OneCallMoves DEF KeysSpent
    <2>3. DOMAIN idem \subseteq DOMAIN idem'
      BY <1>3, StepsGo DEF KeysSpent, InsertsRow, CompletesRow
    <2> QED
      BY <2>2, <2>3
  <1> QED
    BY <1>1, <1>2, <1>3 DEF Next

(* KeysSpent is inductive. *)
LEMMA KeysStaySpent ==
    ASSUME Idempotency, Raising \cap TryPoints = {}, IInv, KeysSpent, [Next]_vars
    PROVE  KeysSpent'
  <1> DEFINE D == Positions("decision.recorded")
             Fresh(i, t) == /\ pc[t] = "decision_append" /\ ledger'[i].env = env[t]
                            /\ i = Len(ledger) + 1 /\ DecisionAppend(t)
  <1>1. ASSUME NEW i \in D', ~(i \in D /\ ledger'[i] = ledger[i])
        PROVE  \E t \in Tasks : Fresh(i, t)
    <2>1. PICK t \in Tasks : /\ pc[t] = "decision_append" /\ ledger'[i].env = env[t]
                             /\ i = Len(ledger) + 1
                             /\ DecisionAppend(t) \/ StoreRaises(t)
      BY <1>1, NewDecisions
    <2>2. ~StoreRaises(t)
      BY <2>1 DEF StoreRaises, TryPoints
    <2> QED
      BY <2>1, <2>2
  <1>2. ASSUME NEW t \in Tasks, pc[t] = "decision_append"
        PROVE  Holds(t) /\ KeyOf(env[t]) \in DOMAIN idem
    <2>1. Holds(t)
      BY <1>2 DEF Holds, DecisionCall, TryPoints, IInv, LocalsFit, DecisionPoints
    <2> QED
      BY <2>1 DEF IInv, OneHolderPerKey
  <1>3. ASSUME NEW i \in D'
        PROVE  KeyOf(ledger'[i].env) \in DOMAIN idem'
    <2>1. KeyOf(ledger'[i].env) \in DOMAIN idem
      BY <1>1, <1>2 DEF KeysSpent
    <2> QED
      BY <2>1, RowsStay
  <1>4. ASSUME NEW u \in Tasks, pc'[u] = "decision_append", NEW i \in D'
        PROVE  KeyOf(ledger'[i].env) # KeyOf(env'[u])
    <2>1. CASE ReserveWon(u)
      <3>1. /\ KeyOf(env[u]) \notin DOMAIN idem /\ ledger' = ledger /\ env' = env
        BY <2>1 DEF ReserveWon, InsertsRow, locals
      <3>2. i \in D
        BY <3>1 DEF Positions
      <3> QED
        BY <3>1, <3>2 DEF KeysSpent
    <2>2. CASE pc[u] = "decision_append" /\ env'[u] = env[u]
      <3>1. CASE i \in D /\ ledger'[i] = ledger[i]
        BY <2>2, <3>1 DEF KeysSpent
      <3>2. CASE ~(i \in D /\ ledger'[i] = ledger[i])
        <4>1. PICK t \in Tasks : Fresh(i, t)
          BY <1>1, <3>2
        <4>2. pc'[t] = "recompute"
          BY <4>1 DEF DecisionAppend, AppendStep, Go, IInv, TypeOK
        <4>3. t # u
          BY <1>4, <4>2
        <4>4. Holds(t) /\ Holds(u)
          BY <1>2, <2>2, <4>1
        <4> QED
          BY <2>2, <4>1, <4>3, <4>4 DEF IInv, OneHolderPerKey
      <3> QED
        BY <3>1, <3>2
    <2> QED
      BY <1>4, <2>1, <2>2, AboutToAppend
  <1>5. ASSUME NEW i \in D', NEW j \in D', KeyOf(ledger'[i].env) = KeyOf(ledger'[j].env)
        PROVE  i = j
    <2> DEFINE Old(k) == k \in D /\ ledger'[k] = ledger[k]
    <2>1. CASE Old(i) /\ Old(j)
      BY <1>5, <2>1 DEF KeysSpent, OneDecisionPerKey
    <2>2. ASSUME NEW k \in D', NEW l \in D', Old(k), ~Old(l)
          PROVE  KeyOf(ledger'[k].env) # KeyOf(ledger'[l].env)
      BY <1>1, <2>2 DEF KeysSpent
    <2>3. CASE ~Old(i) /\ ~Old(j)
      BY <1>1, <2>3
    <2> HIDE DEF Old
    <2> QED
      BY <1>5, <2>1, <2>2, <2>3
  <1> QED
    BY <1>3, <1>4, <1>5, RowsStay DEF KeysSpent, OneDecisionPerKey

(* ApprovalService's OneDecisionPerKey: one decision per key, however      *)
(* often and however concurrently it is submitted, wherever calls are      *)
(* cancelled or die, and whichever store calls outside the try block of    *)
(* submit_signed_decision raise.  Not so if one inside does: `except'      *)
(* releases the key although the decision may have been appended.          *)
THEOREM OneDecisionPerKeyHolds ==
    ASSUME Idempotency, Raising \cap TryPoints = {}
    PROVE  Spec => []OneDecisionPerKey
  <1>1. Init => KeysSpent
    <2> SUFFICES ASSUME Init
                 PROVE  KeysSpent
      OBVIOUS
    <2>1. Positions("decision.recorded") = {}
      BY DEF Init, Positions
    <2> QED
      BY <2>1 DEF Init, KeysSpent, OneDecisionPerKey
  <1>2. IInv /\ KeysSpent /\ [Next]_vars => KeysSpent'
    BY KeysStaySpent
  <1>3. KeysSpent => OneDecisionPerKey
    BY DEF KeysSpent
  <1> QED
    BY <1>1, <1>2, <1>3, Invariant, PTL DEF Spec

-----------------------------------------------------------------------------
(* No wedged key, as long as nobody is cancelled or dies and the calls of  *)
(* the IdempotencyStore itself do not raise.                               *)

(* What NoWedgedKey takes to be inductive: a row that is not completed has *)
(* a call that will complete or release it.                                *)
RowsAttended ==
    /\ \A t \in Tasks : pc[t] \in {"reserve", "complete", "release"} => Idempotency
    /\ \A k \in DOMAIN idem :
          idem[k].completed \/ \E t \in Tasks : Holds(t) /\ KeyOf(env[t]) = k
    /\ ~Idempotency => DOMAIN idem = {}

(* Who holds a key goes on holding it, or completes it, or deletes it.     *)
LEMMA HoldersGoOn ==
    ASSUME ~Crashes, Raising \cap {"reserve", "complete", "release"} = {},
           IInv, Idempotency, NEW t \in Tasks, Holds(t),
           Step(t) \/ StoreRaises(t) \/ Crash(t)
    PROVE  \/ Holds(t)' /\ env'[t] = env[t]
           \/ pc[t] = "complete" /\ CompletesRow(t)
           \/ pc[t] = "release" /\ DeletesRow(t)
  <1>1. /\ pc \in [Tasks -> Ended \cup StorePoints]
        /\ LocalsFit
    BY DEF IInv, TypeOK
  <1>2. /\ env[t] # NoEnvelope
        /\ pc[t] \in {"decision_append", "recompute", "status_append", "upsert",
                      "complete", "release"}
    BY DEF Holds, DecisionCall, TryPoints
  <1> USE DEF Go
  <1>3. CASE DecisionAppend(t) \/ Recompute(t) \/ StatusAppend(t)
    BY <1>1, <1>2, <1>3 DEF DecisionAppend, Recompute, StatusAppend, AppendStep, Holds,
                            DecisionCall, TryPoints
  <1>4. CASE Upsert(t)
    <2>1. pc'[t] = "complete" /\ env' = env
      BY <1>1, <1>2, <1>4 DEF Upsert, locals
    <2> QED
      BY <1>2, <2>1 DEF Holds, DecisionCall
  <1>5. CASE Complete(t) \/ Release(t)
    BY <1>5 DEF Complete, Release
  <1>6. CASE StoreRaises(t)
    <2>1. pc'[t] = "release" /\ env' = env
      BY <1>1, <1>2, <1>6 DEF StoreRaises, Handler, TryPoints, locals
    <2> QED
      BY <1>2, <2>1 DEF Holds, DecisionCall
  <1>7. CASE \/ CreateLoad(t) \/ CreateAppend(t) \/ ProjectRead(t) \/ DecideLoad(t)
             \/ SubmitLoad(t) \/ ReserveWon(t) \/ ReserveLost(t) \/ ReadStatus(t) \/ Crash(t)
    BY <1>2, <1>7 DEF CreateLoad, CreateAppend, ProjectRead, DecideLoad, SubmitLoad,
                      ReserveWon, ReserveLost, ReadStatus, Crash
  <1> QED
    BY <1>3, <1>4, <1>5, <1>6, <1>7 DEF Step

(* complete and release are reached with a store only. *)
LEMMA StepsAskForIdempotency ==
    ASSUME IInv, NEW t \in Tasks, Step(t) \/ StoreRaises(t) \/ Crash(t),
           pc'[t] \in {"reserve", "complete", "release"}
    PROVE  Idempotency
  <1>1. pc \in [Tasks -> Ended \cup StorePoints]
    BY DEF IInv, TypeOK
  <1>2. CASE StoreRaises(t) \/ Crash(t)
    BY <1>1, <1>2 DEF StoreRaises, Crash, Handler, Go
  <1>3. CASE Step(t)
    BY <1>1, <1>3 DEF Step, CreateLoad, CreateAppend, ProjectRead, Upsert, DecideLoad,
                      SubmitLoad, ReserveWon, ReserveLost, DecisionAppend, Recompute,
                      StatusAppend, Complete, ReadStatus, Release, AppendStep, Go
  <1> QED
    BY <1>2, <1>3

(* What complete does to the rows. *)
LEMMA RowsWhenCompleted ==
    ASSUME IInv, NEW t \in Tasks, CompletesRow(t)
    PROVE  /\ DOMAIN idem' = DOMAIN idem
           /\ \A k \in DOMAIN idem :
                 /\ idem'[k].fingerprint = idem[k].fingerprint
                 /\ k = KeyOf(env[t]) => idem'[k].completed
                 /\ k # KeyOf(env[t]) => idem'[k] = idem[k]
  <1> DEFINE key == KeyOf(env[t])
             row == [idem[key] EXCEPT !.completed = TRUE]
  <1>1. idem' = [idem EXCEPT ![key] = row]
    BY DEF CompletesRow
  <1>2. \A k \in DOMAIN idem : idem[k] \in Row
    BY DEF IInv, TypeOK
  <1>3. key \in DOMAIN idem => row.fingerprint = idem[key].fingerprint /\ row.completed
    BY <1>2 DEF Row
  <1> HIDE DEF key, row
  <1> QED
    BY <1>1, <1>3 DEF key

(* Who inserts a row without an error has won its key. *)
LEMMA ReservesWin ==
    ASSUME IInv, NEW t \in Tasks, Step(t), pc[t] = "reserve", idem' # idem
    PROVE  pc'[t] = "decision_append" /\ env' = env /\ env[t] # NoEnvelope
  <1>1. /\ pc \in [Tasks -> Ended \cup StorePoints]
        /\ env[t] # NoEnvelope
    BY DEF IInv, TypeOK, LocalsFit, DecisionPoints
  <1>2. ReserveWon(t) \/ ReserveLost(t)
    BY DEF Step, CreateLoad, CreateAppend, ProjectRead, Upsert, DecideLoad, SubmitLoad,
           DecisionAppend, Recompute, StatusAppend, Complete, ReadStatus, Release
  <1> QED
    BY <1>1, <1>2 DEF ReserveWon, ReserveLost, Go, stores, locals

(* RowsAttended is inductive. *)
LEMMA RowsStayAttended ==
    ASSUME ~Crashes, Raising \cap {"reserve", "complete", "release"} = {},
           IInv, RowsAttended, [Next]_vars
    PROVE  RowsAttended'
  <1>1. CASE UNCHANGED vars \/ Tick
    BY <1>1 DEF vars, Tick, stores, locals, RowsAttended, Holds, DecisionCall
  <1>2. ASSUME NEW t \in Tasks, Call(t)
        PROVE  RowsAttended'
    <2>1. ~Holds(t)
      BY <1>2, CallsBegin DEF Holds, Ended, TryPoints
    <2>2. \A u \in Tasks : Holds(u) => Holds(u)' /\ env'[u] = env[u]
      BY <1>2, <2>1, CallsBegin DEF Holds, DecisionCall
    <2>3. \A u \in Tasks : pc'[u] \in {"reserve", "complete", "release"} => Idempotency
      BY <1>2, CallsBegin DEF RowsAttended
    <2>4. idem' = idem
      BY <1>2, CallsBegin
    <2> QED
      BY <2>2, <2>3, <2>4 DEF RowsAttended
  <1>3. ASSUME NEW t \in Tasks, Step(t) \/ StoreRaises(t) \/ Crash(t)
        PROVE  RowsAttended'
    <2>1. \A u \in Tasks \ {t} : pc'[u] = pc[u] /\ env'[u] = env[u]
      BY <1>3, OneCallMoves
    <2>2. pc'[t] \in {"reserve", "complete", "release"} => Idempotency
      BY <1>3, StepsAskForIdempotency
    <2>3. \A u \in Tasks : pc'[u] \in {"reserve", "complete", "release"} => Idempotency
      BY <2>1, <2>2 DEF RowsAttended
    <2>4. CASE ~Idempotency
      <3>1. idem' = idem
        BY <1>3, <2>4, StepsGo DEF RowsAttended
      <3> QED
        BY <2>3, <2>4, <3>1 DEF RowsAttended
    <2>5. CASE Idempotency
      <3>1. ASSUME NEW k \in DOMAIN idem', ~idem'[k].completed
            PROVE  \E u \in Tasks : (Holds(u) /\ KeyOf(env[u]) = k)'
        <4>1. CASE k \in DOMAIN idem /\ ~idem[k].completed
          <5>1. PICK u \in Tasks : Holds(u) /\ KeyOf(env[u]) = k
            BY <4>1 DEF RowsAttended
          <5>2. CASE u # t
            BY <2>1, <5>1, <5>2 DEF Holds, DecisionCall
          <5>3. CASE u = t
            <6>1. \/ Holds(t)' /\ env'[t] = env[t]
                  \/ pc[t] = "complete" /\ CompletesRow(t)
                  \/ pc[t] = "release" /\ DeletesRow(t)
              BY <1>3, <2>5, <5>1, <5>3, HoldersGoOn
            <6>2. ~(pc[t] = "complete" /\ CompletesRow(t))
              BY <3>1, <4>1, <5>1, <5>3, RowsWhenCompleted
            <6>3. ~(pc[t] = "release" /\ DeletesRow(t))
              BY <3>1, <5>1, <5>3 DEF DeletesRow
            <6> QED
              BY <5>1, <5>3, <6>1, <6>2, <6>3
          <5> QED
            BY <5>2, <5>3
        <4>2. CASE ~(k \in DOMAIN idem /\ ~idem[k].completed)
          <5>1. pc[t] = "reserve" /\ InsertsRow(t) /\ k = KeyOf(env[t])
            <6>1. ~DeletesRow(t)
              BY <3>1, <4>2 DEF DeletesRow
            <6>2. ~CompletesRow(t)
              BY <3>1, <4>2, RowsWhenCompleted
            <6>3. InsertsRow(t) => k = KeyOf(env[t])
              BY <3>1, <4>2 DEF InsertsRow
            <6> QED
              BY <1>3, <3>1, <4>2, <6>1, <6>2, <6>3, StepsGo
          <5>2. ~StoreRaises(t) /\ ~Crash(t)
            BY <5>1 DEF StoreRaises, Crash
          <5>3. idem' # idem
            BY <3>1, <4>2
          <5>4. pc'[t] = "decision_append" /\ env' = env /\ env[t] # NoEnvelope
            BY <1>3, <5>1, <5>2, <5>3, ReservesWin
          <5> QED
            BY <5>1, <5>4 DEF Holds, DecisionCall, TryPoints
        <4> QED
          BY <4>1, <4>2
      <3> QED
        BY <2>3, <2>5, <3>1 DEF RowsAttended
    <2> QED
      BY <2>4, <2>5
  <1> QED
    BY <1>1, <1>2, <1>3 DEF Next

(* ApprovalService's NoWedgedKey: once nothing is under way every row has  *)
(* been completed, whatever raises in the work a decision does under its   *)
(* key, as ADR-0007 has it.  Not so if calls may be cancelled, or if       *)
(* reserve, complete or release themselves may raise.                      *)
THEOREM NoWedgedKeyHolds ==
    ASSUME ~Crashes, Raising \cap {"reserve", "complete", "release"} = {}
    PROVE  Spec => []NoWedgedKey
  <1>1. Init => RowsAttended
    BY DEF Init, RowsAttended
  <1>2. IInv /\ RowsAttended /\ [Next]_vars => RowsAttended'
    BY RowsStayAttended
  <1>3. RowsAttended => NoWedgedKey
    BY DEF RowsAttended, NoWedgedKey, AtRest, Holds, Ended, TryPoints
  <1> QED
    BY <1>1, <1>2, <1>3, Invariant, PTL DEF Spec

-----------------------------------------------------------------------------
(* Acknowledged decisions are recorded, as long as nobody is cancelled or  *)
(* dies and neither reserve nor the append of a decision raises.           *)

Recorded(e) == \E i \in Positions("decision.recorded") : ledger[i].env = e

(* It is there or its caller is about to append it. *)
Pledged(e) ==
    Recorded(e) \/ \E u \in Tasks : pc[u] = "decision_append" /\ env[u] = e

AfterAppend == {"recompute", "status_append", "upsert", "complete", "release"}

(* What AcksAreRecorded takes to be inductive: a row stands for a decision *)
(* that is there or will be, so whoever is answered on the strength of a   *)
(* row relies on such a decision.                                          *)
Acked ==
    /\ \A t \in Tasks : DecisionCall(t) /\ pc[t] \in AfterAppend => Recorded(env[t])
    /\ \A t \in Tasks : DecisionCall(t) /\ pc[t] \in {"read", "ok"} => Pledged(env[t])
    /\ \A k \in DOMAIN idem : \E e \in AllEnvelopes :
          e.authorized /\ idem[k].fingerprint = Fingerprint(e) /\ Pledged(e)

(* A fingerprint tells two decisions that the log accepts apart.           *)
LEMMA FingerprintsTellApart ==
    ASSUME NEW e \in AllEnvelopes, NEW f \in AllEnvelopes,
           e.authorized, f.authorized, Fingerprint(e) = Fingerprint(f)
    PROVE  e = f
  <1>1. ASSUME NEW g \in AllEnvelopes
        PROVE  /\ g = [approver |-> g.approver, verdict |-> g.verdict, key |-> g.key,
                       decided_at |-> g.decided_at, context |-> g.context,
                       authorized |-> g.authorized]
               /\ g.authorized \in BOOLEAN
    <2>1. CASE g \in Envelopes
      BY <2>1, EnvelopesAssumption
    <2>2. CASE g \in SubmittedByService
      BY <2>2 DEF SubmittedByService
    <2> QED
      BY <2>1, <2>2 DEF AllEnvelopes
  <1>2. e.authorized = TRUE /\ f.authorized = TRUE
    BY <1>1
  <1>3. /\ e.approver = f.approver /\ e.verdict = f.verdict /\ e.key = f.key
        /\ e.decided_at = f.decided_at /\ e.context = f.context
    BY DEF Fingerprint
  <1> QED
    BY <1>1, <1>2, <1>3

(* A step by way of which a decision gets where it is recorded. *)
LEMMA WaysOfADecision ==
    ASSUME ~Crashes, Raising \cap {"reserve", "decision_append"} = {},
           IInv, NEW t \in Tasks, Step(t) \/ StoreRaises(t) \/ Crash(t)
    PROVE  /\ pc[t] = "decision_append" => DecisionAppend(t)
           /\ pc'[t] \in AfterAppend =>
                 \/ pc[t] \in AfterAppend /\ env'[t] = env[t]
                 \/ DecisionAppend(t)
                 \/ env'[t] = NoEnvelope
           /\ pc'[t] = "read" => ReserveLost(t)
           /\ pc'[t] = "ok" =>
                 \/ pc[t] \in AfterAppend \cup {"read"} /\ env'[t] = env[t]
                 \/ env'[t] = NoEnvelope
           /\ pc[t] = "reserve" => ReserveWon(t) \/ ReserveLost(t)
  <1>1. /\ pc \in [Tasks -> Ended \cup StorePoints]
        /\ env \in [Tasks -> AllEnvelopes \cup {NoEnvelope}]
        /\ pc[t] \in CreatePoints => env[t] = NoEnvelope
    BY DEF IInv, TypeOK, LocalsFit
  <1> USE DEF Go, AfterAppend
  <1>2. CASE StoreRaises(t)
    <2>1. /\ pc[t] \notin {"reserve", "decision_append"} /\ env' = env
          /\ pc'[t] = Handler(t)
      BY <1>1, <1>2 DEF StoreRaises, locals
    <2>2. /\ pc'[t] \in {"release", "error"}
          /\ pc'[t] = "release" => pc[t] \in AfterAppend
      BY <2>1 DEF Handler, TryPoints
    <2> QED
      BY <2>1, <2>2
  <1>3. CASE CreateLoad(t) \/ CreateAppend(t) \/ ProjectRead(t)
    BY <1>1, <1>3 DEF CreateLoad, CreateAppend, ProjectRead, AppendStep, CreatePoints
  <1>4. CASE DecisionAppend(t) \/ StatusAppend(t) \/ Recompute(t)
    BY <1>1, <1>4 DEF DecisionAppend, StatusAppend, Recompute, AppendStep
  <1>5. CASE Upsert(t) \/ Complete(t) \/ Release(t) \/ ReserveWon(t) \/ ReserveLost(t)
    BY <1>1, <1>5 DEF Upsert, Complete, Release, ReserveWon, ReserveLost, locals
  <1>6. CASE DecideLoad(t) \/ SubmitLoad(t) \/ ReadStatus(t)
    BY <1>1, <1>6 DEF DecideLoad, SubmitLoad, ReadStatus
  <1>7. ~Crash(t)
    BY DEF Crash
  <1> QED
    BY <1>2, <1>3, <1>4, <1>5, <1>6, <1>7 DEF Step

(* Decisions stay in the log, and pledges are kept. *)
LEMMA PledgesAreKept ==
    ASSUME ~Crashes, Raising \cap {"reserve", "decision_append"} = {}, IInv, [Next]_vars
    PROVE  /\ \A e : Recorded(e) => Recorded(e)'
           /\ \A e : Pledged(e) => Pledged(e)'
           /\ \A t \in Tasks : DecisionAppend(t) => Recorded(env[t])'
  <1>1. ledger \in Seq(Entry) /\ env \in [Tasks -> AllEnvelopes \cup {NoEnvelope}]
    BY DEF IInv, TypeOK
  <1>2. ASSUME NEW e, Recorded(e)
        PROVE  Recorded(e)'
    <2>1. PICK i \in Positions("decision.recorded") : ledger[i].env = e
      BY <1>2 DEF Recorded
    <2>2. ledger' = ledger \/ \E f : ledger' = Append(ledger, f)
      BY LogGrows
    <2>3. i \in Positions("decision.recorded")' /\ ledger'[i] = ledger[i]
      BY <1>1, <2>1, <2>2 DEF Positions
    <2> QED
      BY <2>1, <2>3 DEF Recorded
  <1>3. ASSUME NEW t \in Tasks, DecisionAppend(t)
        PROVE  Recorded(env[t])'
    <2>1. /\ ledger' = Append(ledger, [type |-> "decision.recorded", env |-> env[t]])
          /\ env' = env
      BY <1>3 DEF DecisionAppend, AppendStep, WritesEntry, EntryFrom
    <2>2. /\ Len(ledger) + 1 \in Positions("decision.recorded")'
          /\ ledger'[Len(ledger) + 1].env = env[t]
      BY <1>1, <2>1 DEF Positions
    <2> QED
      BY <2>1, <2>2 DEF Recorded
  <1>4. ASSUME NEW u \in Tasks, pc[u] = "decision_append"
        PROVE  /\ env'[u] = env[u]
               /\ pc'[u] = "decision_append" \/ Recorded(env[u])'
    <2>1. UNCHANGED vars \/ Tick => pc'[u] = pc[u] /\ env'[u] = env[u]
      BY DEF vars, Tick, locals
    <2>2. ASSUME NEW t \in Tasks, Call(t)
          PROVE  pc'[u] = pc[u] /\ env'[u] = env[u]
      BY <1>4, <2>2, CallsBegin DEF Ended
    <2>3. ASSUME NEW t \in Tasks, Step(t) \/ StoreRaises(t) \/ Crash(t)
          PROVE  \/ pc'[u] = pc[u] /\ env'[u] = env[u]
                 \/ DecisionAppend(u)
      BY <1>4, <2>3, OneCallMoves, WaysOfADecision
    <2>4. DecisionAppend(u) => Recorded(env[u])'
      BY <1>3
    <2>5. DecisionAppend(u) => env'[u] = env[u]
      BY DEF DecisionAppend, AppendStep
    <2>6. (pc'[u] = pc[u] /\ env'[u] = env[u]) \/ DecisionAppend(u)
      BY <2>1, <2>2, <2>3 DEF Next, vars
    <2> QED
      BY <1>4, <2>4, <2>5, <2>6
  <1>5. ASSUME NEW e, Pledged(e)
        PROVE  Pledged(e)'
    <2>1. CASE Recorded(e)
      BY <1>2, <2>1 DEF Pledged
    <2>2. ASSUME NEW u \in Tasks, pc[u] = "decision_append", env[u] = e
          PROVE  Pledged(e)'
      <3>1. env'[u] = e /\ (pc'[u] = "decision_append" \/ Recorded(env[u])')
        BY <1>4, <2>2
      <3>2. Recorded(env[u])' => Recorded(e)'
        BY <3>1 DEF Recorded
      <3> QED
        BY <3>1, <3>2 DEF Pledged
    <2> QED
      BY <1>5, <2>1, <2>2 DEF Pledged
  <1> QED
    BY <1>2, <1>3, <1>5

(* Acked is inductive. *)
LEMMA AckedStays ==
    ASSUME ~Crashes, Raising \cap {"reserve", "decision_append"} = {},
           IInv, Acked, [Next]_vars
    PROVE  Acked'
  <1> DEFINE Fine(u) ==
                /\ DecisionCall(u) /\ pc[u] \in AfterAppend => Recorded(env[u])
                /\ DecisionCall(u) /\ pc[u] \in {"read", "ok"} => Pledged(env[u])
             RowsFine == \A k \in DOMAIN idem : \E e \in AllEnvelopes :
                e.authorized /\ idem[k].fingerprint = Fingerprint(e) /\ Pledged(e)
  <1>1. /\ \A u \in Tasks : Fine(u)
        /\ RowsFine
        /\ (\A u \in Tasks : Fine(u)') /\ RowsFine' => Acked'
    BY DEF Acked
  <1>2. ASSUME NEW u \in Tasks, pc'[u] = pc[u], env'[u] = env[u]
        PROVE  Fine(u)'
    <2>1. /\ Recorded(env[u]) => Recorded(env[u])'
          /\ Pledged(env[u]) => Pledged(env[u])'
      <3>1. \A e : /\ Recorded(e) => Recorded(e)'
                   /\ Pledged(e) => Pledged(e)'
        BY PledgesAreKept
      <3> QED
        BY <1>2, <3>1 DEF Recorded, Pledged
    <2> QED
      BY <1>1, <1>2, <2>1 DEF DecisionCall
  <1>3. ASSUME idem' = idem
        PROVE  RowsFine'
    BY <1>1, <1>3, PledgesAreKept
  <1>4. CASE UNCHANGED vars \/ Tick
    BY <1>1, <1>2, <1>3, <1>4 DEF vars, Tick, stores, locals
  <1>5. ASSUME NEW t \in Tasks, Call(t)
        PROVE  Acked'
    <2>1. Fine(t)'
      BY <1>5, CallsBegin DEF AfterAppend, DecisionCall
    <2> QED
      BY <1>1, <1>2, <1>3, <1>5, <2>1, CallsBegin
  <1>6. ASSUME NEW t \in Tasks, Step(t) \/ StoreRaises(t) \/ Crash(t)
        PROVE  Acked'
    <2>1. \A u \in Tasks \ {t} : Fine(u)'
      BY <1>2, <1>6, OneCallMoves
    <2>2. Fine(t)'
      <3>1. ASSUME env'[t] = env[t], Recorded(env[t])
            PROVE  Recorded(env[t])' /\ Pledged(env[t])'
        BY <3>1, PledgesAreKept DEF Recorded, Pledged
      <3>2. ASSUME env'[t] = env[t], Pledged(env[t])
            PROVE  Pledged(env[t])'
        BY <3>2, PledgesAreKept DEF Recorded, Pledged
      <3>3. ASSUME DecisionCall(t)', pc'[t] \in AfterAppend
            PROVE  Recorded(env[t])'
        <4>1. CASE pc[t] \in AfterAppend /\ env'[t] = env[t]
          BY <1>1, <3>1, <3>3, <4>1 DEF DecisionCall
        <4>2. CASE DecisionAppend(t)
          BY <4>2, PledgesAreKept
        <4> QED
          BY <1>6, <3>3, <4>1, <4>2, WaysOfADecision DEF DecisionCall
      <3>4. ASSUME DecisionCall(t)', pc'[t] = "read"
            PROVE  Pledged(env[t])'
        <4>1. ReserveLost(t)
          BY <1>6, <3>4, WaysOfADecision
        <4>2. /\ pc[t] = "reserve" /\ env' = env
              /\ KeyOf(env[t]) \in DOMAIN idem
              /\ idem[KeyOf(env[t])].fingerprint = Fingerprint(env[t])
          BY <3>4, <4>1 DEF ReserveLost, Go, IInv, TypeOK, locals
        <4>3. env[t] \in AllEnvelopes /\ env[t].authorized
          BY <4>2 DEF IInv, TypeOK, LocalsFit, DecisionPoints, Checked
        <4>4. PICK e \in AllEnvelopes : /\ e.authorized /\ Pledged(e)
                                        /\ Fingerprint(e) = Fingerprint(env[t])
          BY <1>1, <4>2
        <4>5. e = env[t]
          BY <4>3, <4>4, FingerprintsTellApart
        <4> QED
          BY <3>2, <4>2, <4>4, <4>5
      <3>5. ASSUME DecisionCall(t)', pc'[t] = "ok"
            PROVE  Pledged(env[t])'
        <4>1. pc[t] \in AfterAppend \cup {"read"} /\ env'[t] = env[t]
          BY <1>6, <3>5, WaysOfADecision DEF DecisionCall
        <4>2. CASE pc[t] \in AfterAppend
          BY <1>1, <3>1, <3>5, <4>1, <4>2 DEF DecisionCall
        <4>3. CASE pc[t] = "read"
          BY <1>1, <3>2, <3>5, <4>1, <4>3 DEF DecisionCall
        <4> QED
          BY <4>1, <4>2, <4>3
      <3> QED
        BY <3>3, <3>4, <3>5
    <2>3. RowsFine'
      <3>1. CASE pc[t] = "reserve" /\ InsertsRow(t)
        <4>1. ReserveWon(t) \/ ReserveLost(t)
          BY <1>6, <3>1, WaysOfADecision
        <4>2. CASE ReserveLost(t)
          BY <1>3, <4>2 DEF ReserveLost, stores
        <4>3. CASE ReserveWon(t)
          <5>1. pc'[t] = "decision_append" /\ env' = env
            BY <4>3 DEF ReserveWon, Go, IInv, TypeOK, locals
          <5>2. env[t] \in AllEnvelopes /\ env[t].authorized /\ Pledged(env[t])'
            BY <3>1, <5>1 DEF IInv, TypeOK, LocalsFit, DecisionPoints, Checked, Pledged
          <5>3. ASSUME NEW k \in DOMAIN idem'
                PROVE  \E e \in AllEnvelopes :
                          e.authorized /\ idem'[k].fingerprint = Fingerprint(e) /\ Pledged(e)'
            <6>1. CASE k = KeyOf(env[t])
              <7>1. idem'[k].fingerprint = Fingerprint(env[t])
                BY <3>1, <6>1 DEF InsertsRow
              <7>2. Pledged(env[t])' <=> \E e : e = env[t] /\ Pledged(e)'
                BY <5>1 DEF Pledged, Recorded
              <7> QED
                BY <5>2, <7>1, <7>2
            <6>2. CASE k # KeyOf(env[t])
              <7>1. k \in DOMAIN idem /\ idem'[k] = idem[k]
                BY <3>1, <6>2 DEF InsertsRow
              <7> QED
                BY <1>1, <7>1, PledgesAreKept
            <6> QED
              BY <6>1, <6>2
          <5> QED
            BY <5>3
        <4> QED
          BY <4>1, <4>2, <4>3
      <3>2. CASE CompletesRow(t)
        <4>1. /\ DOMAIN idem' = DOMAIN idem
              /\ \A k \in DOMAIN idem : idem'[k].fingerprint = idem[k].fingerprint
          BY <3>2, RowsWhenCompleted
        <4> QED
          BY <1>1, <4>1, PledgesAreKept
      <3>3. CASE DeletesRow(t)
        <4>1. \A k \in DOMAIN idem' : k \in DOMAIN idem /\ idem'[k] = idem[k]
          BY <3>3 DEF DeletesRow
        <4> QED
          BY <1>1, <4>1, PledgesAreKept
      <3> QED
        BY <1>3, <1>6, <3>1, <3>2, <3>3, StepsGo
    <2> QED
      BY <1>1, <2>1, <2>2, <2>3
  <1> QED
    BY <1>4, <1>5, <1>6 DEF Next

(* ApprovalService's AcksAreRecorded: once all is quiet a decision that    *)
(* was acknowledged is in the log, also if it was another call's append    *)
(* the caller was told of, and whatever raises after that append or before *)
(* the reservation.  Not so if the append or reserve may raise, or a call  *)
(* be cancelled, with losers of the key already answered.                  *)
THEOREM AcksAreRecordedHolds ==
    ASSUME ~Crashes, Raising \cap {"reserve", "decision_append"} = {}
    PROVE  Spec => []AcksAreRecorded
  <1>1. Init => Acked
    BY DEF Init, Acked, AfterAppend
  <1>2. IInv /\ Acked /\ [Next]_vars => Acked'
    BY AckedStays
  <1>3. Acked => AcksAreRecorded
    BY DEF Acked, AcksAreRecorded, AtRest, Pledged, Recorded, Ended
  <1> QED
    BY <1>1, <1>2, <1>3, Invariant, PTL DEF Spec

-----------------------------------------------------------------------------
(* Outcomes are announced, as long as nobody is cancelled or dies, and the *)
(* append of a decision, the read that recomputes after it and the append  *)
(* of a status do not raise.                                               *)

Outcomes == {"approved", "rejected"}

Announced(s) == \E i \in Positions("status.changed") : ledger[i].status = s

AboutToAnnounce(s) == \E t \in Tasks : pc[t] = "status_append" /\ status[t] = s

(* What OutcomesAnnounced takes to be inductive: until the outcome is      *)
(* announced some call that has seen it is about to do so, or some call is *)
(* yet to look at all of the log.                                          *)
Attentive ==
    RequestExists =>
        \/ \E t \in Tasks : pc[t] = "recompute"
        \/ LET s == Recomputed(FirstBody)
           IN  s \in Outcomes => Announced(s) \/ AboutToAnnounce(s)

(* Time makes no outcome and takes none away. *)
LEMMA OutcomesOutlastTime ==
    ASSUME NEW n, NEW b, NEW at1, NEW at2, StatusAfter(n, b, at1) \in Outcomes
    PROVE  StatusAfter(n, b, at2) = StatusAfter(n, b, at1)
  BY DEF StatusAfter, Evaluate, Outcomes

(* Nobody has decided a request that nobody has voted on. *)
LEMMA NoVoicesNoOutcome ==
    ASSUME PolicyInForce.threshold >= 1, NEW request, NEW decisions, NEW at,
           DOMAIN decisions = {}
    PROVE  Evaluate(request, decisions, PolicyInForce, Identities, at).status \notin Outcomes
  <1> DEFINE voices == Voices(decisions,
                              Counted(request, decisions, PolicyInForce, Identities))
  <1>1. voices = {}
    BY DEF Voices, Counted
  <1>2. Voters(decisions, voices, "reject") = {} /\ Voters(decisions, voices, "approve") = {}
    BY <1>1 DEF Voters
  <1>3. ~(Cardinality(Voters(decisions, voices, "approve")) >= PolicyInForce.threshold)
    BY <1>2, FS_EmptySet, ThresholdAssumption
  <1> HIDE DEF voices
  <1>4. Evaluate(request, decisions, PolicyInForce, Identities, at).status
           \in {"expired", "pending"}
    BY <1>2, <1>3 DEF Evaluate, voices
  <1> QED
    BY <1>4 DEF Outcomes

(* A decision appended is a decision to recompute for, and any other step  *)
(* leaves the decisions in the log alone.                                  *)
LEMMA EvidenceStays ==
    ASSUME Raising \cap {"decision_append"} = {}, IInv, [Next]_vars
    PROVE  \/ \E t \in Tasks : DecisionAppend(t) /\ RequestExists
           \/ DecisionsIn(Len(ledger))' = DecisionsIn(Len(ledger))
  <1> DEFINE D == Positions("decision.recorded")
  <1>1. ledger \in Seq(Entry)
    BY DEF IInv, TypeOK
  <1>2. CASE \E i \in D' : ~(i \in D /\ ledger'[i] = ledger[i])
    <2>1. PICK t \in Tasks : /\ pc[t] = "decision_append"
                             /\ DecisionAppend(t) \/ StoreRaises(t)
      BY <1>2, NewDecisions
    <2>2. DecisionAppend(t)
      BY <2>1 DEF StoreRaises
    <2>3. RequestExists
      BY <2>1 DEF IInv, LocalsFit, Checked
    <2> QED
      BY <2>2, <2>3
  <1>3. CASE \A i \in D' : i \in D /\ ledger'[i] = ledger[i]
    <2>1. D \subseteq D' /\ Len(ledger) \in Nat /\ Len(ledger') \in Nat
      BY <1>1, LogGrows DEF Positions
    <2>2. D' = D /\ \A i \in D : ledger'[i] = ledger[i]
      BY <1>3, <2>1
    <2>3. \A i \in D : i <= Len(ledger) /\ i <= Len(ledger')
      <3>1. D \subseteq 1 .. Len(ledger)
        BY <1>1 DEF Positions
      <3>2. Len(ledger) <= Len(ledger')
        BY <1>1, LogGrows
      <3> QED
        BY <2>1, <3>1, <3>2
    <2> DEFINE A == {k \in D : k <= Len(ledger) /\ ledger[k].env.authorized}
    <2>4. A' = A
      BY <2>2, <2>3
    <2>5. DecisionsIn(Len(ledger)) = [i \in A |-> ledger[i].env]
      BY DEF DecisionsIn
    <2>6. DecisionsIn(Len(ledger))' = [i \in A' |-> ledger'[i].env]
      BY DEF DecisionsIn
    <2>7. A \subseteq D
      OBVIOUS
    <2> HIDE DEF A, D
    <2>8. [i \in A |-> ledger'[i].env] = [i \in A |-> ledger[i].env]
      BY <2>2, <2>7
    <2> QED
      BY <2>4, <2>5, <2>6, <2>8
  <1> QED
    BY <1>2, <1>3

(* Where there is no request yet there are no decisions. *)
LEMMA NothingToDecide ==
    ASSUME IInv, ~RequestExists
    PROVE  DOMAIN DecisionsIn(Len(ledger)) = {}
  BY DEF IInv, DecisionsBind, RequestExists, DecisionsIn

(* Calls that recompute or announce wait until they have done so. *)
LEMMA AnnouncersGoOn ==
    ASSUME ~Crashes, Raising \cap {"recompute", "status_append"} = {},
           IInv, [Next]_vars, NEW u \in Tasks
    PROVE  /\ pc[u] = "recompute" => pc'[u] = "recompute" \/ Recompute(u)
           /\ pc[u] = "status_append" =>
                \/ pc'[u] = "status_append" /\ status'[u] = status[u]
                \/ StatusAppend(u)
  <1>1. CASE UNCHANGED vars \/ Tick
    BY <1>1 DEF vars, Tick, locals
  <1>2. ASSUME NEW t \in Tasks, Call(t)
        PROVE  /\ pc[u] = "recompute" => pc'[u] = "recompute"
               /\ pc[u] = "status_append" =>
                    pc'[u] = "status_append" /\ status'[u] = status[u]
    BY <1>2, CallsBegin DEF Ended
  <1>3. ASSUME NEW t \in Tasks, Step(t) \/ StoreRaises(t) \/ Crash(t), u # t
        PROVE  pc'[u] = pc[u] /\ status'[u] = status[u]
    BY <1>3, OneCallMoves
  <1>4. (~StoreRaises(u) /\ ~Crash(u)) \/ pc[u] \notin {"recompute", "status_append"}
    BY DEF StoreRaises, Crash
  <1>5. ASSUME Step(u)
        PROVE  /\ pc[u] = "recompute" => Recompute(u)
               /\ pc[u] = "status_append" => StatusAppend(u)
    <2>1. /\ Recompute(u) => pc[u] = "recompute"
          /\ StatusAppend(u) => pc[u] = "status_append"
      BY DEF Recompute, StatusAppend
    <2> QED
      BY <1>5, <2>1 DEF Step, CreateLoad, CreateAppend, ProjectRead, Upsert, DecideLoad,
         SubmitLoad, ReserveWon, ReserveLost, DecisionAppend, Complete, ReadStatus,
         Release
  <1> QED
    BY <1>1, <1>2, <1>3, <1>4, <1>5 DEF Next

(* Attentive is inductive. *)
LEMMA AttentiveStays ==
    ASSUME ~Crashes,
           Raising \cap {"decision_append", "recompute", "status_append"} = {},
           PolicyInForce.threshold >= 1,
           IInv, Computing, Attentive, [Next]_vars
    PROVE  Attentive'
  <1> SUFFICES ASSUME RequestExists', \A t \in Tasks : pc'[t] # "recompute",
                      NEW s, s = Recomputed(FirstBody)', s \in Outcomes
               PROVE  Announced(s)' \/ AboutToAnnounce(s)'
    BY DEF Attentive, Announced, AboutToAnnounce
  <1>1. /\ ledger \in Seq(Entry) /\ pc \in [Tasks -> Ended \cup StorePoints]
        /\ status \in [Tasks -> Statuses \cup {NoStatus}]
    BY DEF IInv, TypeOK
  <1>2. DecisionsIn(Len(ledger))' = DecisionsIn(Len(ledger))
    <2>1. ASSUME NEW t \in Tasks, DecisionAppend(t)
          PROVE  FALSE
      BY <1>1, <2>1 DEF DecisionAppend, AppendStep, Go
    <2> QED
      BY <2>1, EvidenceStays
  <1>3. s = Evaluate(RequestOf(FirstBody'), DecisionsIn(Len(ledger)), PolicyInForce,
                     Identities, now').status
    BY <1>2 DEF Recomputed, StatusAfter, RequestOf
  <1>4. RequestExists
    BY <1>3, NothingToDecide, NoVoicesNoOutcome
  <1>5. s = Recomputed(FirstBody)
    <2>1. s = StatusAfter(Len(ledger), FirstBody, now')
      BY <1>3, <1>4, RequestStays DEF StatusAfter
    <2> QED
      BY <2>1, OutcomesOutlastTime DEF Recomputed
  <1>6. CASE Announced(s)
    <2>1. PICK i \in Positions("status.changed") : ledger[i].status = s
      BY <1>6 DEF Announced
    <2>2. ledger' = ledger \/ \E f : ledger' = Append(ledger, f)
      BY LogGrows
    <2>3. i \in Positions("status.changed")' /\ ledger'[i] = ledger[i]
      BY <1>1, <2>1, <2>2 DEF Positions
    <2> QED
      BY <2>1, <2>3 DEF Announced
  <1>7. ASSUME NEW t \in Tasks, pc[t] = "status_append", status[t] = s
        PROVE  Announced(s)' \/ AboutToAnnounce(s)'
    <2>1. CASE pc'[t] = "status_append" /\ status'[t] = status[t]
      BY <1>7, <2>1 DEF AboutToAnnounce
    <2>2. CASE StatusAppend(t)
      <3>1. ledger' = Append(ledger, [type |-> "status.changed", status |-> s])
        BY <1>7, <2>2 DEF StatusAppend, AppendStep, WritesEntry, EntryFrom
      <3>2. /\ Len(ledger) + 1 \in Positions("status.changed")'
            /\ ledger'[Len(ledger) + 1].status = s
        BY <1>1, <3>1 DEF Positions
      <3> QED
        BY <3>2 DEF Announced
    <2> QED
      BY <1>7, <2>1, <2>2, AnnouncersGoOn
  <1>8. ASSUME NEW t \in Tasks, pc[t] = "recompute"
        PROVE  AboutToAnnounce(s)'
    <2>1. Recompute(t)
      BY <1>8, AnnouncersGoOn
    <2>2. Recomputed(body[t]) = s
      BY <1>5, <1>8 DEF Computing
    <2>3. pc'[t] = "status_append" /\ status'[t] = s
      BY <1>1, <2>1, <2>2 DEF Recompute, Go, Outcomes
    <2> QED
      BY <2>3 DEF AboutToAnnounce
  <1> QED
    BY <1>4, <1>5, <1>6, <1>7, <1>8 DEF Attentive, AboutToAnnounce

(* ApprovalService's OutcomesAnnounced: however many calls race to record  *)
(* their decisions, and whatever each has seen when it recomputes, a       *)
(* request that is approved or rejected is announced as such once all is   *)
(* quiet.  A policy that asks for nobody's approval is left out: its       *)
(* requests are approved before anyone has a decision to record.           *)
THEOREM OutcomesAnnouncedHolds ==
    ASSUME ~Crashes,
           Raising \cap {"decision_append", "recompute", "status_append"} = {},
           PolicyInForce.threshold >= 1
    PROVE  Spec => []OutcomesAnnounced
  <1>1. Init => Computing /\ Attentive
    <2> SUFFICES ASSUME Init
                 PROVE  Computing /\ Attentive
      OBVIOUS
    <2>1. Positions("status.changed") = {} /\ ~RequestExists
      BY DEF Init, Positions, RequestExists
    <2> QED
      BY <2>1 DEF Init, Computing, StatusesJustified, Attentive
  <1>2. IInv /\ Computing /\ [Next]_vars => Computing'
    BY EntriesStayJustified, CallsStayComputing DEF Computing
  <1>3. IInv /\ Computing /\ Attentive /\ [Next]_vars => Attentive'
    BY AttentiveStays
  <1>4. Attentive => OutcomesAnnounced
    BY DEF Attentive, OutcomesAnnounced, AtRest, Ended, Outcomes, Announced,
           AboutToAnnounce
  <1> QED
    BY <1>1, <1>2, <1>3, <1>4, Invariant, PTL DEF Spec
=============================================================================
