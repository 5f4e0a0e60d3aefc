----------------------- MODULE ApprovalServiceProofs -----------------------
(***************************************************************************)
(* Invariants of ApprovalService for any number of concurrent calls, any   *)
(* policy and roster, and stores that fail and tasks that die anywhere.    *)
(***************************************************************************)
EXTENDS ApprovalService, TLAPS

CreatePoints == {"create_load", "create_append", "project_read"}

DecisionPoints == {"decide_load", "submit_load", "reserve", "decision_append",
                   "recompute", "status_append", "complete", "release"}

(* What submit_signed_decision has found out about its envelope by the     *)
(* time it reserves and appends.                                           *)
Checked(e) ==
    /\ RequestExists
    /\ e.context = FirstBody
    /\ e.decided_at.instant <= now + Skew
    /\ e.decided_at.instant <= WindowCloses + Skew
    /\ e.authorized

(* ... and after a step. *)
StillChecked(e) ==
    /\ RequestExists'
    /\ e.context = FirstBody'
    /\ e.decided_at.instant <= now' + Skew
    /\ e.decided_at.instant <= WindowCloses + Skew
    /\ e.authorized

(* What the locals of a call are worth where it waits. *)
LocalsFit ==
    \A t \in Tasks :
        /\ pc[t] \in CreatePoints => env[t] = NoEnvelope
        /\ pc[t] \in DecisionPoints => env[t] # NoEnvelope
        /\ pc[t] = "decide_load" => env[t] \in SubmittedByService
        /\ pc[t] = "status_append" => status[t] \in Statuses \ {"pending"}
        /\ pc[t] \in {"reserve", "decision_append"} => Checked(env[t])

-----------------------------------------------------------------------------
(* "nobody" has signed nothing. *)
LEMMA NobodySigns == NoEnvelope \notin AllEnvelopes
  <1>1. DOMAIN NoEnvelope = {"approver"}
    BY DEF NoEnvelope
  <1>2. ASSUME NEW e \in AllEnvelopes
        PROVE  "verdict" \in DOMAIN e
    <2>1. CASE e \in Envelopes
      BY <2>1, EnvelopesAssumption
    <2>2. CASE e \in SubmittedByService
      BY <2>2 DEF SubmittedByService
    <2> QED
      BY <2>1, <2>2 DEF AllEnvelopes
  <1> QED
    BY <1>1, <1>2

(* A decided_at is a point in time. *)
LEMMA InstantsAreIntegers ==
    ASSUME NEW e \in AllEnvelopes
    PROVE  e.decided_at.instant \in Int
  <1>1. CASE e \in Envelopes
    BY <1>1, EnvelopesAssumption
  <1>2. CASE e \in SubmittedByService
    <2>1. PICK t \in 0 .. MaxTime : e.decided_at = Utc(t)
      BY <1>2 DEF SubmittedByService
    <2>2. Utc(t).instant = t
      BY DEF Utc, Written
    <2> QED
      BY <2>1, <2>2
  <1> QED
    BY <1>1, <1>2 DEF AllEnvelopes

(* A decision's key is one of Keys. *)
LEMMA KeysOfEnvelopes ==
    ASSUME NEW e \in AllEnvelopes
    PROVE  KeyOf(e) \in Keys
  BY DEF Keys

(* evaluate returns a status. *)
LEMMA StatusIsAStatus ==
    ASSUME NEW n, NEW b, NEW at
    PROVE  StatusAfter(n, b, at) \in Statuses
  BY DEF StatusAfter, Evaluate, Statuses

(* Of the request's entries one is the first. *)
FirstIsThere ==
    RequestExists =>
        \E i \in Positions("request.created") :
            \A j \in Positions("request.created") : i <= j

(* What it holds is a body. *)
LEMMA FirstBodyIsABody ==
    ASSUME ledger \in Seq(Entry), FirstIsThere, RequestExists
    PROVE  FirstBody \in Bodies
  <1> DEFINE P == Positions("request.created")
             Least(i) == \A j \in P : i <= j
  <1>1. \A j \in P : ledger[j].body \in Bodies
    BY DEF Positions, Entry
  <1> HIDE DEF P
  <1>2. PICK k \in P : Least(k) /\ FirstBody = ledger[k].body
    BY DEF FirstIsThere, FirstBody, P
  <1> QED
    BY <1>1, <1>2

(* Appending keeps the first entry the first. *)
LEMMA FirstBodyStays ==
    ASSUME ledger \in Seq(Entry), FirstIsThere, NEW e, ledger' = Append(ledger, e)
    PROVE  /\ FirstIsThere'
           /\ RequestExists => RequestExists' /\ FirstBody' = FirstBody
  <1> DEFINE P == Positions("request.created")
             n == Len(ledger) + 1
  <1>1. /\ P \subseteq 1 .. Len(ledger)
        /\ \A i \in P : ledger'[i] = ledger[i] /\ i \in Int /\ i < n
        /\ n \in Int
        /\ P' = P \/ P' = P \cup {n}
    BY DEF Positions
  <1>2. /\ RequestExists <=> P # {}
        /\ RequestExists' <=> P' # {}
    BY DEF RequestExists
  <1> DEFINE k == CHOOSE i \in P : \A j \in P : i <= j
  <1>3. FirstBody = ledger[k].body /\ FirstBody' = ledger'[k'].body
    BY DEF FirstBody
  <1>4. FirstIsThere <=> (P # {} => \E i \in P : \A j \in P : i <= j)
    BY <1>2 DEF FirstIsThere
  <1>5. FirstIsThere' <=> (P' # {} => \E i \in P' : \A j \in P' : i <= j)
    BY <1>2 DEF FirstIsThere
  <1>6. CASE P = {}
    BY <1>1, <1>2, <1>5, <1>6
  <1>7. CASE P # {}
    <2>1. k \in P /\ \A j \in P : k <= j
      BY <1>4, <1>7
    <2>2. k \in P' /\ \A j \in P' : k <= j
      BY <1>1, <2>1
    <2>3. k' \in P' /\ \A j \in P' : k' <= j
      BY <2>2
    <2> HIDE DEF k, P
    <2>4. k' = k
      BY <1>1, <2>1, <2>2, <2>3
    <2> QED
      BY <1>1, <1>2, <1>3, <1>5, <2>1, <2>2, <2>4
  <1> QED
    BY <1>6, <1>7

-----------------------------------------------------------------------------
(* The inductive invariant. *)
IInv == /\ TypeOK
        /\ FirstIsThere
        /\ LocalsFit
        /\ OneHolderPerKey
        /\ DecisionsBind

(* Every step starts a call, moves one call on, or lets time pass. *)
LEMMA OneCallMoves ==
    ASSUME IInv, NEW t \in Tasks, Step(t) \/ StoreRaises(t) \/ Crash(t)
    PROVE  /\ UNCHANGED <<now, calls>>
           /\ \E to : pc' = [pc EXCEPT ![t] = to]
           /\ \A u \in Tasks \ {t} : /\ pc'[u] = pc[u] /\ body'[u] = body[u]
                                     /\ env'[u] = env[u] /\ status'[u] = status[u]
  <1>1. /\ pc \in [Tasks -> Ended \cup StorePoints]
        /\ body \in [Tasks -> Bodies]
        /\ env \in [Tasks -> AllEnvelopes \cup {NoEnvelope}]
        /\ status \in [Tasks -> Statuses \cup {NoStatus}]
    BY DEF IInv, TypeOK
  <1> USE DEF Go
  <1>2. CASE Crash(t)
    BY <1>1, <1>2 DEF Crash, locals
  <1>3. CASE StoreRaises(t)
    BY <1>1, <1>3 DEF StoreRaises, locals
  <1>4. CASE CreateLoad(t)
    BY <1>1, <1>4 DEF CreateLoad
  <1>5. CASE CreateAppend(t) \/ DecisionAppend(t) \/ StatusAppend(t)
    BY <1>1, <1>5 DEF CreateAppend, DecisionAppend, StatusAppend, AppendStep
  <1>6. CASE ProjectRead(t) \/ Recompute(t)
    BY <1>1, <1>6 DEF ProjectRead, Recompute
  <1>7. CASE Upsert(t) \/ Complete(t) \/ Release(t) \/ ReserveWon(t) \/ ReserveLost(t)
    BY <1>1, <1>7 DEF Upsert, Complete, Release, ReserveWon, ReserveLost, locals
  <1>8. CASE DecideLoad(t)
    BY <1>1, <1>8 DEF DecideLoad
  <1>9. CASE SubmitLoad(t)
    BY <1>1, <1>9 DEF SubmitLoad
  <1>10. CASE ReadStatus(t)
    BY <1>1, <1>10 DEF ReadStatus
  <1> QED
    BY <1>2, <1>3, <1>4, <1>5, <1>6, <1>7, <1>8, <1>9, <1>10 DEF Step

(* Every write to the log appends one entry of the type it should have. *)
LEMMA EntriesAreWellFormed ==
    ASSUME IInv, NEW t \in Tasks, pc[t] \in AppendPoints
    PROVE  EntryFrom(t) \in Entry
  <1>1. CASE pc[t] = "create_append"
    BY <1>1 DEF EntryFrom, Entry, IInv, TypeOK
  <1>2. CASE pc[t] = "decision_append"
    <2>1. env[t] \in AllEnvelopes
      BY <1>2 DEF IInv, TypeOK, LocalsFit, DecisionPoints
    <2> QED
      BY <1>2, <2>1 DEF EntryFrom, Entry
  <1>3. CASE pc[t] = "status_append"
    <2>1. status[t] \in Statuses \ {"pending"}
      BY <1>3 DEF IInv, LocalsFit
    <2> QED
      BY <1>3, <2>1 DEF EntryFrom, Entry
  <1> QED
    BY <1>1, <1>2, <1>3 DEF AppendPoints

(* The log only grows, an entry at a time, and the clock does not go back. *)
LEMMA LogGrows ==
    ASSUME IInv, [Next]_vars
    PROVE  /\ now \in Int /\ now' \in 0 .. MaxTime /\ now <= now'
           /\ \/ ledger' = ledger
              \/ \E t \in Tasks : /\ pc[t] \in AppendPoints
                                  /\ ledger' = Append(ledger, EntryFrom(t))
  <1>1. now \in 0 .. MaxTime /\ MaxTime \in Nat
    BY BoundsAssumption DEF IInv, TypeOK
  <1>2. CASE UNCHANGED vars
    BY <1>1, <1>2 DEF vars
  <1>3. CASE Tick
    BY <1>1, <1>3 DEF Tick, stores
  <1>4. ASSUME NEW t \in Tasks, Call(t)
        PROVE  UNCHANGED <<ledger, now>>
    BY <1>4 DEF Call, CallCreate, CallSubmitDecision, CallSubmitSigned,
                CallGetStatus, Begin, stores
  <1>5. ASSUME NEW t \in Tasks, Step(t) \/ StoreRaises(t) \/ Crash(t)
        PROVE  UNCHANGED now
    BY <1>5, OneCallMoves
  <1>6. ASSUME NEW t \in Tasks, CreateAppend(t) \/ DecisionAppend(t) \/ StatusAppend(t)
        PROVE  pc[t] \in AppendPoints /\ ledger' = Append(ledger, EntryFrom(t))
    BY <1>6 DEF CreateAppend, DecisionAppend, StatusAppend, AppendStep, WritesEntry,
                AppendPoints
  <1>7. ASSUME NEW t \in Tasks, StoreRaises(t)
        PROVE  \/ ledger' = ledger
               \/ pc[t] \in AppendPoints /\ ledger' = Append(ledger, EntryFrom(t))
    BY <1>7 DEF StoreRaises, WritesEntry, WritesView, InsertsRow, CompletesRow,
                DeletesRow, stores
  <1>8. ASSUME NEW t \in Tasks,
               \/ CreateLoad(t) \/ ProjectRead(t) \/ Upsert(t) \/ DecideLoad(t)
               \/ SubmitLoad(t) \/ ReserveWon(t) \/ ReserveLost(t) \/ Recompute(t)
               \/ Complete(t) \/ ReadStatus(t) \/ Release(t) \/ Crash(t)
        PROVE  ledger' = ledger
    BY <1>8 DEF CreateLoad, ProjectRead, Upsert, DecideLoad, SubmitLoad, ReserveWon,
                ReserveLost, Recompute, Complete, ReadStatus, Release, Crash,
                WritesView, InsertsRow, CompletesRow, DeletesRow, stores
  <1>9. ASSUME NEW t \in Tasks, Call(t) \/ Step(t) \/ StoreRaises(t) \/ Crash(t)
        PROVE  /\ now' = now
               /\ \/ ledger' = ledger
                  \/ pc[t] \in AppendPoints /\ ledger' = Append(ledger, EntryFrom(t))
    BY <1>4, <1>5, <1>6, <1>7, <1>8, <1>9 DEF Step
  <1> QED
    BY <1>1, <1>2, <1>3, <1>9 DEF Next

(* Whatever is found out about a request stays true of it.                 *)
LEMMA RequestStays ==
    ASSUME IInv, [Next]_vars
    PROVE  /\ FirstIsThere'
           /\ RequestExists => RequestExists' /\ FirstBody' = FirstBody
           /\ \A e \in AllEnvelopes : Checked(e) => StillChecked(e)
  <1>1. /\ FirstIsThere'
        /\ RequestExists => RequestExists' /\ FirstBody' = FirstBody
    <2>1. CASE ledger' = ledger
      BY <2>1 DEF IInv, FirstIsThere, RequestExists, FirstBody, Positions
    <2>2. CASE \E t \in Tasks : ledger' = Append(ledger, EntryFrom(t))
      BY <2>2, FirstBodyStays DEF IInv, TypeOK
    <2> QED
      BY <2>1, <2>2, LogGrows
  <1>2. ASSUME NEW e \in AllEnvelopes, Checked(e)
        PROVE  StillChecked(e)
    <2>1. e.decided_at.instant \in Int
      BY InstantsAreIntegers
    <2>2. now \in Int /\ now' \in Int /\ now <= now' /\ Skew \in Int
      BY LogGrows, BoundsAssumption
    <2> QED
      BY <1>1, <1>2, <2>1, <2>2 DEF Checked, StillChecked
  <1> QED
    BY <1>1, <1>2

(* What is recorded has been checked, and a check is never outdated.       *)
LEMMA DecisionsStayBound ==
    ASSUME IInv, [Next]_vars
    PROVE  DecisionsBind'
  <1> SUFFICES ASSUME NEW i \in Positions("decision.recorded")'
               PROVE  /\ \E j \in Positions("request.created")' : j < i
                      /\ StillChecked(ledger'[i].env)
    BY DEF DecisionsBind, StillChecked
  <1>1. ledger \in Seq(Entry)
    BY DEF IInv, TypeOK
  <1>2. ASSUME i \in Positions("decision.recorded"), ledger'[i] = ledger[i],
               Positions("request.created") \subseteq Positions("request.created")'
        PROVE  /\ \E j \in Positions("request.created")' : j < i
               /\ StillChecked(ledger'[i].env)
    <2>1. ledger[i].env \in AllEnvelopes
      BY <1>1, <1>2 DEF Positions, Entry
    <2>2. /\ \E j \in Positions("request.created") : j < i
          /\ Checked(ledger[i].env)
      BY <1>2 DEF IInv, DecisionsBind, Checked, RequestExists
    <2>3. StillChecked(ledger[i].env)
      BY <2>1, <2>2, RequestStays
    <2> QED
      BY <1>2, <2>2, <2>3
  <1>3. CASE ledger' = ledger
    BY <1>2, <1>3 DEF Positions
  <1>4. ASSUME NEW t \in Tasks, pc[t] \in AppendPoints, ledger' = Append(ledger, EntryFrom(t))
        PROVE  /\ \E j \in Positions("request.created")' : j < i
               /\ StillChecked(ledger'[i].env)
    <2>1. CASE i = Len(ledger) + 1
      <3>1. EntryFrom(t).type = "decision.recorded"
        BY <1>1, <1>4, <2>1 DEF Positions
      <3>2. pc[t] = "decision_append" /\ ledger'[i].env = env[t]
        BY <1>1, <1>4, <2>1, <3>1 DEF EntryFrom, AppendPoints
      <3>3. env[t] \in AllEnvelopes /\ Checked(env[t])
        BY <3>2 DEF IInv, TypeOK, LocalsFit, DecisionPoints
      <3>4. StillChecked(env[t])
        BY <3>3, RequestStays
      <3>5. PICK j \in Positions("request.created") : TRUE
        BY <3>3 DEF Checked, RequestExists
      <3>6. j \in Positions("request.created")' /\ j < i
        BY <1>1, <1>4, <2>1, <3>5 DEF Positions
      <3> QED
        BY <3>2, <3>4, <3>6
    <2>2. CASE i # Len(ledger) + 1
      <3>1. /\ i \in Positions("decision.recorded")
            /\ ledger'[i] = ledger[i]
            /\ Positions("request.created") \subseteq Positions("request.created")'
        BY <1>1, <1>4, <2>2 DEF Positions
      <3> QED
        BY <1>2, <3>1
    <2> QED
      BY <2>1, <2>2
  <1> QED
    BY <1>3, <1>4, LogGrows

(* The row of the view, and rows that come and go. *)
LEMMA RowsKeepTheirType ==
    ASSUME IInv, NEW t \in Tasks
    PROVE  /\ WritesView(t) => view' \in View /\ idem' = idem
           /\ pc[t] \in {"reserve", "complete", "release"} /\
              (InsertsRow(t) \/ CompletesRow(t) \/ DeletesRow(t))
                 => /\ view' = view
                    /\ DOMAIN idem' \subseteq Keys
                    /\ \A k \in DOMAIN idem' : idem'[k] \in Row
  <1>1. TypeOK /\ view \in View /\ DOMAIN idem \subseteq Keys
        /\ \A k \in DOMAIN idem : idem[k] \in Row
    BY DEF IInv, TypeOK
  <1>2. WritesView(t) => view' \in View /\ idem' = idem
    BY <1>1 DEF WritesView, View, TypeOK
  <1>3. ASSUME pc[t] \in {"reserve", "complete", "release"}
        PROVE  env[t] \in AllEnvelopes /\ KeyOf(env[t]) \in Keys
               /\ Fingerprint(env[t]) \in {Fingerprint(e) : e \in AllEnvelopes}
    <2>1. env[t] \in AllEnvelopes
      BY <1>1, <1>3 DEF IInv, TypeOK, LocalsFit, DecisionPoints
    <2> QED
      BY <2>1, KeysOfEnvelopes
  <1>4. ASSUME pc[t] \in {"reserve", "complete", "release"}, InsertsRow(t)
        PROVE  /\ view' = view
               /\ DOMAIN idem' \subseteq Keys
               /\ \A k \in DOMAIN idem' : idem'[k] \in Row
    BY <1>1, <1>3, <1>4 DEF InsertsRow, Row
  <1>5. ASSUME CompletesRow(t)
        PROVE  /\ view' = view
               /\ DOMAIN idem' \subseteq Keys
               /\ \A k \in DOMAIN idem' : idem'[k] \in Row
    BY <1>1, <1>5 DEF CompletesRow, Row
  <1>6. ASSUME DeletesRow(t)
        PROVE  /\ view' = view
               /\ DOMAIN idem' \subseteq Keys
               /\ \A k \in DOMAIN idem' : idem'[k] \in Row
    BY <1>1, <1>6 DEF DeletesRow, Row
  <1> QED
    BY <1>2, <1>4, <1>5, <1>6

(* Steps of one call keep the types. *)
LEMMA StepsKeepTypes ==
    ASSUME IInv, NEW t \in Tasks, Step(t) \/ StoreRaises(t) \/ Crash(t)
    PROVE  /\ DOMAIN idem' \subseteq Keys
           /\ \A k \in DOMAIN idem' : idem'[k] \in Row
           /\ view' \in View
           /\ pc' \in [Tasks -> Ended \cup StorePoints]
           /\ body' \in [Tasks -> Bodies]
           /\ env' \in [Tasks -> AllEnvelopes \cup {NoEnvelope}]
           /\ status' \in [Tasks -> Statuses \cup {NoStatus}]
           /\ lastSeq' \in [Tasks -> Nat]
  <1>1. /\ DOMAIN idem \subseteq Keys
        /\ \A k \in DOMAIN idem : idem[k] \in Row
        /\ view \in View
        /\ pc \in [Tasks -> Ended \cup StorePoints]
        /\ body \in [Tasks -> Bodies]
        /\ env \in [Tasks -> AllEnvelopes \cup {NoEnvelope}]
        /\ status \in [Tasks -> Statuses \cup {NoStatus}]
        /\ lastSeq \in [Tasks -> Nat]
        /\ ledger \in Seq(Entry)
        /\ now \in 0 .. MaxTime
    BY DEF IInv, TypeOK
  <1>2. \A p \in Ended \cup StorePoints :
           [pc EXCEPT ![t] = p] \in [Tasks -> Ended \cup StorePoints]
    BY <1>1
  <1>3. /\ {"ok", "error", "crashed"} \subseteq Ended
        /\ {"create_append", "project_read", "upsert", "complete", "submit_load",
            "reserve", "decision_append", "recompute", "status_append", "read",
            "release"} \subseteq StorePoints
    BY DEF Ended, StorePoints, AppendPoints
  <1>4. RequestExists => FirstBody \in Bodies
    BY <1>1, FirstBodyIsABody DEF IInv
  <1>5. \A b : Recomputed(b) \in Statuses
    BY StatusIsAStatus DEF Recomputed
  <1>6. CASE Crash(t)
    BY <1>1, <1>2, <1>3, <1>6 DEF Crash, Go, stores, locals
  <1>7. CASE StoreRaises(t)
    <2>1. Handler(t) \in Ended \cup StorePoints
      BY <1>3 DEF Handler
    <2>2. pc' \in [Tasks -> Ended \cup StorePoints]
      BY <1>2, <1>7, <2>1 DEF StoreRaises, Go
    <2>3. /\ DOMAIN idem' \subseteq Keys
          /\ \A k \in DOMAIN idem' : idem'[k] \in Row
          /\ view' \in View
      BY <1>1, <1>7, RowsKeepTheirType DEF StoreRaises, WritesEntry, stores
    <2> QED
      BY <1>1, <1>7, <2>2, <2>3 DEF StoreRaises, locals
  <1>8. CASE CreateLoad(t)
    BY <1>1, <1>2, <1>3, <1>4, <1>8 DEF CreateLoad, Go, stores
  <1>9. CASE CreateAppend(t) \/ DecisionAppend(t) \/ StatusAppend(t)
    <2>1. PICK to \in {"project_read", "recompute", "upsert"} : AppendStep(t, to)
      BY <1>9 DEF CreateAppend, DecisionAppend, StatusAppend
    <2>2. lastSeq' \in [Tasks -> Nat]
      BY <1>1, <2>1 DEF AppendStep
    <2> QED
      BY <1>1, <1>2, <1>3, <2>1, <2>2 DEF AppendStep, WritesEntry, Go
  <1>10. CASE ProjectRead(t)
    BY <1>1, <1>2, <1>3, <1>10, StatusIsAStatus DEF ProjectRead, Go, stores
  <1>11. CASE Recompute(t)
    BY <1>1, <1>2, <1>3, <1>5, <1>11 DEF Recompute, Go, stores
  <1>12. CASE Upsert(t)
    BY <1>1, <1>2, <1>3, <1>12, RowsKeepTheirType DEF Upsert, Go, locals
  <1>13. CASE Complete(t) \/ Release(t) \/ ReserveWon(t)
    BY <1>1, <1>2, <1>3, <1>13, RowsKeepTheirType
       DEF Complete, Release, ReserveWon, Go, locals
  <1>14. CASE ReserveLost(t)
    BY <1>1, <1>2, <1>3, <1>14 DEF ReserveLost, Go, stores, locals
  <1>15. CASE DecideLoad(t)
    <2>1. CASE RequestExists
      <3>1. env[t] \in SubmittedByService
        BY <1>15 DEF DecideLoad, IInv, LocalsFit
      <3>2. [env[t] EXCEPT !.decided_at = Utc(now), !.context = FirstBody] \in SubmittedByService
        BY <1>1, <1>4, <2>1, <3>1 DEF SubmittedByService
      <3>3. env' \in [Tasks -> AllEnvelopes \cup {NoEnvelope}]
        BY <1>1, <1>15, <2>1, <3>2 DEF DecideLoad, AllEnvelopes
      <3> QED
        BY <1>1, <1>2, <1>3, <1>15, <2>1, <3>3 DEF DecideLoad, Go, stores
    <2>2. CASE ~RequestExists
      BY <1>1, <1>2, <1>3, <1>15, <2>2 DEF DecideLoad, Go, stores
    <2> QED
      BY <2>1, <2>2
  <1>16. CASE SubmitLoad(t)
    <2>1. body' \in [Tasks -> Bodies]
      BY <1>1, <1>4, <1>16 DEF SubmitLoad, Admissible
    <2>2. pc' \in [Tasks -> Ended \cup StorePoints]
      <3>1. PICK p \in {"reserve", "decision_append", "error"} : pc' = [pc EXCEPT ![t] = p]
        BY <1>16 DEF SubmitLoad, Go
      <3> QED
        BY <1>2, <1>3, <3>1
    <2> QED
      BY <1>1, <1>16, <2>1, <2>2 DEF SubmitLoad, stores
  <1>17. CASE ReadStatus(t)
    <2>1. status' \in [Tasks -> Statuses \cup {NoStatus}]
      BY <1>1, <1>5, <1>17 DEF ReadStatus
    <2>2. pc' \in [Tasks -> Ended \cup StorePoints]
      <3>1. PICK p \in {"ok", "error"} : pc' = [pc EXCEPT ![t] = p]
        BY <1>17 DEF ReadStatus, Go
      <3> QED
        BY <1>2, <1>3, <3>1
    <2> QED
      BY <1>1, <1>17, <2>1, <2>2 DEF ReadStatus, stores
  <1> QED
    BY <1>6, <1>7, <1>8, <1>9, <1>10, <1>11, <1>12, <1>13, <1>14, <1>15, <1>16, <1>17
       DEF Step

(* Every step keeps the types. *)
LEMMA TypesAreKept ==
    ASSUME IInv, [Next]_vars
    PROVE  TypeOK'
  <1>1. now' \in 0 .. MaxTime
    BY LogGrows
  <1>2. ledger' \in Seq(Entry)
    <2>1. ledger \in Seq(Entry)
      BY DEF IInv, TypeOK
    <2>2. ASSUME NEW t \in Tasks, pc[t] \in AppendPoints,
                 ledger' = Append(ledger, EntryFrom(t))
          PROVE  ledger' \in Seq(Entry)
      <3>1. EntryFrom(t) \in Entry
        BY <2>2, EntriesAreWellFormed
      <3> QED
        BY <2>1, <2>2, <3>1
    <2> QED
      BY <2>1, <2>2, LogGrows
  <1>3. TypeOK
    BY DEF IInv
  <1>4. CASE UNCHANGED vars
    BY <1>3, <1>4 DEF TypeOK, vars
  <1>5. CASE Tick
    BY <1>1, <1>3, <1>5 DEF TypeOK, Tick, stores, locals
  <1>6. ASSUME NEW t \in Tasks, Call(t)
        PROVE  TypeOK'
    <2>1. PICK point \in {"create_load", "decide_load", "submit_load", "read"},
               b \in {now, 0}, e \in AllEnvelopes \cup {NoEnvelope} :
               Begin(t, point, b, e)
      <3>1. ASSUME NEW ballot \in Ballots
            PROVE  [approver |-> ballot.approver, verdict |-> ballot.verdict,
                    key |-> KeyOf(ballot),
                    decided_at |-> Utc(0), context |-> 0, authorized |-> TRUE] \in AllEnvelopes
        <4>1. 0 \in 0 .. MaxTime
          BY BoundsAssumption
        <4>2. Utc(0) \in {Utc(x) : x \in 0 .. MaxTime}
          BY <4>1
        <4> QED
          BY <4>1, <4>2 DEF AllEnvelopes, SubmittedByService, Bodies
      <3> QED
        BY <1>6, <3>1 DEF Call, CallCreate, CallSubmitDecision, CallSubmitSigned,
                          CallGetStatus, AllEnvelopes
    <2>2. b \in Bodies /\ point \in StorePoints
      BY <1>3, BoundsAssumption DEF TypeOK, Bodies, StorePoints
    <2>3. calls' \in 0 .. MaxCalls
      BY <1>3, <2>1, BoundsAssumption DEF TypeOK, Begin
    <2> QED
      BY <1>1, <1>2, <1>3, <2>1, <2>2, <2>3 DEF TypeOK, Begin, stores
  <1>7. ASSUME NEW t \in Tasks, Step(t) \/ StoreRaises(t) \/ Crash(t)
        PROVE  TypeOK'
    BY <1>1, <1>2, <1>3, <1>7, OneCallMoves, StepsKeepTypes DEF TypeOK
  <1> QED
    BY <1>4, <1>5, <1>6, <1>7 DEF Next

(* Every step leaves the locals of every call fit for where it waits.      *)
LEMMA LocalsStayFit ==
    ASSUME IInv, [Next]_vars
    PROVE  LocalsFit'
  <1> DEFINE Fit(u) ==
                /\ pc[u] \in CreatePoints => env[u] = NoEnvelope
                /\ pc[u] \in DecisionPoints => env[u] # NoEnvelope
                /\ pc[u] = "decide_load" => env[u] \in SubmittedByService
                /\ pc[u] = "status_append" => status[u] \in Statuses \ {"pending"}
                /\ pc[u] \in {"reserve", "decision_append"} => Checked(env[u])
  <1>1. /\ pc \in [Tasks -> Ended \cup StorePoints]
        /\ env \in [Tasks -> AllEnvelopes \cup {NoEnvelope}]
        /\ status \in [Tasks -> Statuses \cup {NoStatus}]
        /\ \A u \in Tasks : Fit(u)
    BY DEF IInv, TypeOK, LocalsFit
  <1>2. ASSUME NEW u \in Tasks, pc'[u] = pc[u], env'[u] = env[u], status'[u] = status[u]
        PROVE  Fit(u)'
    <2>1. pc[u] \in {"reserve", "decision_append"} =>
             env[u] \in AllEnvelopes /\ Checked(env[u])
      BY <1>1 DEF DecisionPoints
    <2>2. pc[u] \in {"reserve", "decision_append"} => Checked(env[u])'
      BY <1>2, <2>1, RequestStays DEF Checked, StillChecked
    <2> QED
      BY <1>1, <1>2, <2>2
  <1>3. CASE UNCHANGED vars \/ Tick
    <2>1. UNCHANGED <<pc, env, status>>
      BY <1>3 DEF vars, Tick, locals
    <2> QED
      BY <1>2, <2>1 DEF LocalsFit
  <1>4. ASSUME NEW t \in Tasks, Call(t)
        PROVE  LocalsFit'
    <2>1. /\ \A u \in Tasks \ {t} : pc'[u] = pc[u] /\ env'[u] = env[u] /\ status'[u] = status[u]
          /\ \/ pc'[t] = "create_load" /\ env'[t] = NoEnvelope
             \/ pc'[t] = "decide_load" /\ env'[t] \in SubmittedByService
             \/ pc'[t] = "submit_load" /\ env'[t] \in Envelopes
             \/ pc'[t] = "read"
      <3>1. ASSUME NEW point, NEW b, NEW e, Begin(t, point, b, e)
            PROVE  /\ \A u \in Tasks \ {t} : /\ pc'[u] = pc[u] /\ env'[u] = env[u]
                                             /\ status'[u] = status[u]
                   /\ pc'[t] = point /\ env'[t] = e
        BY <1>1, <3>1 DEF Begin
      <3>2. ASSUME NEW ballot \in Ballots
            PROVE  [approver |-> ballot.approver, verdict |-> ballot.verdict,
                    key |-> KeyOf(ballot),
                    decided_at |-> Utc(0), context |-> 0, authorized |-> TRUE]
                      \in SubmittedByService
        <4>1. 0 \in 0 .. MaxTime
          BY BoundsAssumption
        <4>2. Utc(0) \in {Utc(x) : x \in 0 .. MaxTime}
          BY <4>1
        <4> QED
          BY <4>1, <4>2 DEF SubmittedByService, Bodies
      <3> QED
        BY <1>4, <3>1, <3>2 DEF Call, CallCreate, CallSubmitDecision, CallSubmitSigned,
                                CallGetStatus
    <2>2. Fit(t)'
      BY <2>1, NobodySigns DEF CreatePoints, DecisionPoints, AllEnvelopes
    <2> QED
      BY <1>2, <2>1, <2>2 DEF LocalsFit
  <1>5. ASSUME NEW t \in Tasks, Step(t) \/ StoreRaises(t) \/ Crash(t)
        PROVE  LocalsFit'
    <2>1. \A u \in Tasks \ {t} : pc'[u] = pc[u] /\ env'[u] = env[u] /\ status'[u] = status[u]
      BY <1>5, OneCallMoves
    <2> SUFFICES Fit(t)'
      BY <1>2, <2>1 DEF LocalsFit
    <2> USE DEF Go
    <2>2. CASE Crash(t)
      BY <1>1, <2>2 DEF Crash, CreatePoints, DecisionPoints
    <2>3. CASE StoreRaises(t)
      <3>1. /\ pc'[t] \in {"release", "error"}
            /\ pc'[t] = "release" => env[t] # NoEnvelope
            /\ env'[t] = env[t]
        BY <1>1, <2>3 DEF StoreRaises, Handler, locals
      <3> QED
        BY <3>1 DEF CreatePoints, DecisionPoints
    <2>4. CASE CreateLoad(t)
      BY <1>1, <2>4 DEF CreateLoad, CreatePoints, DecisionPoints
    <2>5. CASE CreateAppend(t) \/ DecisionAppend(t) \/ StatusAppend(t)
      BY <1>1, <2>5 DEF CreateAppend, DecisionAppend, StatusAppend, AppendStep,
                        CreatePoints, DecisionPoints
    <2>6. CASE ProjectRead(t)
      BY <1>1, <2>6 DEF ProjectRead, CreatePoints, DecisionPoints
    <2>7. CASE Upsert(t) \/ Complete(t) \/ Release(t) \/ ReserveLost(t)
      BY <1>1, <2>7 DEF Upsert, Complete, Release, ReserveLost, locals,
                        CreatePoints, DecisionPoints
    <2>8. CASE DecideLoad(t)
      <3>1. CASE RequestExists
        <4>1. FirstBody \in Bodies /\ now \in 0 .. MaxTime
          BY <3>1, FirstBodyIsABody DEF IInv, TypeOK
        <4>2. [env[t] EXCEPT !.decided_at = Utc(now), !.context = FirstBody]
                 \in SubmittedByService
          BY <1>1, <2>8, <4>1 DEF DecideLoad, SubmittedByService
        <4>3. pc'[t] = "submit_load" /\ env'[t] \in SubmittedByService
          BY <1>1, <2>8, <3>1, <4>2 DEF DecideLoad
        <4> QED
          BY <4>3, NobodySigns DEF CreatePoints, DecisionPoints, AllEnvelopes
      <3>2. CASE ~RequestExists
        BY <1>1, <2>8, <3>2 DEF DecideLoad, CreatePoints, DecisionPoints
      <3> QED
        BY <3>1, <3>2
    <2>9. CASE SubmitLoad(t)
      <3>1. CASE Admissible(env[t])
        <4>1. /\ pc'[t] \in {"reserve", "decision_append"} /\ env'[t] = env[t]
              /\ env[t] # NoEnvelope /\ env[t] \in AllEnvelopes
          BY <1>1, <2>9, <3>1 DEF SubmitLoad, DecisionPoints
        <4>2. Checked(env[t])
          BY <3>1 DEF Admissible, Checked
        <4>3. Checked(env[t])'
          BY <4>1, <4>2, RequestStays DEF Checked, StillChecked
        <4> QED
          BY <4>1, <4>3 DEF CreatePoints, DecisionPoints
      <3>2. CASE ~Admissible(env[t])
        BY <1>1, <2>9, <3>2 DEF SubmitLoad, CreatePoints, DecisionPoints
      <3> QED
        BY <3>1, <3>2
    <2>10. CASE ReserveWon(t)
      <3>1. /\ pc'[t] = "decision_append" /\ env'[t] = env[t]
            /\ env[t] # NoEnvelope /\ env[t] \in AllEnvelopes /\ Checked(env[t])
        BY <1>1, <2>10 DEF ReserveWon, DecisionPoints, locals
      <3>2. Checked(env[t])'
        BY <3>1, RequestStays DEF Checked, StillChecked
      <3> QED
        BY <3>1, <3>2 DEF CreatePoints, DecisionPoints
    <2>11. CASE Recompute(t)
      <3>1. Recomputed(body[t]) \in Statuses
        BY StatusIsAStatus DEF Recomputed
      <3> QED
        BY <1>1, <2>11, <3>1 DEF Recompute, CreatePoints, DecisionPoints
    <2>12. CASE ReadStatus(t)
      BY <1>1, <2>12 DEF ReadStatus, CreatePoints, DecisionPoints
    <2> QED
      BY <1>5, <2>2, <2>3, <2>4, <2>5, <2>6, <2>7, <2>8, <2>9, <2>10, <2>11, <2>12
         DEF Step
  <1> QED
    BY <1>3, <1>4, <1>5 DEF Next

-----------------------------------------------------------------------------
(* One holder per key. *)

(* The row a holder has in the idempotency store. *)
OwnRow(t) ==
    /\ KeyOf(env[t]) \in DOMAIN idem
    /\ idem[KeyOf(env[t])] = [fingerprint |-> Fingerprint(env[t]), completed |-> FALSE]

(* A step that leaves the store alone and gives nobody a key: every holder *)
(* after it was one before it, with the same decision.                     *)
LEMMA HoldersOnlyLeave ==
    ASSUME OneHolderPerKey, idem' = idem,
           \A u \in Tasks : Holds(u)' => Holds(u) /\ env'[u] = env[u]
    PROVE  OneHolderPerKey'
  BY DEF OneHolderPerKey

(* A step by which t gives up its key, whatever becomes of that key's row. *)
LEMMA HolderGivesUp ==
    ASSUME OneHolderPerKey, NEW t \in Tasks, Holds(t), ~Holds(t)',
           \A k : k # KeyOf(env[t]) =>
                    /\ k \in DOMAIN idem' <=> k \in DOMAIN idem
                    /\ k \in DOMAIN idem => idem'[k] = idem[k],
           \A u \in Tasks : Holds(u)' => Holds(u) /\ env'[u] = env[u]
    PROVE  OneHolderPerKey'
  <1> SUFFICES ASSUME Idempotency, NEW u \in Tasks, Holds(u)'
               PROVE  /\ OwnRow(u)'
                      /\ \A v \in Tasks :
                            Holds(v)' /\ KeyOf(env[v])' = KeyOf(env[u])' => v = u
    BY DEF OneHolderPerKey, OwnRow
  <1>1. Holds(u) /\ env'[u] = env[u] /\ u # t
    OBVIOUS
  <1>2. OwnRow(u) /\ \A v \in Tasks : Holds(v) /\ KeyOf(env[v]) = KeyOf(env[u]) => v = u
    BY <1>1 DEF OneHolderPerKey, OwnRow
  <1>3. KeyOf(env[u]) # KeyOf(env[t])
    BY <1>1, <1>2
  <1> QED
    BY <1>1, <1>2, <1>3 DEF OwnRow

(* A step by which t takes a key that is free, and may go on to hold it.   *)
LEMMA HolderEnters ==
    ASSUME OneHolderPerKey, NEW t \in Tasks, KeyOf(env[t]) \notin DOMAIN idem,
           InsertsRow(t), env' = env,
           \A u \in Tasks \ {t} : Holds(u)' => Holds(u)
    PROVE  OneHolderPerKey'
  <1> SUFFICES ASSUME Idempotency, NEW u \in Tasks, Holds(u)'
               PROVE  /\ OwnRow(u)'
                      /\ \A v \in Tasks :
                            Holds(v)' /\ KeyOf(env[v])' = KeyOf(env[u])' => v = u
    BY DEF OneHolderPerKey, OwnRow
  <1>1. ASSUME NEW v \in Tasks, v # t, Holds(v)'
        PROVE  /\ OwnRow(v)
               /\ KeyOf(env[v]) # KeyOf(env[t])
               /\ \A w \in Tasks : Holds(w) /\ KeyOf(env[w]) = KeyOf(env[v]) => w = v
    BY <1>1 DEF OneHolderPerKey, OwnRow
  <1>2. CASE u = t
    <2>1. OwnRow(t)'
      BY DEF OwnRow, InsertsRow
    <2> QED
      BY <1>1, <1>2, <2>1
  <1>3. CASE u # t
    <2>1. OwnRow(u)'
      BY <1>1, <1>3 DEF OwnRow, InsertsRow
    <2> QED
      BY <1>1, <1>3, <2>1
  <1> QED
    BY <1>2, <1>3

(* Every step leaves each key with one holder and the holder with its row. *)
LEMMA HoldersStayAlone ==
    ASSUME IInv, [Next]_vars
    PROVE  OneHolderPerKey'
  <1>1. /\ pc \in [Tasks -> Ended \cup StorePoints]
        /\ env \in [Tasks -> AllEnvelopes \cup {NoEnvelope}]
        /\ LocalsFit /\ OneHolderPerKey
    BY DEF IInv, TypeOK
  <1>2. CASE ~Idempotency
    BY <1>2 DEF OneHolderPerKey
  <1>3. CASE UNCHANGED vars \/ Tick
    <2>1. UNCHANGED <<idem, pc, env>>
      BY <1>3 DEF vars, Tick, stores, locals
    <2> QED
      BY <1>1, <2>1 DEF OneHolderPerKey, Holds, DecisionCall
  <1>4. ASSUME NEW t \in Tasks, Call(t)
        PROVE  OneHolderPerKey'
    <2>1. /\ idem' = idem
          /\ \A u \in Tasks \ {t} : pc'[u] = pc[u] /\ env'[u] = env[u]
          /\ pc'[t] \in {"create_load", "decide_load", "submit_load", "read"}
      <3>1. ASSUME NEW point, NEW b, NEW e, Begin(t, point, b, e)
            PROVE  /\ idem' = idem
                   /\ \A u \in Tasks \ {t} : pc'[u] = pc[u] /\ env'[u] = env[u]
                   /\ pc'[t] = point
        BY <1>1, <3>1 DEF Begin, stores
      <3> QED
        BY <1>4, <3>1 DEF Call, CallCreate, CallSubmitDecision, CallSubmitSigned,
                          CallGetStatus
    <2>2. ~Holds(t)'
      BY <2>1 DEF Holds, TryPoints
    <2> QED
      BY <1>1, <2>1, <2>2, HoldersOnlyLeave DEF Holds, DecisionCall
  <1>5. ASSUME Idempotency, NEW t \in Tasks, Step(t) \/ StoreRaises(t) \/ Crash(t)
        PROVE  OneHolderPerKey'
    <2>1. \A u \in Tasks \ {t} : pc'[u] = pc[u] /\ env'[u] = env[u]
      BY <1>5, OneCallMoves DEF IInv
    <2>2. \A u \in Tasks \ {t} : Holds(u)' => Holds(u) /\ env'[u] = env[u]
      BY <2>1 DEF Holds, DecisionCall
    <2>3. ASSUME idem' = idem, Holds(t)' => Holds(t) /\ env'[t] = env[t]
          PROVE  OneHolderPerKey'
      BY <1>1, <2>2, <2>3, HoldersOnlyLeave
    <2>4. pc[t] \in DecisionPoints => DecisionCall(t)
      BY <1>1 DEF LocalsFit, DecisionCall
    <2> USE DEF Go
    <2>5. CASE Crash(t)
      <3>1. idem' = idem /\ pc'[t] = "crashed"
        BY <1>1, <2>5 DEF Crash, stores
      <3> QED
        BY <2>3, <3>1 DEF Holds, TryPoints
    <2>6. CASE CreateLoad(t) \/ ProjectRead(t) \/ DecideLoad(t) \/ ReserveLost(t) \/ ReadStatus(t)
      <3>1. /\ idem' = idem
            /\ \/ pc'[t] \in {"ok", "create_append", "submit_load", "error", "read"}
               \/ pc'[t] = "upsert" /\ env'[t] = NoEnvelope
        BY <1>1, <2>6 DEF CreateLoad, ProjectRead, DecideLoad, ReserveLost, ReadStatus,
                          stores, locals, LocalsFit, CreatePoints
      <3> QED
        BY <2>3, <3>1 DEF Holds, TryPoints, DecisionCall
    <2>7. CASE SubmitLoad(t)
      <3>1. idem' = idem /\ pc'[t] \in {"reserve", "error"}
        BY <1>1, <1>5, <2>7 DEF SubmitLoad, stores
      <3> QED
        BY <2>3, <3>1 DEF Holds, TryPoints
    <2>8. CASE CreateAppend(t)
      <3>1. idem' = idem /\ pc'[t] = "project_read"
        BY <1>1, <2>8 DEF CreateAppend, AppendStep, WritesEntry
      <3> QED
        BY <2>3, <3>1 DEF Holds, TryPoints
    <2>9. CASE DecisionAppend(t) \/ StatusAppend(t)
      <3>1. idem' = idem /\ env' = env /\ pc[t] \in {"decision_append", "status_append"}
        BY <2>9 DEF DecisionAppend, StatusAppend, AppendStep, WritesEntry
      <3> QED
        BY <2>3, <2>4, <3>1 DEF Holds, TryPoints, DecisionPoints
    <2>10. CASE Recompute(t)
      <3>1. idem' = idem /\ env' = env /\ pc[t] = "recompute"
        BY <2>10 DEF Recompute, stores
      <3> QED
        BY <2>3, <2>4, <3>1 DEF Holds, TryPoints, DecisionPoints
    <2>11. CASE Upsert(t)
      <3>1. /\ idem' = idem /\ env' = env /\ pc[t] = "upsert"
        BY <2>11 DEF Upsert, WritesView, locals
      <3> QED
        BY <2>3, <3>1 DEF Holds, TryPoints, DecisionCall
    <2>12. CASE ReserveWon(t)
      BY <1>1, <2>2, <2>12, HolderEnters DEF ReserveWon, locals
    <2>13. CASE Complete(t) \/ Release(t)
      <3>1. /\ pc[t] \in {"complete", "release"} /\ pc'[t] \in {"ok", "error"}
            /\ CompletesRow(t) \/ DeletesRow(t)
            /\ env' = env
        BY <1>1, <2>13 DEF Complete, Release, locals
      <3>2. Holds(t) /\ ~Holds(t)'
        BY <2>4, <3>1 DEF Holds, TryPoints, DecisionPoints
      <3>3. \A k : k # KeyOf(env[t]) =>
                    /\ k \in DOMAIN idem' <=> k \in DOMAIN idem
                    /\ k \in DOMAIN idem => idem'[k] = idem[k]
        BY <3>1 DEF CompletesRow, DeletesRow
      <3> QED
        BY <1>1, <2>2, <3>2, <3>3, HolderGivesUp
    <2>14. CASE StoreRaises(t)
      <3>1. env' = env /\ pc'[t] = Handler(t)
        BY <1>1, <2>14 DEF StoreRaises, locals
      <3>2. Holds(t)' => Holds(t) /\ env'[t] = env[t]
        BY <3>1 DEF Holds, Handler, DecisionCall, TryPoints
      <3>3. CASE idem' = idem
        BY <2>3, <3>2, <3>3
      <3>4. CASE pc[t] = "reserve" /\ KeyOf(env[t]) \notin DOMAIN idem /\ InsertsRow(t)
        BY <1>1, <2>2, <3>1, <3>4, HolderEnters
      <3>5. CASE \/ pc[t] = "complete" /\ CompletesRow(t)
                 \/ pc[t] = "release" /\ DeletesRow(t)
        <4>1. Holds(t) /\ ~Holds(t)'
          BY <2>4, <3>1, <3>5 DEF Holds, Handler, TryPoints, DecisionPoints
        <4>2. \A k : k # KeyOf(env[t]) =>
                    /\ k \in DOMAIN idem' <=> k \in DOMAIN idem
                    /\ k \in DOMAIN idem => idem'[k] = idem[k]
          BY <3>5 DEF CompletesRow, DeletesRow
        <4> QED
          BY <1>1, <2>2, <4>1, <4>2, HolderGivesUp
      <3> QED
        BY <2>14, <3>3, <3>4, <3>5 DEF StoreRaises, WritesEntry, WritesView, stores
    <2> QED
      BY <1>5, <2>5, <2>6, <2>7, <2>8, <2>9, <2>10, <2>11, <2>12, <2>13, <2>14 DEF Step
  <1> QED
    BY <1>2, <1>3, <1>4, <1>5 DEF Next

-----------------------------------------------------------------------------
(* The invariant holds initially and through every step. *)
THEOREM Invariant == Spec => []IInv
  <1>1. Init => IInv
    <2> SUFFICES ASSUME Init
                 PROVE  IInv
      OBVIOUS
    <2> USE BoundsAssumption DEF Init
    <2>1. TypeOK
      BY DEF TypeOK, Ended, Bodies, View, Statuses, NoStatus
    <2>2. RequestExists = FALSE /\ Positions("decision.recorded") = {}
      BY DEF RequestExists, Positions
    <2>3. FirstIsThere /\ DecisionsBind
      BY <2>2 DEF FirstIsThere, DecisionsBind
    <2>4. LocalsFit
      BY DEF LocalsFit, CreatePoints, DecisionPoints
    <2>5. OneHolderPerKey
      BY DEF OneHolderPerKey, Holds, TryPoints
    <2> QED
      BY <2>1, <2>3, <2>4, <2>5 DEF IInv
  <1>2. IInv /\ [Next]_vars => IInv'
    BY TypesAreKept, RequestStays, LocalsStayFit, HoldersStayAlone, DecisionsStayBound
       DEF IInv
  <1> QED
    BY <1>1, <1>2, PTL DEF Spec

(* The stores and the locals of all calls keep their types. *)
THEOREM ServiceTypeOK == Spec => []TypeOK
  BY Invariant, PTL DEF IInv

(* ApprovalService's OneHolderPerKey: between reserve and complete or      *)
(* release a key belongs to one call, through errors, lost answers and     *)
(* crashes.                                                                *)
THEOREM OneHolderPerKeyHolds == Spec => []OneHolderPerKey
  BY Invariant, PTL DEF IInv

(* ApprovalService's DecisionsBind: what submit_signed_decision has found  *)
(* out before it waits for the stores is still so when the entry is        *)
(* written, and ever after.                                                *)
THEOREM DecisionsBindHolds == Spec => []DecisionsBind
  BY Invariant, PTL DEF IInv

-----------------------------------------------------------------------------
(* Statuses are computed, never made up. *)

(* evaluate would have returned s at some moment of the first m entries. *)
Derived(s, m) == \E n \in 1 .. m, at \in 0 .. now : StatusAfter(n, FirstBody, at) = s

(* What StatusesJustified takes to be inductive: a call holds the body the *)
(* first entry has, and announces what it has computed.                    *)
Computing ==
    /\ \A t \in Tasks :
          /\ pc[t] \in {"reserve", "decision_append", "recompute"} =>
                RequestExists /\ body[t] = FirstBody
          /\ pc[t] = "status_append" =>
                RequestExists /\ Derived(status[t], Len(ledger))
    /\ Positions("status.changed") # {} => RequestExists
    /\ StatusesJustified

(* What evaluate returned on a part of the log it always returns on it. *)
LEMMA DerivedStays ==
    ASSUME IInv, [Next]_vars, RequestExists, NEW s, NEW m \in Nat,
           m <= Len(ledger), Derived(s, m)
    PROVE  \E n \in 1 .. m, at \in 0 .. now' : StatusAfter(n, FirstBody, at)' = s
  <1>1. ledger \in Seq(Entry)
    BY DEF IInv, TypeOK
  <1>2. PICK n \in 1 .. m, at \in 0 .. now : StatusAfter(n, FirstBody, at) = s
    BY DEF Derived
  <1>3. n \in 1 .. Len(ledger)
    BY <1>1, <1>2
  <1>4. DecisionsIn(n)' = DecisionsIn(n)
    <2>1. CASE ledger' = ledger
      BY <2>1 DEF DecisionsIn, Positions
    <2>2. CASE \E t \in Tasks : ledger' = Append(ledger, EntryFrom(t))
      <3>1. \A k \in 1 .. n : ledger'[k] = ledger[k]
        BY <1>1, <1>3, <2>2
      <3> DEFINE D == {k \in Positions("decision.recorded") :
                          k <= n /\ ledger[k].env.authorized}
      <3>2. D' = D /\ D \subseteq 1 .. n
        BY <1>1, <1>3, <2>2, <3>1 DEF Positions
      <3>3. DecisionsIn(n) = [i \in D |-> ledger[i].env]
        BY DEF DecisionsIn
      <3>4. DecisionsIn(n)' = [i \in D' |-> ledger'[i].env]
        BY DEF DecisionsIn
      <3> HIDE DEF D
      <3>5. [i \in D |-> ledger'[i].env] = [i \in D |-> ledger[i].env]
        BY <3>1, <3>2
      <3> QED
        BY <3>2, <3>3, <3>4, <3>5
    <2> QED
      BY <2>1, <2>2, LogGrows
  <1>5. StatusAfter(n, FirstBody, at)' = StatusAfter(n, FirstBody, at)
    BY <1>4, RequestStays DEF StatusAfter, RequestOf
  <1>6. at \in 0 .. now'
    BY <1>2, LogGrows
  <1> QED
    BY <1>2, <1>5, <1>6

(* A status entry that was justified stays so, and one that is written    *)
(* states what its call has computed.                                      *)
LEMMA EntriesStayJustified ==
    ASSUME IInv, Computing, [Next]_vars
    PROVE  /\ StatusesJustified'
           /\ Positions("status.changed")' # {} => RequestExists'
  <1> SUFFICES ASSUME NEW i \in Positions("status.changed")'
               PROVE  /\ \E n \in 1 .. i - 1, at \in 0 .. now' :
                            StatusAfter(n, FirstBody, at)' = ledger'[i].status
                      /\ RequestExists'
    BY DEF StatusesJustified
  <1>1. ledger \in Seq(Entry)
    BY DEF IInv, TypeOK
  <1>2. CASE i \in Positions("status.changed") /\ ledger'[i] = ledger[i]
    <2>1. /\ RequestExists
          /\ Derived(ledger[i].status, i - 1)
      BY <1>2 DEF Computing, StatusesJustified, Derived
    <2>2. i - 1 \in Nat /\ i - 1 <= Len(ledger)
      BY <1>1, <1>2 DEF Positions
    <2> QED
      BY <1>2, <2>1, <2>2, DerivedStays, RequestStays
  <1>3. CASE ledger' = ledger
    BY <1>2, <1>3 DEF Positions
  <1>4. ASSUME NEW t \in Tasks, pc[t] \in AppendPoints, ledger' = Append(ledger, EntryFrom(t)),
               ~(i \in Positions("status.changed") /\ ledger'[i] = ledger[i])
        PROVE  /\ \E n \in 1 .. i - 1, at \in 0 .. now' :
                     StatusAfter(n, FirstBody, at)' = ledger'[i].status
               /\ RequestExists'
    <2>1. i = Len(ledger) + 1 /\ ledger'[i] = EntryFrom(t)
      BY <1>1, <1>4 DEF Positions
    <2>2. EntryFrom(t).type = "status.changed"
      BY <2>1 DEF Positions
    <2>3. pc[t] = "status_append" /\ ledger'[i].status = status[t]
      BY <1>4, <2>1, <2>2 DEF EntryFrom, AppendPoints
    <2>4. RequestExists /\ Derived(status[t], Len(ledger))
      BY <2>3 DEF Computing
    <2>5. Len(ledger) \in Nat /\ i - 1 = Len(ledger)
      BY <1>1, <2>1
    <2> QED
      BY <2>3, <2>4, <2>5, DerivedStays, RequestStays
  <1> QED
    BY <1>2, <1>3, <1>4, LogGrows

(* Every step leaves every call with a body and a status of that kind.     *)
LEMMA CallsStayComputing ==
    ASSUME IInv, Computing, [Next]_vars
    PROVE  \A t \in Tasks :
              /\ pc'[t] \in {"reserve", "decision_append", "recompute"} =>
                    RequestExists' /\ body'[t] = FirstBody'
              /\ pc'[t] = "status_append" =>
                    RequestExists' /\ Derived(status[t], Len(ledger))'
  <1> DEFINE Fine(u) ==
                /\ pc'[u] \in {"reserve", "decision_append", "recompute"} =>
                      RequestExists' /\ body'[u] = FirstBody'
                /\ pc'[u] = "status_append" =>
                      RequestExists' /\ Derived(status[u], Len(ledger))'
  <1>1. /\ ledger \in Seq(Entry)
        /\ pc \in [Tasks -> Ended \cup StorePoints]
        /\ body \in [Tasks -> Bodies]
        /\ status \in [Tasks -> Statuses \cup {NoStatus}]
        /\ now \in 0 .. MaxTime
    BY DEF IInv, TypeOK
  <1>2. Len(ledger) \in Nat /\ Len(ledger') \in Nat /\ Len(ledger) <= Len(ledger')
    BY <1>1, LogGrows
  <1>3. ASSUME NEW s, RequestExists, Derived(s, Len(ledger))
        PROVE  \E n \in 1 .. Len(ledger'), at \in 0 .. now' : StatusAfter(n, FirstBody, at)' = s
    <2>1. PICK n \in 1 .. Len(ledger), at \in 0 .. now' : StatusAfter(n, FirstBody, at)' = s
      BY <1>2, <1>3, DerivedStays
    <2>2. n \in 1 .. Len(ledger')
      BY <1>2
    <2> QED
      BY <2>1, <2>2
  <1>4. ASSUME NEW u \in Tasks, pc'[u] = pc[u], body'[u] = body[u], status'[u] = status[u]
        PROVE  Fine(u)
    <2>1. pc[u] = "status_append" => Derived(status[u], Len(ledger))'
      BY <1>3, <1>4 DEF Computing, Derived
    <2> QED
      BY <1>4, <2>1, RequestStays DEF Computing
  <1>5. CASE UNCHANGED vars \/ Tick
    BY <1>4, <1>5 DEF vars, Tick, locals
  <1>6. ASSUME NEW t \in Tasks, Call(t), NEW u \in Tasks
        PROVE  Fine(u)
    <2>1. /\ u # t => pc'[u] = pc[u] /\ body'[u] = body[u] /\ status'[u] = status[u]
          /\ pc'[t] \in {"create_load", "decide_load", "submit_load", "read"}
      <3>1. ASSUME NEW point, NEW b, NEW e, Begin(t, point, b, e)
            PROVE  /\ pc'[t] = point
                   /\ u # t => /\ pc'[u] = pc[u] /\ body'[u] = body[u]
                               /\ status'[u] = status[u]
        BY <1>1, <3>1 DEF Begin
      <3> QED
        BY <1>6, <3>1 DEF Call, CallCreate, CallSubmitDecision, CallSubmitSigned,
                          CallGetStatus
    <2>2. u = t => Fine(u)
      BY <2>1
    <2> QED
      BY <1>4, <2>1, <2>2
  <1>7. ASSUME NEW t \in Tasks, Step(t) \/ StoreRaises(t) \/ Crash(t), NEW u \in Tasks
        PROVE  Fine(u)
    <2>1. CASE u # t
      BY <1>4, <1>7, <2>1, OneCallMoves
    <2>2. CASE u = t
      <3> USE DEF Go
      <3>1. CASE SubmitLoad(t)
        BY <1>1, <2>2, <3>1, RequestStays DEF SubmitLoad, Admissible
      <3>2. CASE ReserveWon(t) \/ DecisionAppend(t)
        <4>1. /\ pc'[t] \in {"decision_append", "recompute"} /\ body'[t] = body[t]
              /\ pc[t] \in {"reserve", "decision_append"}
          BY <1>1, <3>2 DEF ReserveWon, DecisionAppend, AppendStep, locals
        <4> QED
          BY <2>2, <4>1, RequestStays DEF Computing
      <3>3. CASE Recompute(t)
        <4>1. /\ RequestExists /\ body[t] = FirstBody
              /\ pc'[t] \in {"upsert", "status_append"}
              /\ status'[t] = StatusAfter(Len(ledger), FirstBody, now)
          BY <1>1, <3>3 DEF Recompute, Computing, Recomputed
        <4>2. Len(ledger) \in 1 .. Len(ledger)
          BY <1>1, <4>1 DEF RequestExists, Positions
        <4>3. now \in 0 .. now
          BY <1>1
        <4>4. Derived(StatusAfter(Len(ledger), FirstBody, now), Len(ledger))
          BY <4>2, <4>3 DEF Derived
        <4>5. Derived(status[t], Len(ledger))'
          BY <1>3, <4>1, <4>4 DEF Derived
        <4> QED
          BY <2>2, <4>1, <4>5, RequestStays
      <3>4. CASE \/ CreateLoad(t) \/ CreateAppend(t) \/ ProjectRead(t) \/ Upsert(t)
                 \/ DecideLoad(t) \/ ReserveLost(t) \/ StatusAppend(t) \/ Complete(t)
                 \/ ReadStatus(t) \/ Release(t) \/ StoreRaises(t) \/ Crash(t)
        <4>1. pc'[t] \in {"ok", "error", "crashed", "create_append", "project_read", "upsert",
                          "complete", "submit_load", "read", "release"}
          BY <1>1, <3>4 DEF CreateLoad, CreateAppend, ProjectRead, Upsert, DecideLoad,
             ReserveLost, StatusAppend, Complete, ReadStatus, Release, StoreRaises, Crash,
             AppendStep, Handler
        <4> QED
          BY <2>2, <4>1
      <3> QED
        BY <1>7, <3>1, <3>2, <3>3, <3>4 DEF Step
    <2> QED
      BY <2>1, <2>2
  <1> QED
    BY <1>5, <1>6, <1>7 DEF Next

(* ApprovalService's StatusesJustified: no status.changed entry is made up *)
(* and none announces a request's outcome from another body's evidence.    *)
THEOREM StatusesJustifiedHolds == Spec => []StatusesJustified
  <1>1. Init => Computing
    <2> SUFFICES ASSUME Init
                 PROVE  Computing
      OBVIOUS
    <2>1. Positions("status.changed") = {}
      BY DEF Init, Positions
    <2> QED
      BY <2>1 DEF Init, Computing, StatusesJustified
  <1>2. IInv /\ Computing /\ [Next]_vars => Computing'
    BY EntriesStayJustified, CallsStayComputing DEF Computing
  <1>3. Computing => StatusesJustified
    BY DEF Computing
  <1> QED
    BY <1>1, <1>2, <1>3, Invariant, PTL DEF Spec
=============================================================================
