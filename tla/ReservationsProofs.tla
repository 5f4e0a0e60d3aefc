------------------------- MODULE ReservationsProofs -------------------------
(***************************************************************************)
(* For any callers, decisions, budget and longer TTL: one call at a time   *)
(* works on a key, answers given on behalf of a completed row are true,    *)
(* and the database calls implement IdempotencyContract.                   *)
(***************************************************************************)
EXTENDS Reservations, TLAPS

(* Who has won the key has its row, not completed, and the row is no older *)
(* than the call: it cannot have reached the TTL.                          *)
HoldersOwnTheRow ==
    \A c \in Holders :
        \E r \in row :
            /\ ~r.done
            /\ r.fingerprint = fingerprint[c]
            /\ r.age <= age[c]

(* What a call is about to declare done is in the ledger. *)
CompletedIsRecorded ==
    \A c \in Callers : pc[c] = "complete" => fingerprint[c] \in recorded

(* What a row declares done is in the ledger. *)
DoneIsRecorded ==
    \A r \in row : r.done => r.fingerprint \in recorded

(* The inductive invariant. *)
IInv ==
    /\ TypeOK
    /\ HoldersOwnTheRow
    /\ OneWorkerPerKey
    /\ CompletedIsRecorded
    /\ DoneIsRecorded
    /\ ReplayedIsRecorded

(* A row is one row. *)
LEMMA AtMostOneRow ==
    ASSUME TypeOK, NEW r \in row
    PROVE  row = {r} /\ r \in Row
  BY DEF TypeOK

(* A row that somebody has won is not old. *)
LEMMA HeldRowIsYoung ==
    ASSUME IInv, NEW c \in Holders, NEW r \in row
    PROVE  /\ r.age < TTL /\ ~r.done
           /\ r.fingerprint = fingerprint[c] /\ r.age <= age[c]
  <1>1. row = {r} /\ r \in Row
    BY AtMostOneRow DEF IInv
  <1>2. r.age <= age[c] /\ ~r.done /\ r.fingerprint = fingerprint[c]
    BY <1>1 DEF IInv, HoldersOwnTheRow
  <1>3. age[c] \in 0 .. Budget /\ r.age \in 0 .. TTL
    BY <1>1 DEF IInv, TypeOK, Holders, Row
  <1> QED
    BY <1>2, <1>3, BudgetAssumption

(* While the row stays, a call that moves on without winning or completing *)
(* keeps the invariant, if what it ends with is true.                      *)
LEMMA OthersMove ==
    ASSUME IInv, NEW c \in Callers, NEW to \in Busy \cup Over,
           Go(c, to), row' = row,
           recorded \subseteq recorded', recorded' \subseteq Fingerprints,
           to \in Holding => pc[c] \in Holding,
           to \in {"complete", "replayed"} => fingerprint[c] \in recorded'
    PROVE  IInv'
  <1> USE DEF Go
  <1>1. Holders' \subseteq Holders
    BY DEF Holders, IInv, TypeOK
  <1>2. TypeOK'
    BY BudgetAssumption DEF IInv, TypeOK
  <1>3. \A d \in Holders' : age'[d] = age[d] /\ fingerprint'[d] = fingerprint[d]
    BY DEF Holders, Holding, Busy, IInv, TypeOK
  <1>4. HoldersOwnTheRow'
    BY <1>1, <1>3 DEF HoldersOwnTheRow, IInv
  <1>5. OneWorkerPerKey'
    BY <1>1 DEF OneWorkerPerKey, IInv
  <1>6. CompletedIsRecorded' /\ ReplayedIsRecorded'
    BY DEF CompletedIsRecorded, ReplayedIsRecorded, IInv, TypeOK
  <1>7. DoneIsRecorded'
    BY DEF DoneIsRecorded, IInv
  <1> QED
    BY <1>2, <1>4, <1>5, <1>6, <1>7 DEF IInv

(* The invariant is inductive. *)
LEMMA InvariantIsInductive ==
    ASSUME IInv, [Next]_vars
    PROVE  IInv'
  <1> USE DEF Busy, Over, Holding
  <1>1. ASSUME NEW c \in Callers, NEW f \in Fingerprints, Call(c, f)
        PROVE  IInv'
    <2> USE <1>1 DEF Call
    <2>1. Holders' = Holders /\ \A d \in Holders : d # c
      BY DEF Holders, IInv, TypeOK
    <2>2. TypeOK'
      BY DEF IInv, TypeOK
    <2>3. HoldersOwnTheRow' /\ OneWorkerPerKey'
      BY <2>1 DEF IInv, TypeOK, HoldersOwnTheRow, OneWorkerPerKey, Holders
    <2>4. CompletedIsRecorded' /\ ReplayedIsRecorded' /\ DoneIsRecorded'
      BY DEF CompletedIsRecorded, ReplayedIsRecorded, DoneIsRecorded, IInv, TypeOK
    <2> QED
      BY <2>2, <2>3, <2>4 DEF IInv
  <1>2. ASSUME NEW c \in Callers, InsertOne(c)
        PROVE  IInv'
    <2> USE <1>2 DEF InsertOne
    <2>1. CASE row # {}
      BY <2>1, OthersMove DEF IInv, TypeOK
    <2>2. CASE row = {}
      <3> USE <2>2 DEF Go
      <3>1. Holders = {}
        BY DEF IInv, HoldersOwnTheRow
      <3>2. Holders' = {c}
        BY <3>1 DEF Holders, IInv, TypeOK
      <3>3. TypeOK'
        <4>1. [fingerprint |-> fingerprint[c], done |-> FALSE, age |-> 0] \in Row
          BY BudgetAssumption DEF Row, IInv, TypeOK
        <4> QED
          BY <4>1 DEF IInv, TypeOK
      <3>4. HoldersOwnTheRow'
        <4> DEFINE new == [fingerprint |-> fingerprint[c], done |-> FALSE, age |-> 0]
        <4>1. fingerprint' = fingerprint /\ age'[c] = age[c] /\ 0 <= age[c]
          BY BudgetAssumption DEF IInv, TypeOK
        <4>2. row' = {new}
          OBVIOUS
        <4>3. /\ ~new.done
              /\ new.fingerprint = fingerprint'[c]
              /\ new.age <= age'[c]
          BY <4>1
        <4> HIDE DEF new
        <4> QED
          BY <3>2, <4>2, <4>3 DEF HoldersOwnTheRow
      <3>5. OneWorkerPerKey'
        BY <3>2 DEF OneWorkerPerKey
      <3>6. CompletedIsRecorded' /\ ReplayedIsRecorded' /\ DoneIsRecorded'
        BY DEF CompletedIsRecorded, ReplayedIsRecorded, DoneIsRecorded, IInv, TypeOK
      <3> QED
        BY <3>3, <3>4, <3>5, <3>6 DEF IInv
    <2> QED
      BY <2>1, <2>2
  <1>3. ASSUME NEW c \in Callers, FindOne(c)
        PROVE  IInv'
    <2> USE <1>3 DEF FindOne
    <2>1. Found(c) \in Over
      BY DEF Found
    <2>2. ASSUME Found(c) = "replayed"
          PROVE  fingerprint[c] \in recorded
      <3>1. PICK r \in row : r.done
        BY <2>2 DEF Found
      <3>2. r.fingerprint = fingerprint[c]
        BY <2>2 DEF Found
      <3> QED
        BY <3>1, <3>2 DEF IInv, DoneIsRecorded
    <2>3. Found(c) \notin Holding /\ Found(c) # "complete"
      BY <2>1
    <2> QED
      BY <2>1, <2>2, <2>3, OthersMove DEF IInv, TypeOK
  <1>4. ASSUME NEW c \in Callers, Record(c)
        PROVE  IInv'
    <2>1. fingerprint[c] \in Fingerprints /\ recorded \subseteq Fingerprints
      BY DEF IInv, TypeOK
    <2> QED
      BY <1>4, <2>1, OthersMove DEF Record
  <1>5. ASSUME NEW c \in Callers, RecordFails(c)
        PROVE  IInv'
    BY <1>5, OthersMove DEF RecordFails, IInv, TypeOK
  <1>6. ASSUME NEW c \in Callers, pc[c] \in Holding, Go(c, "idle"), recorded' = recorded,
               \/ row' = {}
               \/ /\ pc[c] = "complete"
                  /\ row' = {[r EXCEPT !.done = TRUE] : r \in row}
        PROVE  IInv'
    <2> USE <1>6 DEF Go
    <2>1. c \in Holders
      BY DEF Holders
    <2>2. Holders' = {}
      BY <2>1 DEF Holders, IInv, TypeOK, OneWorkerPerKey
    <2>3. TypeOK' /\ DoneIsRecorded'
      <3>1. CASE row' = {}
        BY <3>1, BudgetAssumption DEF IInv, TypeOK, DoneIsRecorded
      <3>2. CASE pc[c] = "complete" /\ row' = {[r EXCEPT !.done = TRUE] : r \in row}
        <4>1. PICK r \in row : r.fingerprint = fingerprint[c]
          BY <2>1 DEF IInv, HoldersOwnTheRow
        <4>2. row = {r} /\ r \in Row
          BY AtMostOneRow, <4>1 DEF IInv
        <4>3. row' = {[r EXCEPT !.done = TRUE]} /\ [r EXCEPT !.done = TRUE] \in Row
          BY <3>2, <4>2 DEF Row
        <4>4. fingerprint[c] \in recorded
          BY <3>2 DEF IInv, CompletedIsRecorded
        <4>5. DoneIsRecorded'
          BY <4>1, <4>2, <4>3, <4>4 DEF DoneIsRecorded, Row
        <4>6. row' = {} \/ \E q \in Row : row' = {q}
          BY <4>3
        <4>7. /\ pc' \in [Callers -> Busy \cup Over]
              /\ age' \in [Callers -> 0 .. Budget]
              /\ fingerprint' \in [Callers -> Fingerprints] /\ recorded' \subseteq Fingerprints
          BY BudgetAssumption DEF IInv, TypeOK
        <4>8. TypeOK'
          BY <4>6, <4>7 DEF TypeOK
        <4> QED
          BY <4>5, <4>8
      <3> QED
        BY <1>6, <3>1, <3>2
    <2>4. HoldersOwnTheRow' /\ OneWorkerPerKey'
      BY <2>2 DEF HoldersOwnTheRow, OneWorkerPerKey
    <2>5. CompletedIsRecorded' /\ ReplayedIsRecorded'
      BY DEF CompletedIsRecorded, ReplayedIsRecorded, IInv, TypeOK
    <2> QED
      BY <2>3, <2>4, <2>5 DEF IInv
  <1>7. ASSUME NEW c \in Callers, Complete(c) \/ Release(c)
        PROVE  IInv'
    BY <1>6, <1>7 DEF Complete, Release
  <1>8. ASSUME NEW c \in Callers, Return(c) \/ Crash(c)
        PROVE  IInv'
    BY <1>8, OthersMove DEF Return, Crash, IInv, TypeOK
  <1>9. CASE Tick
    <2> USE <1>9 DEF Tick
    <2>1. Holders' = Holders
      BY DEF Holders
    <2>2. \A d \in Holders : age[d] \in Nat /\ age[d] < Budget /\ age'[d] = age[d] + 1
      BY BudgetAssumption DEF Holders, IInv, TypeOK
    <2>3. age' \in [Callers -> 0 .. Budget]
      BY BudgetAssumption DEF IInv, TypeOK
    <2>4. ASSUME NEW r \in row
          PROVE  LET older == [r EXCEPT !.age = IF @ < TTL THEN @ + 1 ELSE @]
                 IN  /\ row' = {older} /\ older \in Row
                     /\ older.done = r.done /\ older.fingerprint = r.fingerprint
                     /\ older.age <= r.age + 1
      <3>1. row = {r} /\ r \in Row
        BY AtMostOneRow DEF IInv
      <3> QED
        BY <3>1, BudgetAssumption DEF Row
    <2>5. TypeOK'
      BY <2>3, <2>4 DEF IInv, TypeOK
    <2>6. HoldersOwnTheRow'
      <3> SUFFICES ASSUME NEW d \in Holders
                   PROVE  \E r \in row' : /\ ~r.done
                                          /\ r.fingerprint = fingerprint'[d]
                                          /\ r.age <= age'[d]
        BY <2>1 DEF HoldersOwnTheRow
      <3>1. PICK r \in row : ~r.done /\ r.fingerprint = fingerprint[d] /\ r.age <= age[d]
        BY DEF IInv, HoldersOwnTheRow
      <3> DEFINE older == [r EXCEPT !.age = IF @ < TTL THEN @ + 1 ELSE @]
      <3>2. older \in row' /\ older.done = r.done /\ older.fingerprint = r.fingerprint
        BY <2>4
      <3>3. older.age <= age[d] + 1
        <4>1. r.age \in Nat /\ older.age \in Nat /\ older.age <= r.age + 1
          BY <2>4, AtMostOneRow, BudgetAssumption DEF IInv, Row
        <4> HIDE DEF older
        <4> QED
          BY <2>2, <3>1, <4>1
      <3> HIDE DEF older
      <3> QED
        BY <2>2, <3>1, <3>2, <3>3
    <2>7. OneWorkerPerKey'
      BY <2>1 DEF IInv, OneWorkerPerKey
    <2>8. DoneIsRecorded'
      BY <2>4 DEF IInv, DoneIsRecorded
    <2>9. CompletedIsRecorded' /\ ReplayedIsRecorded'
      BY DEF CompletedIsRecorded, ReplayedIsRecorded, IInv
    <2> QED
      BY <2>5, <2>6, <2>7, <2>8, <2>9 DEF IInv
  <1>10. CASE Expire
    <2> USE <1>10 DEF Expire
    <2>1. Holders = {}
      <3>1. PICK r \in row : r.age >= TTL
        OBVIOUS
      <3>2. r.age \in 0 .. TTL
        BY AtMostOneRow DEF IInv, Row
      <3> QED
        BY <3>1, <3>2, HeldRowIsYoung, BudgetAssumption
    <2>2. Holders' = {}
      BY <2>1 DEF Holders
    <2> QED
      BY <2>2 DEF IInv, TypeOK, HoldersOwnTheRow, OneWorkerPerKey, CompletedIsRecorded,
                  DoneIsRecorded, ReplayedIsRecorded
  <1>11. CASE UNCHANGED vars
    BY <1>11 DEF vars, IInv, TypeOK, HoldersOwnTheRow, OneWorkerPerKey, Holders,
                 CompletedIsRecorded, DoneIsRecorded, ReplayedIsRecorded
  <1> QED
    BY <1>1, <1>2, <1>3, <1>4, <1>5, <1>7, <1>8, <1>9, <1>10, <1>11 DEF Next, Step

(* It holds from the start. *)
LEMMA InvariantHolds == Spec => []IInv
  <1>1. Init => IInv
    BY BudgetAssumption DEF Init, IInv, TypeOK, HoldersOwnTheRow, OneWorkerPerKey, Holders,
       Holding, Busy, Over, CompletedIsRecorded, DoneIsRecorded, ReplayedIsRecorded
  <1>2. IInv /\ [Next]_vars => IInv'
    BY InvariantIsInductive
  <1> QED
    BY <1>1, <1>2, PTL DEF Spec

(* Type correctness of the reservations of a key. *)
THEOREM ReservationsTypeOK == Spec => []TypeOK
  <1>1. IInv => TypeOK
    BY DEF IInv
  <1> QED
    BY <1>1, InvariantHolds, PTL

(* At any time at most one call is past its insert and before its complete *)
(* or release (MongoIdempotencyStore), if no call outlasts the TTL.        *)
THEOREM OneWorkerPerKeyHolds == Spec => []OneWorkerPerKey
  <1>1. IInv => OneWorkerPerKey
    BY DEF IInv
  <1> QED
    BY <1>1, InvariantHolds, PTL

(* A call is only told that its decision was made if the ledger has it. *)
THEOREM ReplaysAreTrue == Spec => []ReplayedIsRecorded
  <1>1. IInv => ReplayedIsRecorded
    BY DEF IInv
  <1> QED
    BY <1>1, InvariantHolds, PTL

(* The outcomes, as a function. *)
OutcomeNow == [c \in Callers |-> OutcomeOf(pc[c])]

(* What a call knows at each point of it. *)
LEMMA OutcomeTable ==
    /\ \A point \in {"idle", "insert_one", "find_one"} : OutcomeOf(point) = "none"
    /\ \A point \in Holding : OutcomeOf(point) = "won"
    /\ \A point \in {"replayed", "conflict"} : OutcomeOf(point) = point
    /\ OutcomeOf("get_status") = "lost"
    /\ OutcomeOf("broken") = "failed"
  BY DEF OutcomeOf, Holding

(* What a move of one call does to its outcome. *)
LEMMA OutcomeMoves ==
    ASSUME TypeOK, NEW c \in Callers, NEW to, Go(c, to)
    PROVE  /\ OutcomeNow' = [OutcomeNow EXCEPT ![c] = OutcomeOf(to)]
           /\ fingerprint' = fingerprint
  BY DEF OutcomeNow, Go, TypeOK

(* Every database call of the store is one step of the contract or none: a *)
(* lost insert is none, since the find that follows it answers; a row      *)
(* expires only when nobody has won it, since a held row is young.         *)
THEOREM ReservationsImplementContract == Spec => ImplementsContract
  <1> USE DEF Contract!Next, Contract!cvars, Contract!Answer
  <1>1. Init => Contract!Init
    BY OutcomeTable DEF Init, Contract!Init, SlotOf
  <1>2. IInv /\ [Next]_vars => [Contract!Next]_(Contract!cvars)
    <2> SUFFICES ASSUME IInv, [Next]_vars
                 PROVE  [Contract!Next]_(Contract!cvars)
      OBVIOUS
    <2>0. TypeOK /\ OutcomeNow = [c \in Callers |-> OutcomeOf(pc[c])]
      BY DEF IInv, OutcomeNow
    <2> USE DEF OutcomeNow
    <2>1. ASSUME NEW c \in Callers, NEW to,
                 Go(c, to), OutcomeOf(to) = OutcomeOf(pc[c]), SlotOf' = SlotOf
          PROVE  UNCHANGED <<SlotOf, OutcomeNow, fingerprint>>
      <3>1. /\ OutcomeNow' = [OutcomeNow EXCEPT ![c] = OutcomeOf(pc[c])]
            /\ fingerprint' = fingerprint
        BY <2>0, <2>1, OutcomeMoves
      <3> QED
        BY <2>1, <3>1
    <2>2. ASSUME NEW c \in Callers, NEW f \in Fingerprints, Call(c, f)
          PROVE  Contract!Mean(c, f)
      <3>1. OutcomeOf("idle") = "none" /\ OutcomeOf("insert_one") = "none"
        BY OutcomeTable
      <3>2. ASSUME NEW d \in Callers
            PROVE  OutcomeOf(pc'[d]) = OutcomeOf(pc[d])
        BY <2>0, <2>2, <3>1 DEF Call, TypeOK
      <3>3. OutcomeNow[c] = "none"
        BY <2>2, <3>1 DEF Call
      <3> QED
        BY <2>2, <3>2, <3>3 DEF Call, SlotOf, Contract!Mean
    <2>3. ASSUME NEW c \in Callers, InsertOne(c)
          PROVE  Contract!Reserve(c) \/ UNCHANGED <<SlotOf, OutcomeNow, fingerprint>>
      <3>1. pc[c] = "insert_one" /\ OutcomeOf(pc[c]) = "none"
        BY <2>3, OutcomeTable DEF InsertOne
      <3>2. CASE row = {}
        <4>1. Go(c, "work")
          BY <2>3, <3>2 DEF InsertOne
        <4>2. /\ OutcomeNow' = [OutcomeNow EXCEPT ![c] = "won"]
              /\ fingerprint' = fingerprint
          BY <2>0, <4>1, OutcomeMoves, OutcomeTable DEF Holding
        <4>3. SlotOf = {}
          BY <3>2 DEF SlotOf
        <4> DEFINE new == [fingerprint |-> fingerprint[c], done |-> FALSE, age |-> 0]
        <4>4. SlotOf' = {[fingerprint |-> fingerprint[c], done |-> FALSE]}
          <5>1. row' = {new} /\ new.fingerprint = fingerprint[c] /\ new.done = FALSE
            BY <2>3, <3>2 DEF InsertOne
          <5> HIDE DEF new
          <5> QED
            BY <5>1 DEF SlotOf
        <4> QED
          BY <3>1, <4>2, <4>3, <4>4 DEF Contract!Reserve
      <3>3. CASE row # {}
        <4>1. Go(c, "find_one") /\ SlotOf' = SlotOf
          BY <2>3, <3>3 DEF InsertOne, SlotOf
        <4>2. OutcomeOf("find_one") = "none"
          BY OutcomeTable
        <4> QED
          BY <2>1, <3>1, <4>1, <4>2
      <3> QED
        BY <3>2, <3>3
    <2>4. ASSUME NEW c \in Callers, FindOne(c)
          PROVE  Contract!Reserve(c) \/ Contract!Fail(c)
      <3>1. OutcomeOf(pc[c]) = "none" /\ SlotOf' = SlotOf
        BY <2>4, OutcomeTable DEF FindOne, SlotOf
      <3>2. /\ OutcomeNow' = [OutcomeNow EXCEPT ![c] = OutcomeOf(Found(c))]
            /\ fingerprint' = fingerprint
        BY <2>0, <2>4, OutcomeMoves DEF FindOne
      <3>3. CASE row = {}
        <4>1. OutcomeOf(Found(c)) = "failed"
          BY <3>3 DEF Found, OutcomeOf, Holding
        <4> QED
          BY <3>1, <3>2, <4>1 DEF Contract!Fail
      <3>4. CASE row # {}
        <4>1. PICK r \in Row : row = {r}
          BY <2>0, <3>4 DEF TypeOK
        <4> DEFINE slot == [fingerprint |-> r.fingerprint, done |-> r.done]
        <4>2. slot \in SlotOf
          BY <4>1 DEF SlotOf
        <4>3. OutcomeOf(Found(c)) =
                  IF slot.fingerprint # fingerprint[c] THEN "conflict"
                  ELSE IF slot.done THEN "replayed" ELSE "lost"
          BY <4>1 DEF Found, OutcomeOf, Holding
        <4> HIDE DEF slot
        <4> QED
          BY <3>1, <3>2, <4>2, <4>3 DEF Contract!Reserve
      <3> QED
        BY <3>3, <3>4
    <2>5. ASSUME NEW c \in Callers, Record(c) \/ RecordFails(c)
          PROVE  UNCHANGED <<SlotOf, OutcomeNow, fingerprint>>
      <3>1. PICK to \in {"complete", "release"} : Go(c, to)
        BY <2>5 DEF Record, RecordFails
      <3>2. OutcomeOf(pc[c]) = "won" /\ OutcomeOf(to) = "won" /\ SlotOf' = SlotOf
        BY <2>5 DEF Record, RecordFails, OutcomeOf, Holding, SlotOf
      <3> QED
        BY <2>1, <3>1, <3>2
    <2>6. ASSUME NEW c \in Callers, Complete(c) \/ Release(c)
          PROVE  Contract!Complete(c) \/ Contract!Release(c)
      <3>1. Go(c, "idle") /\ OutcomeOf(pc[c]) = "won" /\ OutcomeOf("idle") = "none"
        BY <2>6 DEF Complete, Release, OutcomeOf, Holding
      <3>2. /\ OutcomeNow' = [OutcomeNow EXCEPT ![c] = "none"]
            /\ fingerprint' = fingerprint
        BY <2>0, <3>1, OutcomeMoves
      <3>3. CASE Complete(c)
        <4>1. SlotOf' = {[s EXCEPT !.done = TRUE] : s \in SlotOf}
          <5>1. row' = {[r EXCEPT !.done = TRUE] : r \in row}
            BY <3>3 DEF Complete
          <5>2. CASE row = {}
            BY <5>1, <5>2 DEF SlotOf
          <5>3. CASE row # {}
            <6>1. PICK r \in Row : row = {r}
              BY <2>0, <5>3 DEF TypeOK
            <6>2. row' = {[r EXCEPT !.done = TRUE]}
              BY <5>1, <6>1
            <6>3. SlotOf' = {[fingerprint |-> r.fingerprint, done |-> TRUE]}
              BY <6>1, <6>2 DEF SlotOf, Row
            <6>4. SlotOf = {[fingerprint |-> r.fingerprint, done |-> r.done]}
              BY <6>1 DEF SlotOf
            <6> QED
              BY <6>3, <6>4
          <5> QED
            BY <5>2, <5>3
        <4> QED
          BY <3>1, <3>2, <4>1 DEF Contract!Complete
      <3>4. CASE Release(c)
        <4>1. SlotOf' = {}
          BY <3>4 DEF Release, SlotOf
        <4> QED
          BY <3>1, <3>2, <4>1 DEF Contract!Release
      <3> QED
        BY <2>6, <3>3, <3>4
    <2>7. ASSUME NEW c \in Callers, Return(c) \/ Crash(c)
          PROVE  Contract!Leave(c) \/ UNCHANGED <<SlotOf, OutcomeNow, fingerprint>>
      <3>1. Go(c, "idle") /\ OutcomeOf("idle") = "none" /\ SlotOf' = SlotOf
        BY <2>7, OutcomeTable DEF Return, Crash, SlotOf
      <3>2. CASE OutcomeOf(pc[c]) = "none"
        BY <2>1, <3>1, <3>2
      <3>3. CASE OutcomeOf(pc[c]) # "none"
        <4>1. /\ OutcomeNow' = [OutcomeNow EXCEPT ![c] = "none"]
              /\ fingerprint' = fingerprint
          BY <2>0, <3>1, OutcomeMoves
        <4> QED
          BY <3>1, <3>3, <4>1 DEF Contract!Leave
      <3> QED
        BY <3>2, <3>3
    <2>8. CASE Tick
      <3>1. OutcomeNow' = OutcomeNow /\ fingerprint' = fingerprint
        BY <2>8 DEF Tick
      <3>2. SlotOf' = SlotOf
        <4> DEFINE Older(r) == [r EXCEPT !.age = IF @ < TTL THEN @ + 1 ELSE @]
        <4>1. row' = {Older(r) : r \in row}
          BY <2>8 DEF Tick
        <4>2. \A r \in row : Older(r).fingerprint = r.fingerprint /\ Older(r).done = r.done
          BY <2>0, AtMostOneRow DEF Row
        <4> HIDE DEF Older
        <4> QED
          BY <4>1, <4>2 DEF SlotOf
      <3> QED
        BY <3>1, <3>2
    <2>9. CASE Expire
      <3>1. PICK r \in row : r.age >= TTL
        BY <2>9 DEF Expire
      <3>2. Holders = {}
        BY <3>1, AtMostOneRow, HeldRowIsYoung, BudgetAssumption DEF IInv, Row
      <3>3. ASSUME NEW c \in Callers
            PROVE  OutcomeOf(pc[c]) # "won"
        BY <2>0, <3>2 DEF OutcomeOf, Holders, Holding, Busy, Over, TypeOK
      <3>4. /\ SlotOf # {} /\ SlotOf' = {} /\ OutcomeNow' = OutcomeNow
            /\ fingerprint' = fingerprint
        BY <2>9, <3>1 DEF Expire, SlotOf
      <3> QED
        BY <3>3, <3>4 DEF Contract!Lapse
    <2>10. CASE UNCHANGED vars
      BY <2>10 DEF vars, SlotOf
    <2>11. \A c \in Callers : fingerprint[c] \in Fingerprints
      BY <2>0 DEF TypeOK
    <2> QED
      BY <2>2, <2>3, <2>4, <2>5, <2>6, <2>7, <2>8, <2>9, <2>10, <2>11 DEF Next, Step
  <1> QED
    BY <1>1, <1>2, InvariantHolds, PTL DEF Spec, ImplementsContract, Contract!Spec
=============================================================================
