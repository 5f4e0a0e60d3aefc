----------------------------- MODULE Reservations -----------------------------
(***************************************************************************)
(* The idempotency rows of one key: MongoIdempotencyStore of the example,  *)
(* one database call at a time, under the calls that submit_signed_decision*)
(* makes of it, with crashes and with rows that expire on a TTL            *)
(* (stores/base.py, requirement 3).  Keys do not touch each other.         *)
(*                                                                         *)
(* reserve is an insert and, if there is a row, a find: in between the row *)
(* may be released, replaced or expire.  complete and release name the key *)
(* and nothing else: they act on whatever row is there.                    *)
(***************************************************************************)
EXTENDS Naturals

CONSTANTS
    Callers,       \* the calls that submit with this key, at any time
    Fingerprints,  \* what they may mean by it
    Budget,        \* ticks a call takes at most, its retries included
    TTL            \* ticks a row is kept at least

ASSUME BudgetAssumption == Budget \in Nat /\ TTL \in Nat /\ Budget < TTL

VARIABLES
    row,         \* the row of the key, at most one
    pc,          \* per caller: the call it makes next, or how its call ended
    fingerprint, \* per caller: that of its decision
    age,         \* per caller: how long its call has been going on
    recorded     \* the fingerprints of the decisions in the ledger

vars == <<row, pc, fingerprint, age, recorded>>

Busy == {"insert_one", "find_one", "work", "complete", "release"}
Over == {"idle", "get_status", "replayed", "conflict", "broken"}

(* Who has won the key: everyone past a successful insert_one. *)
Holding == {"work", "complete", "release"}
Holders == {c \in Callers : pc[c] \in Holding}

Init ==
    /\ row = {}
    /\ pc = [c \in Callers |-> "idle"]
    /\ fingerprint \in [Callers -> Fingerprints]
    /\ age = [c \in Callers |-> 0]
    /\ recorded = {}

Go(c, to) ==
    /\ pc' = [pc EXCEPT ![c] = to]
    /\ age' = [age EXCEPT ![c] = IF to \in Busy THEN @ ELSE 0]
    /\ UNCHANGED fingerprint

(* A new call, with the decision of an earlier one or another. *)
Call(c, f) ==
    /\ pc[c] = "idle"
    /\ pc' = [pc EXCEPT ![c] = "insert_one"]
    /\ fingerprint' = [fingerprint EXCEPT ![c] = f]
    /\ UNCHANGED <<row, age, recorded>>

(* await self._col.insert_one(...): won, or DuplicateKeyError. *)
InsertOne(c) ==
    /\ pc[c] = "insert_one"
    /\ IF row = {}
       THEN /\ row' = {[fingerprint |-> fingerprint[c], done |-> FALSE, age |-> 0]}
            /\ Go(c, "work")
       ELSE /\ Go(c, "find_one")
            /\ UNCHANGED row
    /\ UNCHANGED recorded

(* Mutants of Found: no row, then the key is free; the fingerprint is not  *)
(* looked at.                                                              *)
FoundFree(c) == IF row = {} THEN "work" ELSE "get_status"

FoundUnchecked(c) ==
    IF row = {} THEN "broken"
    ELSE IF \E r \in row : r.done THEN "replayed" ELSE "get_status"

(* existing = await self._col.find_one(...): None has no fingerprint, and  *)
(* a reservation that is lost is answered with the status.                 *)
Found(c) ==
    IF row = {} THEN "broken"
    ELSE IF \E r \in row : r.fingerprint # fingerprint[c] THEN "conflict"
    ELSE IF \E r \in row : r.done THEN "replayed" ELSE "get_status"

FindOne(c) ==
    /\ pc[c] = "find_one"
    /\ Go(c, Found(c))
    /\ UNCHANGED <<row, recorded>>

(* _record_decision: the append, after which the work may still raise. *)
Record(c) ==
    /\ pc[c] = "work"
    /\ recorded' = recorded \cup {fingerprint[c]}
    /\ \/ Go(c, "complete")
       \/ Go(c, "release")
    /\ UNCHANGED row

(* Mutant of RecordFails: the key is completed whatever happened. *)
RecordSwallowed(c) ==
    /\ pc[c] = "work"
    /\ Go(c, "complete")
    /\ UNCHANGED <<row, recorded>>

(* It raises before the append. *)
RecordFails(c) ==
    /\ pc[c] = "work"
    /\ Go(c, "release")
    /\ UNCHANGED <<row, recorded>>

(* update_one({"_id": key}, {"$set": {"response": ...}}) *)
Complete(c) ==
    /\ pc[c] = "complete"
    /\ row' = {[r EXCEPT !.done = TRUE] : r \in row}
    /\ Go(c, "idle")
    /\ UNCHANGED recorded

(* delete_one({"_id": key}) *)
Release(c) ==
    /\ pc[c] = "release"
    /\ row' = {}
    /\ Go(c, "idle")
    /\ UNCHANGED recorded

Return(c) ==
    /\ pc[c] \in Over \ {"idle"}
    /\ Go(c, "idle")
    /\ UNCHANGED <<row, recorded>>

(* The process is gone, in the middle of its call. *)
Crash(c) ==
    /\ pc[c] \in Busy
    /\ Go(c, "idle")
    /\ UNCHANGED <<row, recorded>>

(* Time passes; no call lasts longer than its budget.  A row older than    *)
(* its TTL is old: the count ends there.                                   *)
Tick ==
    /\ \A c \in Callers : pc[c] \in Busy => age[c] < Budget
    /\ age' = [c \in Callers |-> IF pc[c] \in Busy THEN age[c] + 1 ELSE 0]
    /\ row' = {[r EXCEPT !.age = IF @ < TTL THEN @ + 1 ELSE @] : r \in row}
    /\ UNCHANGED <<pc, fingerprint, recorded>>

(* Mutant of Expire: only what was completed expires. *)
ExpireCompleted ==
    /\ \E r \in row : r.age >= TTL /\ r.done
    /\ row' = {}
    /\ UNCHANGED <<pc, fingerprint, age, recorded>>

(* The database deletes a row some time after its TTL. *)
Expire ==
    /\ \E r \in row : r.age >= TTL
    /\ row' = {}
    /\ UNCHANGED <<pc, fingerprint, age, recorded>>

Step(c) ==
    InsertOne(c) \/ FindOne(c) \/ Record(c) \/ RecordFails(c)
    \/ Complete(c) \/ Release(c) \/ Return(c)

Next ==
    \/ \E c \in Callers : Step(c) \/ Crash(c) \/ \E f \in Fingerprints : Call(c, f)
    \/ Tick \/ Expire

(* Calls go on or crash, time passes, and the database does expire rows. *)
Fairness == WF_vars(Tick) /\ WF_vars(Expire) /\ \A c \in Callers : WF_vars(Step(c))

Spec == Init /\ [][Next]_vars /\ Fairness

-----------------------------------------------------------------------------
Row == [fingerprint : Fingerprints, done : BOOLEAN, age : 0 .. TTL]

(* The row, the calls and the clocks are well formed. *)
TypeOK ==
    /\ row = {} \/ \E r \in Row : row = {r}
    /\ pc \in [Callers -> Busy \cup Over]
    /\ fingerprint \in [Callers -> Fingerprints]
    /\ age \in [Callers -> 0 .. Budget]
    /\ recorded \subseteq Fingerprints

(* One call at a time does the work of a key, through releases, crashes    *)
(* and expiry, although complete and release ask for no proof of having    *)
(* won: it is the TTL, longer than a call, that keeps a row for its winner *)
(* (MongoIdempotencyStore, submit_signed_decision).                        *)
OneWorkerPerKey == \A c, d \in Holders : c = d

(* Who is told that the work was done gets told the truth: the row it met  *)
(* was completed by the call that recorded this very decision, not by one  *)
(* whose row was replaced (MongoIdempotencyStore.complete).                *)
ReplayedIsRecorded ==
    \A c \in Callers : pc[c] = "replayed" => fingerprint[c] \in recorded

SlotOf == {[fingerprint |-> r.fingerprint, done |-> r.done] : r \in row}

OutcomeOf(point) ==
    CASE point \in {"idle", "insert_one", "find_one"} -> "none"
      [] point \in Holding -> "won"
      [] point = "get_status" -> "lost"
      [] point = "broken" -> "failed"
      [] point \in {"replayed", "conflict"} -> point

Contract == INSTANCE IdempotencyContract WITH
    slot <- SlotOf,
    outcome <- [c \in Callers |-> OutcomeOf(pc[c])],
    meant <- fingerprint

(* The two database calls of reserve amount to the one step the protocol   *)
(* asks for, taken at the insert or at the find; a find that finds nothing *)
(* raises, as any store call may (stores/base.py, IdempotencyStore).       *)
ImplementsContract == Contract!Spec

(* A key whose winner crashed does not stay taken: its row expires, and a  *)
(* retry can win it (stores/base.py, requirement 3; service.py releases a  *)
(* key only from the call that won it).                                    *)
AbandonedKeysExpire ==
    (row # {} /\ Holders = {}) ~> (row = {} \/ Holders # {})
=============================================================================
