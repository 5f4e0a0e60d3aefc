----------------------------- MODULE AppendLoop -----------------------------
(***************************************************************************)
(* ApprovalService._append over an EventStore: every writer reads the      *)
(* head, seals the entry that would follow it, and asks the store to       *)
(* insert it; the store refuses a seq that is taken, and the writer tries  *)
(* again from the new head, at most `Attempts' times.                      *)
(*                                                                         *)
(* The store is a map from seq to entry, because that is all its contract  *)
(* promises: an insert is refused when its seq is taken.  It never looks   *)
(* at prev_hash and does not ask for the next seq, so a gapless, linked    *)
(* chain is something the loop has to bring about.                         *)
(*                                                                         *)
(* Each read or write of the store is one step; what a task computes       *)
(* between two of them touches nothing shared.  The jittered sleep between *)
(* attempts is the time between two steps of a task.                       *)
(***************************************************************************)
EXTENDS Naturals, FiniteSets

CONSTANTS
    Writers,       \* the callers of _append: tasks of any number of processes
    PayloadCount,  \* events are numbered 1 .. PayloadCount
    Attempts,      \* append_attempts
    MaxEntries     \* bound of the model: no call starts on a log this long

ASSUME PayloadAssumption == PayloadCount \in Nat \ {0}
ASSUME AttemptsAssumption == Attempts \in Nat \ {0}
ASSUME BoundAssumption == MaxEntries \in Nat

VARIABLES
    store,    \* the EventStore: a function from the seqs taken to entries
    pc,       \* per writer: what its call of _append does next
    job,      \* per writer: the event it was asked to append
    draft,    \* per writer: `entry', the entry it has sealed
    attempt,  \* per writer: `attempt', how often it has been refused
    height0   \* per writer, history: the number of entries at the call

vars == <<store, pc, job, draft, attempt, height0>>

Payloads == 1 .. PayloadCount

(* An entry's other fields (recorded_at, event_type, request_id, payload)  *)
(* are one event to the chain.  entry_hash is not stored: sealed() makes   *)
(* it a function of the rest.                                              *)
Entry == [seq : Nat, prev_hash : Nat, payload : Payloads]

ZeroHash == 0

(* A collision-free canonical_hash(core_dict()): the entry's events since  *)
(* genesis, read as digits in base PayloadCount + 1, none of them zero.    *)
EntryHash(e) == e.prev_hash * (PayloadCount + 1) + e.payload

Genesis(p) == [seq |-> 0, prev_hash |-> ZeroHash, payload |-> p]

(* chain.next_entry for a log that has a head. *)
NextEntry(prev, p) ==
    [seq |-> prev.seq + 1, prev_hash |-> EntryHash(prev), payload |-> p]

(* EventStore.head: the entry of the highest seq; None for an empty log. *)
IsHead(e) ==
    /\ e.seq \in DOMAIN store
    /\ e = store[e.seq]
    /\ \A s \in DOMAIN store : s <= e.seq

Height == Cardinality(DOMAIN store)

Running == {"head", "append"}
Ended == {"recorded", "exhausted", "failed"}

TypeOK ==
    /\ DOMAIN store \subseteq Nat
    /\ IsFiniteSet(DOMAIN store)
    /\ \A s \in DOMAIN store : store[s] \in Entry
    /\ pc \in [Writers -> {"idle"} \cup Running \cup Ended]
    /\ job \in [Writers -> Payloads]
    /\ draft \in [Writers -> Entry]
    /\ attempt \in [Writers -> 0 .. Attempts]
    /\ height0 \in [Writers -> Nat]

Init ==
    /\ store = [s \in {} |-> Genesis(1)]
    /\ pc = [w \in Writers |-> "idle"]
    /\ job = [w \in Writers |-> 1]
    /\ draft = [w \in Writers |-> Genesis(1)]
    /\ attempt = [w \in Writers |-> 0]
    /\ height0 = [w \in Writers |-> 0]

-----------------------------------------------------------------------------
(* A task calls _append with event p. *)
Call(w, p) ==
    /\ pc[w] \notin Running
    /\ Height < MaxEntries
    /\ pc' = [pc EXCEPT ![w] = "head"]
    /\ job' = [job EXCEPT ![w] = p]
    /\ attempt' = [attempt EXCEPT ![w] = 0]
    /\ height0' = [height0 EXCEPT ![w] = Height]
    /\ UNCHANGED <<store, draft>>

(* prev = await self.events.head(); entry = next_entry(prev, ...) *)
ReadHead(w) ==
    /\ pc[w] = "head"
    /\ \/ /\ DOMAIN store = {}
          /\ draft' = [draft EXCEPT ![w] = Genesis(job[w])]
       \/ \E s \in DOMAIN store :
            /\ IsHead(store[s])
            /\ draft' = [draft EXCEPT ![w] = NextEntry(store[s], job[w])]
    /\ pc' = [pc EXCEPT ![w] = "append"]
    /\ UNCHANGED <<store, job, attempt, height0>>

(* Mutant of Insert: an upsert where the contract asks for an insert. *)
InsertOverwriting(e) ==
    store' = [s \in DOMAIN store \cup {e.seq} |->
                 IF s = e.seq THEN e ELSE store[s]]

(* EventStore.append of an entry whose seq is free. *)
Insert(e) ==
    /\ e.seq \notin DOMAIN store
    /\ store' = [s \in DOMAIN store \cup {e.seq} |->
                    IF s = e.seq THEN e ELSE store[s]]

(* await self.events.append(entry); return entry *)
AppendEntry(w) ==
    /\ pc[w] = "append"
    /\ Insert(draft[w])
    /\ pc' = [pc EXCEPT ![w] = "recorded"]
    /\ UNCHANGED <<job, draft, attempt, height0>>

(* Mutants of AppendConflict: it never gives up, gives up one attempt too  *)
(* soon, or tries the same entry again, forever.                           *)
ConflictTireless(w) ==
    /\ pc[w] = "append"
    /\ draft[w].seq \in DOMAIN store
    /\ attempt' = [attempt EXCEPT ![w] = @ + 1]
    /\ pc' = [pc EXCEPT ![w] = "head"]
    /\ UNCHANGED <<store, job, draft, height0>>

ConflictHasty(w) ==
    /\ pc[w] = "append"
    /\ draft[w].seq \in DOMAIN store
    /\ attempt' = [attempt EXCEPT ![w] = @ + 1]
    /\ pc' = [pc EXCEPT ![w] =
                IF attempt[w] + 1 = Attempts - 1 THEN "exhausted" ELSE "head"]
    /\ UNCHANGED <<store, job, draft, height0>>

ConflictSpinning(w) ==
    /\ pc[w] = "append"
    /\ draft[w].seq \in DOMAIN store
    /\ UNCHANGED vars

(* except LedgerConflict: the seq is taken, go round again or give up. *)
AppendConflict(w) ==
    /\ pc[w] = "append"
    /\ draft[w].seq \in DOMAIN store
    /\ attempt' = [attempt EXCEPT ![w] = @ + 1]
    /\ pc' = [pc EXCEPT ![w] =
                IF attempt[w] = Attempts - 1 THEN "exhausted" ELSE "head"]
    /\ UNCHANGED <<store, job, draft, height0>>

(* Mutant of AnswerLost: a lost answer is taken for a conflict. *)
AnswerLostRetried(w) ==
    /\ pc[w] = "append"
    /\ attempt[w] < Attempts - 1
    /\ Insert(draft[w])
    /\ attempt' = [attempt EXCEPT ![w] = @ + 1]
    /\ pc' = [pc EXCEPT ![w] = "head"]
    /\ UNCHANGED <<job, draft, height0>>

(* The store wrote the entry, but the task never learns it: the answer is  *)
(* lost with the connection, or the task is cancelled or dies first.       *)
AnswerLost(w) ==
    /\ pc[w] = "append"
    /\ Insert(draft[w])
    /\ pc' = [pc EXCEPT ![w] = "failed"]
    /\ UNCHANGED <<job, draft, attempt, height0>>

(* head() or append() raises anything but LedgerConflict without writing,  *)
(* or the task is cancelled or dies: nothing in _append catches it.        *)
CallFails(w) ==
    /\ pc[w] \in Running
    /\ pc' = [pc EXCEPT ![w] = "failed"]
    /\ UNCHANGED <<store, job, draft, attempt, height0>>

Step(w) == ReadHead(w) \/ AppendEntry(w) \/ AppendConflict(w)

Next ==
    \E w \in Writers :
        \/ \E p \in Payloads : Call(w, p)
        \/ Step(w)
        \/ AnswerLost(w)
        \/ CallFails(w)

Spec == Init /\ [][Next]_vars

(* A task that is not cancelled is resumed by its event loop once the      *)
(* store has answered, and a store answers.                                *)
FairSpec == Spec /\ \A w \in Writers : WF_vars(Step(w))

-----------------------------------------------------------------------------
(* verify_segment over the whole log succeeds at any moment: the seqs are  *)
(* 0, 1, 2, ... without a gap, and each entry carries the hash of the one  *)
(* before it, although the store checks neither.                           *)
ChainIntact ==
    /\ DOMAIN store = 0 .. Height - 1
    /\ \A s \in DOMAIN store :
        /\ store[s].seq = s
        /\ store[s].prev_hash =
              IF s = 0 THEN ZeroHash ELSE EntryHash(store[s - 1])

(* _append returns an entry only if the log holds that very entry at its   *)
(* seq, now and ever after: no later writer, in whatever interleaving of   *)
(* reads and inserts, displaces an entry somebody was told is recorded.    *)
ReturnedIsRecorded ==
    \A w \in Writers :
        pc[w] = "recorded" =>
            /\ draft[w].seq \in DOMAIN store
            /\ store[draft[w].seq] = draft[w]
            /\ draft[w].payload = job[w]

(* ConcurrencyExhausted means what it says, "sustained write contention":  *)
(* during the call others appended at least one entry per attempt.  A      *)
(* stale head read before the call, or a retry that does not read the head *)
(* again, would give up while nobody else makes progress.                  *)
ExhaustionMeansContention ==
    \A w \in Writers :
        pc[w] = "exhausted" => Height >= height0[w] + Attempts

(* Every call of _append ends, whatever the others do. *)
CallsEnd ==
    \A w \in Writers : pc[w] \in Running ~> pc[w] \notin Running

(* The strengthening under which the above is inductive: a sealed entry    *)
(* still fits the log behind its seq, which may since have been taken, and *)
(* each refusal so far was paid for by somebody else's entry.              *)
DraftsFit ==
    \A w \in Writers :
        pc[w] = "append" =>
            /\ draft[w].payload = job[w]
            /\ draft[w].seq <= Height
            /\ draft[w].prev_hash =
                  IF draft[w].seq = 0 THEN ZeroHash
                                      ELSE EntryHash(store[draft[w].seq - 1])

RefusalsPaidFor ==
    \A w \in Writers :
        /\ pc[w] \in Running => /\ attempt[w] < Attempts
                               /\ Height >= height0[w] + attempt[w]
        /\ pc[w] = "append" => draft[w].seq >= height0[w] + attempt[w]

IndInv ==
    /\ TypeOK
    /\ ChainIntact
    /\ ReturnedIsRecorded
    /\ ExhaustionMeansContention
    /\ DraftsFit
    /\ RefusalsPaidFor

-----------------------------------------------------------------------------
(* What a caller sees of all this: the events in seq order, and each call  *)
(* running or ended.                                                       *)
LedgerOf == [i \in 1 .. Height |-> store[i - 1].payload]

CallOf == [w \in Writers |->
    IF pc[w] \in Running THEN [state |-> "running", payload |-> job[w]]
                         ELSE [state |-> pc[w]]]

Abstract == INSTANCE Ledger WITH ledger <- LedgerOf, call <- CallOf

(* The loop implements the atomic ledger: each call appends its event at   *)
(* most once, at the end, in one step; success is reported exactly when    *)
(* the event is there and a call that exhausted its attempts left nothing. *)
ImplementsLedger == Abstract!Spec
=============================================================================
