--------------------------- MODULE Checkpointing ----------------------------
(***************************************************************************)
(* Checkpoints and their verification: tasks append events and publish     *)
(* signed tree heads of the log while an auditor runs verify(), each of    *)
(* them one store call at a time.                                          *)
(*                                                                         *)
(* The store is the EventStore of AppendLoop, with what its contract warns *)
(* of: if it is not durable, a failover takes the log's last entries with  *)
(* it, and nobody is told.  A task that sealed an entry before a failover  *)
(* may insert it afterwards, at a seq that is free again.                  *)
(*                                                                         *)
(* Left out: signatures (a checkpoint the service published verifies),     *)
(* prev_root_hash (nothing reads it), the counting of attempts (AppendLoop *)
(* has it) and steps 4 and 5 of verify, about decisions and statuses       *)
(* (ApprovalService!HonestLogVerifies).                                    *)
(***************************************************************************)
EXTENDS Merkle, FiniteSets

CONSTANTS
    Tasks,          \* the tasks that append, of any number of processes
    MaxCalls,       \* bound of the model: _append is called this often
    MaxFailovers,   \* bound of the model: failovers of the store
    MaxLeaves,      \* bound of the model: the trees of InclusionProofsAreExact
    Resuming        \* whether audits also start where the last one ended

ASSUME BoundsAssumption ==
    MaxCalls \in Nat /\ MaxFailovers \in Nat /\ MaxLeaves \in Nat
ASSUME ResumingAssumption == Resuming \in BOOLEAN

VARIABLES
    log,        \* the EventStore: a function from the seqs taken to entries
    calls,      \* number of calls of _append so far; each is one event
    failovers,  \* number of failovers so far
    pinned,     \* the checkpoints that checkpoint() returned to a caller
    lost,       \* history: those of them a failover took entries from
    pc,         \* per task: what it does next
    draft,      \* per task: `entry', which it seals and appends
    audit       \* the running, or last, call of verify()

vars == <<log, calls, failovers, pinned, lost, pc, draft, audit>>

NoCheckpoint == [size |-> 0, root |-> <<"none">>]

(* A call's event: the call's number stands for its content, and cp is the *)
(* content itself if it is a checkpoint.published.                         *)
Event(id, cp) == [id |-> id, cp |-> cp]

ZeroHash == <<>>

(* entry_hash: a function of prev_hash and of the event, without collision.*)
EntryHash(e) == Append(e.prev_hash, e.event.id)

Genesis(event) == [seq |-> 0, prev_hash |-> ZeroHash, event |-> event]

NoDraft == Genesis(Event(0, NoCheckpoint))

(* chain.next_entry for a log that has a head. *)
NextEntry(prev, event) ==
    [seq |-> prev.seq + 1, prev_hash |-> EntryHash(prev), event |-> event]

Seqs == DOMAIN log

(* The highest of some seqs. *)
Last(S) == CHOOSE s \in S : \A r \in S : r <= s

(* The i-th seq that is taken. *)
Nth(i) ==
    CHOOSE s \in Seqs : Cardinality({r \in Seqs : r < s}) = i - 1

(* EventStore.leaf_hashes(up_to): the entries' hashes in seq order. *)
LeavesBelow(upTo) ==
    [i \in 1 .. Cardinality({s \in Seqs : s < upTo}) |->
        EntryHash(log[Nth(i)])]

(* EventStore.leaf_hashes() *)
Leaves == [i \in 1 .. Cardinality(Seqs) |-> EntryHash(log[Nth(i)])]

(* checkpoint.build_checkpoint *)
BuildCheckpoint(leaves) == [size |-> Len(leaves), root |-> Root[leaves]]

(* EventStore.latest_checkpoint *)
Published ==
    LET at == {s \in Seqs : log[s].event.cp # NoCheckpoint}
    IN  IF at = {} THEN NoCheckpoint ELSE log[Last(at)].event.cp

Init ==
    /\ log = [s \in {} |-> NoDraft]
    /\ calls = 0
    /\ failovers = 0
    /\ pinned = {}
    /\ lost = {}
    /\ pc = [t \in Tasks |-> "idle"]
    /\ draft = [t \in Tasks |-> NoDraft]
    /\ audit = [step |-> "none", trusted |-> NoCheckpoint, from |-> 0,
                next |-> 0, prev |-> ZeroHash, published |-> NoCheckpoint,
                failed |-> {}, epoch |-> 0, doomed |-> FALSE]

-----------------------------------------------------------------------------
(* Call number calls + 1 goes to _append with content cp. *)
Enter(t, cp) ==
    /\ pc[t] = "idle"
    /\ calls < MaxCalls
    /\ calls' = calls + 1
    /\ pc' = [pc EXCEPT ![t] = "head"]
    /\ draft' = [draft EXCEPT ![t] = Genesis(Event(calls + 1, cp))]
    /\ UNCHANGED <<log, failovers, pinned, lost, audit>>

(* Any of the service's mutations: an event that is not a checkpoint. *)
Write(t) == Enter(t, NoCheckpoint)

(* checkpoint(): leaves = await self.events.leaf_hashes(); cp = build_...  *)
(* Reading the previous checkpoint and signing come before the append and  *)
(* touch nothing shared.                                                   *)
Publish(t) == Enter(t, BuildCheckpoint(Leaves))

SealedAfterHead(event) ==
    IF Seqs = {} THEN Genesis(event) ELSE NextEntry(log[Last(Seqs)], event)

(* prev = await self.events.head(); entry = next_entry(prev, ...) *)
ReadHead(t) ==
    /\ pc[t] = "head"
    /\ pc' = [pc EXCEPT ![t] = "append"]
    /\ draft' = [draft EXCEPT ![t] = SealedAfterHead(@.event)]
    /\ UNCHANGED <<log, calls, failovers, pinned, lost, audit>>

(* Mutant of Insert: the store puts an entry at its end, wherever that is. *)
InsertAtEnd(e) ==
    LET end == IF Seqs = {} THEN 0 ELSE Last(Seqs) + 1
    IN  /\ e.seq \notin Seqs
        /\ log' = [s \in Seqs \cup {end} |-> IF s = end THEN e ELSE log[s]]

(* EventStore.append of an entry whose seq is free. *)
Insert(e) ==
    /\ e.seq \notin Seqs
    /\ log' = [s \in Seqs \cup {e.seq} |-> IF s = e.seq THEN e ELSE log[s]]

End(t) ==
    /\ pc' = [pc EXCEPT ![t] = "idle"]
    /\ draft' = [draft EXCEPT ![t] = NoDraft]

(* Mutant of Returned: a checkpoint whose root is that of the log it was   *)
(* appended to, and whose size that of the log it was built from.          *)
ReturnedLate(event) ==
    IF event.cp = NoCheckpoint THEN {}
    ELSE {[event.cp EXCEPT !.root = Root[Leaves]]}

(* What checkpoint() returns once its entry is in. *)
Returned(event) == IF event.cp = NoCheckpoint THEN {} ELSE {event.cp}

(* await self.events.append(entry); return entry *)
AppendEntry(t) ==
    /\ pc[t] = "append"
    /\ Insert(draft[t])
    /\ End(t)
    /\ pinned' = pinned \cup Returned(draft[t].event)
    /\ UNCHANGED <<calls, failovers, lost, audit>>

(* except LedgerConflict: go round again; giving up is CallFails. *)
AppendConflict(t) ==
    /\ pc[t] = "append"
    /\ draft[t].seq \in Seqs
    /\ pc' = [pc EXCEPT ![t] = "head"]
    /\ draft' = [draft EXCEPT ![t] = Genesis(@.event)]
    /\ UNCHANGED <<log, calls, failovers, pinned, lost, audit>>

(* The store wrote the entry, but the task never learns it. *)
AnswerLost(t) ==
    /\ pc[t] = "append"
    /\ Insert(draft[t])
    /\ End(t)
    /\ UNCHANGED <<calls, failovers, pinned, lost, audit>>

(* A store call or the signer raises, attempts are exhausted, or the task  *)
(* is cancelled: the call ends and nothing more is written.                *)
CallFails(t) ==
    /\ pc[t] # "idle"
    /\ End(t)
    /\ UNCHANGED <<log, calls, failovers, pinned, lost, audit>>

(* The store fails over to a replica that has not yet seen the entries     *)
(* from seq n on.                                                          *)
Failover(n) ==
    /\ failovers < MaxFailovers
    /\ \E s \in Seqs : s >= n
    /\ log' = [s \in {s \in Seqs : s < n} |-> log[s]]
    /\ failovers' = failovers + 1
    /\ lost' = lost \cup {cp \in pinned : cp.size > n}
    /\ UNCHANGED <<calls, pinned, pc, draft, audit>>

-----------------------------------------------------------------------------
(* verified_to_seq: max(last_seq, from_seq), where last_seq stays at       *)
(* from_seq - 1 when the chain check raised.                               *)
VerifiedTo ==
    IF "chain" \in audit.failed \/ audit.next = audit.from
    THEN audit.from ELSE audit.next - 1

(* The from_seq of an audit: everything; or only what was written since a  *)
(* pinned checkpoint; or, with Resuming, since the last report.            *)
Starts ==
    {0} \cup {cp.size : cp \in pinned}
        \cup (IF Resuming /\ audit.step = "done" THEN {VerifiedTo + 1} ELSE {})

(* Mutant of Anchor: every segment is taken to start the log. *)
AnchorZero(from) == ZeroHash

(* expected_prev = first.prev_hash if first else ZERO_HASH *)
Anchor(from) == IF from \in Seqs THEN log[from].prev_hash ELSE ZeroHash

(* verify() starts: first = await self.events.get_by_seq(from_seq) *)
StartAudit(trusted, from) ==
    /\ audit.step \in {"none", "done"}
    /\ audit' = [step |-> "scan", trusted |-> trusted, from |-> from,
                 next |-> from, prev |-> Anchor(from),
                 published |-> NoCheckpoint, failed |-> {},
                 epoch |-> failovers, doomed |-> trusted \in lost]
    /\ UNCHANGED <<log, calls, failovers, pinned, lost, pc, draft>>

AuditStep(step) ==
    /\ audit.step = step
    /\ UNCHANGED <<log, calls, failovers, pinned, lost, pc, draft>>

(* Report one check, and go on to the next. *)
Check(ok, name, next) ==
    audit' = [audit EXCEPT !.step = next,
                           !.failed = IF ok THEN @ ELSE @ \cup {name}]

(* Mutant of LinkHolds: verify_segment compares seqs only. *)
SeqFollows(s) == s = audit.next

(* verify_segment on the entry at seq s: it is the seq expected, and its   *)
(* prev_hash is the hash of the entry before it.                           *)
LinkHolds(s) == s = audit.next /\ log[s].prev_hash = audit.prev

(* The scan streams the segment in seq order, an entry at a time; the      *)
(* chain check stops at the first entry that does not fit.                 *)
ScanEntry ==
    /\ AuditStep("scan")
    /\ \E s \in Seqs :
        /\ s >= audit.next
        /\ \A r \in Seqs : r >= audit.next => s <= r
        /\ IF LinkHolds(s)
           THEN audit' = [audit EXCEPT !.next = s + 1,
                                       !.prev = EntryHash(log[s])]
           ELSE Check(FALSE, "chain", "published")

(* The segment ends: at the end of the log, or at `limit' entries. *)
ScanEnds ==
    /\ AuditStep("scan")
    /\ Check(TRUE, "chain", "published")

(* published = await self.events.latest_checkpoint() *)
ReadPublished ==
    /\ AuditStep("published")
    /\ audit' = [audit EXCEPT !.published = Published, !.step = "root"]

(* merkle_root(await leaf_hashes(up_to=tree_size)) == root_hash *)
RootMatches(cp) == Root[LeavesBelow(cp.size)] = cp.root

CheckRoot ==
    /\ AuditStep("root")
    /\ Check(audit.published = NoCheckpoint \/ RootMatches(audit.published),
             "root", "pinned")

(* Mutant of Consistent: the log is long enough, and that is all. *)
LongEnough(cp) == Len(LeavesBelow(cp.size)) >= cp.size

(* checkpoint.verify_consistency: the log has not shrunk, and its prefix   *)
(* still has the root.                                                     *)
Consistent(cp) == Len(LeavesBelow(cp.size)) >= cp.size /\ RootMatches(cp)

CheckPinned ==
    /\ AuditStep("pinned")
    /\ Check(audit.trusted = NoCheckpoint \/ Consistent(audit.trusted),
             "pinned", "done")

TaskStep(t) ==
    Write(t) \/ Publish(t) \/ ReadHead(t) \/ AppendEntry(t)
        \/ AppendConflict(t) \/ AnswerLost(t) \/ CallFails(t)

Next ==
    \/ \E t \in Tasks : TaskStep(t)
    \/ \E n \in Seqs : Failover(n)
    \/ \E trusted \in {NoCheckpoint} \cup pinned, from \in Starts :
          StartAudit(trusted, from)
    \/ ScanEntry \/ ScanEnds \/ ReadPublished \/ CheckRoot \/ CheckPinned

Spec == Init /\ [][Next]_vars

-----------------------------------------------------------------------------
IsCheckpoint(cp) ==
    \/ cp = NoCheckpoint
    \/ cp.size \in Nat /\ cp = [size |-> cp.size, root |-> cp.root]

IsEntry(e) ==
    /\ e.seq \in Nat
    /\ e.prev_hash \in Hash
    /\ e.event.id \in Nat
    /\ IsCheckpoint(e.event.cp)

TypeOK ==
    /\ Seqs \subseteq Nat /\ IsFiniteSet(Seqs)
    /\ \A s \in Seqs : IsEntry(log[s]) /\ log[s].seq = s
    /\ calls \in 0 .. MaxCalls
    /\ failovers \in 0 .. MaxFailovers
    /\ \A cp \in pinned : IsCheckpoint(cp)
    /\ lost \subseteq pinned
    /\ pc \in [Tasks -> {"idle", "head", "append"}]
    /\ DOMAIN draft = Tasks
    /\ \A t \in Tasks : IsEntry(draft[t])
    /\ DOMAIN audit = {"step", "trusted", "from", "next", "prev",
                       "published", "failed", "epoch", "doomed"}
    /\ audit.step \in {"none", "scan", "published", "root", "pinned", "done"}
    /\ audit.trusted = NoCheckpoint \/ audit.trusted \in pinned
    /\ IsCheckpoint(audit.published)
    /\ audit.from \in Nat /\ audit.next \in Nat /\ audit.from <= audit.next
    /\ audit.prev \in Hash
    /\ audit.failed \subseteq {"chain", "root", "pinned"}
    /\ audit.epoch \in 0 .. failovers

(* A checkpoint commits to the log as it was at one moment: whoever wrote  *)
(* or published while it was built, signed and appended, its root is the   *)
(* root of the first tree_size entries of the log, for good; and in the    *)
(* log it stands behind every entry it covers.                             *)
HeadsAgree ==
    failovers = 0 =>
        /\ \A cp \in pinned : Consistent(cp)
        /\ \A s \in Seqs : LET cp == log[s].event.cp
                           IN  cp # NoCheckpoint => cp.size <= s /\ Consistent(cp)

(* verify() raises no alarm over a log that has lost nothing, whatever is  *)
(* appended or published between its reads.                                *)
NoFalseAlarms ==
    failovers = 0 => audit.failed = {}

(* A failover that took entries under a checkpoint somebody holds is       *)
(* reported by every audit against that checkpoint ever after, however     *)
(* much has been appended since.                                           *)
LossIsReported ==
    audit.step = "done" /\ audit.doomed => "pinned" \in audit.failed

(* An audit path against a checkpoint proves one entry at one index and    *)
(* nothing else.  No state matters to this, so that it is evaluated before *)
(* the first call only.                                                    *)
InclusionProofsAreExact == calls = 0 => InclusionExact(MaxLeaves)

Linked(s) ==
    /\ s \in Seqs
    /\ log[s].prev_hash = IF s = 0 THEN ZeroHash
                          ELSE IF s - 1 \in Seqs THEN EntryHash(log[s - 1])
                          ELSE <<0>>

(* A report without a failure stays true until the next failover: the      *)
(* entries it covers are there, each linked to the one before it within    *)
(* the segment.                                                            *)
ReportsStand ==
    audit.step = "done" /\ audit.failed = {} /\ audit.epoch = failovers =>
        /\ \A s \in audit.from .. audit.next - 1 :
              s \in Seqs /\ (s > audit.from => Linked(s))
        /\ audit.trusted # NoCheckpoint => Consistent(audit.trusted)

(* Not so: a report without a failure, on the segment behind a trusted     *)
(* checkpoint, means the segment continues the log that checkpoint covers. *)
CleanMeansExtension ==
    /\ audit.step = "done" /\ audit.failed = {} /\ audit.epoch = failovers
    /\ audit.trusted # NoCheckpoint /\ audit.from = audit.trusted.size
    => \A s \in audit.from .. audit.next - 1 : Linked(s)
=============================================================================
