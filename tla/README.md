# A formal model of approvo

approvo is a library for auditable approvals: requests, signed decisions, a
hash-chained ledger they are recorded in, and a policy engine that derives
every status from the ledger. This directory holds TLA+ specifications of its
logic, TLC configurations that check them on small instances, and proofs for
all instances checked by TLAPS. Paths below are relative to `src/` unless they
begin with `docs/`, `tests/` or `examples/`; `PROJECT.json` maps every
definition to the lines it stands for.

## The system

| Component | Code | State | Operations |
|---|---|---|---|
| Append loop and hash chain | `service.py` `_append`, `chain.py` | none of its own: the EventStore's entries | read head, seal, insert, retry on `LedgerConflict`, give up with `ConcurrencyExhausted` |
| EventStore | contract in `stores/base.py`; implementations in `tests/memory_stores.py`, `examples/.../mongo_stores.py` | entries by seq | `head`, `append`, `events_for_request`, `scan`, `leaf_hashes`, `latest_checkpoint` |
| Policy engine | `policy/engine.py`, `policy/model.py` | none (pure); `InMemoryPolicyStore` maps ids to policies | `evaluate`; `get`, `add` |
| Requests and decisions | `service.py`, `models.py` | none per call beyond locals; everything is in the ledger | `create_request`, `submit_decision`, `prepare_decision`, `submit_signed_decision`, `get_status` |
| Idempotency protocol | `stores/base.py`, used in `submit_signed_decision` | rows: key to fingerprint and response | `reserve`, `complete`, `release` |
| Projections | `projection.py`, `_project`, `rebuild_projections` | one view per request, with `last_seq` | `upsert`, `get`, `query`, `clear`, rebuild |
| Checkpoints and verification | `checkpoint.py`, `merkle.py`, `service.py` `checkpoint`, `verify` | checkpoints are ledger entries | build, sign, verify, consistency with a pinned checkpoint |
| Keys and envelopes | `crypto/keys.py`, `crypto/verifier.py`, `crypto/envelope.py` | `KeyDirectory`: keyid to key, validity, revocation, scope | `add`, `revoke`, `decision_authorized` |
| Signing service | `crypto/signing.py`, `resolver.py`, `keyprovider.py`, `signer.py` | two caches with TTLs | `signer_for`, `public_key`, `sign_decision`, `sign_checkpoint`, `trust`, `invalidate` |
| KMS providers | `providers/` | none: the services hold the keys and their versions | `get_signer`, `get_public_key`, `RemoteSigner.sign` |
| Example stores | `examples/vehicle-release-approvals/app/mongo_stores.py` | three MongoDB collections | the three store contracts |
| Conformance suite, HTTP example | `testing.py`, `examples/.../main.py` | | |

How they interact. A host application makes one `ApprovalService` per process
and calls it from concurrent tasks; any number of processes share one database
through the three stores. Every call is a coroutine, so tasks of one process
interleave at each `await` and tasks of two processes interleave everywhere;
since what lies between two awaits touches no shared state but the stores, the
two cases have the same interleavings. Nothing is transactional across store
calls. The only mutual exclusion is that an insert fails if its seq is taken
and that one caller wins a reservation.

What is hard: optimistic appends under contention; a status that is computed
from one prefix of the ledger and announced on a later one; views that are
written out of order; retries, lost answers, cancellation and crashes between
any two store calls of a decision; duplicates of a request; decisions that
arrive out of order of their timestamps, late, or after a change of mind; a
read model that is rebuilt, and paged through, while it is written; keys that
rotate under two caches and a directory that has to go on vouching for the old
ones.

What makes each component correct:

- append loop: one gapless chain; an acknowledged entry is there for good; a
  failed call has appended at most once; giving up means contention;
- policy engine: one voice per approver, the last in the order the code gives
  them; time can only expire a request; repeating a verdict changes nothing; ledger order has no weight;
- requests and decisions: only checked decisions are recorded, statuses are
  derivable from the evidence, an approval is never reported without its
  quorum, the outcome is announced, retries are answered;
- idempotency: one holder per key, no key left behind, no false replay;
- projections: every request has a view that catches up with the ledger, also
  through a rebuild; it asks nobody who has decided; a list is paged exactly;
- checkpoints: heads published in order are prefixes of one another, an
  untouched log verifies and a rewritten one does not;
- keys and signing: a signature counts only within its key's validity, use and
  scope; what counted goes on counting when keys rotate; caches are emptied when
  they are told to be, and catch up by themselves.

## Modules

| Module | What it is |
|---|---|
| `Ledger` | abstract: one log, appended atomically, at most once per call |
| `AppendLoop` | `_append` over an EventStore, one step per store call; refines `Ledger` |
| `AppendLoopProofs` | TLAPS proofs about `AppendLoop` |
| `Policy` | `evaluate` as operators; no state |
| `Evaluation` | a request's evidence as it grows, to check `Policy` over histories |
| `EvaluationProofs` | TLAPS proofs about `Policy` and `Evaluation` |
| `ApprovalService` | concurrent calls on one request over the three stores and a clock |
| `ApprovalServiceProofs` | TLAPS proofs about `ApprovalService` |
| `OutcomeProofs` | TLAPS proofs of its `GateSound` and of what holds when its calls have ended |
| `Merkle` | the tree over entry hashes, inclusion proofs and their verification; no state |
| `Checkpointing` | `checkpoint()` and steps 1 to 3 of `verify`, among writers, over a store that may fail over |
| `CheckpointingProofs` | TLAPS proofs about `Checkpointing` |
| `IdempotencyContract` | abstract: what an IdempotencyStore promises about one key |
| `Reservations` | the MongoDB store's rows for one key, one database call at a time, with expiry and crashes; refines `IdempotencyContract` |
| `ReservationsProofs` | TLAPS proofs about `Reservations`, the refinement included |
| `Trust` | key validity and scope, the directory, `decision_authorized`; no state |
| `Signing` | the signing service and its caches over the providers, the directory, rotation, revocation, restarts; uses `Trust` |
| `SigningProofs` | TLAPS proofs about `Signing` and `Trust` |
| `ReadModel` | the views of several requests, their writers, rebuilds and a paged list; uses `Policy` |
| `ReadModelProofs` | TLAPS proofs about `ReadModel` |
| `MCAppendLoop`, `MCEvaluation`, `MCApprovalService`, `MCCheckpointing`, `MCSigning`, `MCReadModel` | model values for TLC |

Definitions whose comment says *mutant* are deliberately wrong variants of a
neighbour. Nothing uses them; each exists to show, by being put in its place,
that some property notices.

### AppendLoop

`store` is a function from taken seqs to entries because the contract promises
no more: an insert is refused when its seq is taken, but a store neither
compares `prev_hash` nor insists on the *next* seq (the in-memory store does, the
MongoDB one does not). That the log is a chain at all is then a property of the
loop. `EntryHash` is collision-free by construction: the digits of the history
in a base larger than any event. `ReadHead`, `AppendEntry` and `AppendConflict`
are the awaits of the loop; `AnswerLost` and `CallFails` are the ways a call
ends without a verdict. The sleep between attempts is any delay.

### Policy and Evaluation

A time is an instant and the string that denotes it, because `evaluate`
compares parsed times everywhere but in `sorted(counted, key=decided_at)`,
which compares strings. An instant counts half-seconds. `Written` gives its
string in a notation, an offset from UTC and whether milliseconds are left out at
whole seconds, as its place in the order of strings: the wall clock's second
first, then what follows it, where `+` sorts before `.` and `.` before `Z`. For
strings written by `to_rfc3339` (`Utc`: UTC, always with milliseconds) that is the
order of instants. For others that `parse_rfc3339` takes it is not: a numeric
offset moves the wall clock, and `...:00Z` sorts after `...:00.500Z`.
`Voices` says declaratively which decisions end up in the dict `latest`;
`VoicesAreTheLoops` compares it with `Latest` of `Evaluation`, which is the loop
itself: a recursive function of what has gone by, in the order of the sort. `max_age` is added to
`created_at` and the earlier deadline counts. `reasons` is wording and left out.

`Evaluation` lets decisions arrive under exactly the checks of
`submit_signed_decision`, which compare with `not_valid_after` and not with
`max_age_seconds`. Its signers write in any of `Notations`.

### ApprovalService

A task's `pc` is the store call it is waiting for. A step is one store call with
the code up to the next: `DecideLoad` is `_require_request` in
`submit_decision` together with stamping and signing, `SubmitLoad` is the same
in `submit_signed_decision` with all its checks, and so on in the order of the
code. `self.clock.now()` is read in the step of the store call before or after
it; `created_at` is taken when the call starts, before the lookup, as in the
code. `_append` is one step, which `AppendLoop` refining `Ledger` justifies: the
entry appears atomically, or not at all, or appears and the caller gets an error
(`StoreRaises`). Calls to `_load_request` that only fetch the request again
(inside `_require_request` after a first load, in `get_status` before
`_recompute`) are merged with the read that uses it: the first
`request.created` entry of a log never changes once it is there.

One request is modelled. Requests share only seq numbers, which `AppendLoop`
covers, and idempotency keys when a client chooses the same key for two
requests (two keys for one request are covered). Two bodies of one request
differ in `created_at` only, since all else enters the id. An envelope carries
its idempotency key or none; `submit_decision` writes the default key into what it
signs and `submit_signed_decision` does not, so a fingerprint tells the two apart
where `KeyOf` does not. `create_request` projects at the `created_at` of its own
body, not at the time of the projection. Whether the signatures of an envelope
make it authorized is fixed when it is recorded; the code asks the directory again
on every read, which `Signing` has (`RotationIsSafe`).

`StoreRaises` is an exception out of any store call in `Raising`, with the write
done or not done; `Handler` says where it leads: to `release` inside the `try` of
`submit_signed_decision`, to the caller elsewhere. `Crash` is cancellation or
death; `CancelledError` is not an `Exception`, so nothing is released.

### Merkle and Checkpointing

Digests are free terms: two of them are equal exactly if what was hashed is
equal. `Root`, `InclusionProof` and `VerifyInclusion` recurse as `merkle.py` does,
splitting at the largest power of two below the size. They are recursive functions
of one argument, a list of hashes or a size, which the provers can reason about;
what varies with an index or the length of a proof is in the functions they
return. An entry hash is the list of calls whose events the chain up to the entry
holds, so a root stands for a list of histories.

A task that writes or publishes takes the three steps of `_append`; what a
checkpoint covers is read in a step before these, and its signature is not
modelled. The store is that of `AppendLoop` and may fail over (`Failover`): its
last entries are gone, while the tasks go on with what they have read. An entry
sealed before and inserted after it is then accepted wherever its seq is free.

The auditor is one task that runs `verify` again and again, a store call at a
time: the anchor, each entry of the scan, the published checkpoint, the leaves
below it, the leaves below the pinned checkpoint. Appends and failovers go on in
between. A scan may end early at any entry, which stands for every `limit`. The
auditor starts at 0 or behind a checkpoint it holds, as `docs/verification.md`
advises; with `Resuming` also behind its last report. `lost` and `epoch` are
history variables: which checkpoints a failover contradicts, and at which
failover the last audit started.

Left out: `prev_root_hash`, which nothing reads; the number of attempts, which
`AppendLoop` has; step 4 of `verify`, and step 5, which on the service's own log
is `ApprovalService!HonestLogVerifies`.

### IdempotencyContract and Reservations

`IdempotencyContract` is `stores/base.py` read as a specification: `reserve`,
with the fingerprint its caller means, is one step that wins a free key or looks
a taken one up, a row disappears by `release`, or lapses when nobody works on its
strength. `Reservations` is
`MongoIdempotencyStore` under the calls of `submit_signed_decision`: `reserve`
is `insert_one` and, on a duplicate key, `find_one`, with anything in between;
`complete` and `release` name the key and act on whatever row is there.
`pc = "broken"` is a find that finds nothing: the code subscripts `None` and
the call fails with a `TypeError`, which the contract's `Fail` allows. A call
lasts at most `Budget` ticks and a row at least `TTL`; `Budget < TTL` is
requirement 3 of the contract, as an assumption. With `Budget = TTL` both
`OneWorkerPerKey` and `ReplayedIsRecorded` fail: a late `complete` marks the row
of another decision as done. (The example creates no TTL index, and the field its
comment names for one, `created_at`, is not in the rows it writes; with it rows
would never expire, and `AbandonedKeysExpire`, which assumes that the database
does expire rows, would not hold.)

### Trust and Signing

`Trust` is `keys.py` and `verifier.py`: a keyid is the hash of a public key, so
a signature is the pair of the keyid written next to it and the key that made
it, and verifies if the two agree. `Signing` has a key reference per purpose, a
provider per scheme, and the versions each reference goes through; the providers
differ in what they reach: a version in the resource name (GCP), or whatever is
the latest (Vault, AWS aliases, local keys), and in whether the signer holds the
key or has the service sign. A cached value carries its age. A call's step is what
it awaits: the provider's answer and the store into the cache are two steps
(`ProviderGivesSigner`, `KeepSigner`), so an invalidation can fall between them.
`Restart` drops calls and caches and publishes the keys again, over the directory
it saved (`Durable`) or over the approvers' keys alone. With `Durable = FALSE`
`RotationIsSafe` fails: a decision, a rotation, a restart. `floor` and
`revocations` are history variables. What `submit_signed_decision` checks besides
the signature is in `ApprovalService`, where the outcome of this rule is a field
of an envelope.

### ReadModel

`ApprovalService` has one request and its status; `ReadModel` has several
requests with all columns of a view that can change, and everything that writes
them: `create_request`, decisions with their announcements, and
`rebuild_projections`, which deletes all views, lists the requests, and for each
reads the last seq and then the record. Admission, the idempotency key and time
are left out, as `ApprovalService` has them; each `_append` is one step.
`CallFails` ends a call at any store call; `spoilt`, a history variable, has the
requests a call leaves behind that ended early with an entry appended or views
deleted (`Spoils`), until a rebuild that started afterwards gets through.

`ReplacePolicy` puts `Replacement` under the id that every request pinned. The code
reads the policy twice, between store calls: `_recompute` compares its digest with
the pin, and `_project`, which builds the view with its threshold and its eligible
approvers, does not. `seen` is what the policy was when a store last answered the
call; each of the two reads comes after that answer and before the call's next
step, and may have met either policy if it was replaced in between. So
`Recompute` needs a call that has not seen the replacement, `PolicyMismatch` ends
those that have and may end those that have not, and an `Upsert` may write the view
of either policy if the replacement came since.

The list is paged by `(created_at, _id)` as the MongoDB
store does it, with the extra row that tells whether there is more; `steady`
are the requests that a listing owes its reader, since they matched all along
and kept their place.

## Runs

| Run | Checks | Bounds and why they are enough |
|---|---|---|
| `append` | types, `ChainIntact`, `ReturnedIsRecorded`, `ExhaustionMeansContention`, `ImplementsLedger`, `CallsEnd` | 3 writers, 2 events, 2 attempts, calls start on a log of fewer than 2 entries (so up to 4 entries): a writer can lose to each of the others and be exhausted, and two events make displaced entries visible |
| `evaluation` | what may change an outcome | 3 people (one the requester, one with two roles), 3 policies that between them use every field, 3 decisions in any order of time, window closing before the clock stops; decisions are written in UTC without a fraction at whole seconds, or with an offset, so that their strings do not sort as their instants |
| `service_faults` | types, `OneHolderPerKey`, `DecisionsBind`, `StatusesJustified`, `GateSound` | 2 tasks, 4 calls, all failures and crashes, envelopes of the requester, for another body, from the future and unauthorised, the last two under one key |
| `service_calm` | `OutcomesAnnounced`, `AcksAreRecorded`, `OneDecisionPerKey` | 3 tasks, 4 calls: create and three racing decisions of two people with both verdicts, quorum 2 |
| `service_errors` | `NoWedgedKey`, `CallsEnd` | 2 tasks, 3 calls, exceptions in every step of the work of a decision, no symmetry since it checks liveness |
| `checkpoints` | types, `HeadsAgree`, `NoFalseAlarms`, `LossIsReported`, `ReportsStand`, `InclusionProofsAreExact` | 2 tasks, 4 calls, 1 failover: a checkpoint, an entry behind it, and a stale draft that fills a gap or a place behind it; trees up to 7 leaves (`MaxLeaves`) have every shape of two levels of splits |
| `keys` | types, `RotationIsSafe`, `InvalidateTakes`, `CallsCatchUp` | a task that signs and one that publishes, so that fetches for one key overlap; a key that rotates once and one that cannot; ttls of one tick, so that entries expire and are fetched again; 1 revocation, as of either time, 1 recorded decision |
| `reservations` | `OneWorkerPerKey`, `ReplayedIsRecorded`, `ImplementsContract`, `AbandonedKeysExpire` | 3 callers (one that wins, one that loses, one that takes over), 2 decisions under one key, rows that outlive a call by a tick; unlimited calls |
| `read_model` | types, `NobodyAskedTwice`, `QuietViewsAreComplete`, `PagesExact` | 2 tasks, 4 calls, 2 requests, 2 stamps so that requests tie or not, quorum 2, pages of 1: a rebuild races a create or a decision of either request, and a list has a second page; failures anywhere, and one replacement of the policy, by one with another threshold and other eligible people, that counts as a call |
| `reopened`, `mislabelled`, `stale_view` | one documented claim each, which the code does not keep | the smallest instance that shows it |

`CHECK_DEADLOCK FALSE` is said where clients need not call again and the bounds on
calls, time and entries end every behaviour; `keys` and `reservations` check for
deadlock. Safety runs use symmetry over tasks, which no property distinguishes,
where they have two alike.

Fairness. `FairSpec` gives each task weak fairness of its own steps: an event
loop resumes a task whose await has been answered, and stores answer. Nothing is
assumed about new calls, failures, crashes or the clock. A step is always enabled
while a call is under way, so weak fairness is enough; `CallsEnd` then rests on
the bounded number of attempts, not on winning. `Signing` adds that time passes
(`Tick`), and assumes of providers that they answer or fail; nobody need
rotate, revoke, invalidate, restart or make a call. `CallsCatchUp` holds because
versions are bounded: from some point on nobody rotates. `Reservations` adds that
time passes and that the database expires rows that are due.

## What is proved

For all values of the constants:

- `AppendLoopProofs`: types, `ChainIntact`, `ReturnedIsRecorded`,
  `ExhaustionMeansContention` and the refinement of `Ledger`. None of the
  invariants is inductive alone. `IndInv` adds `DraftsFit` (an entry sealed but not yet
  inserted fits the log behind its seq, even if the seq is taken by now, because
  entries never change) and `RefusalsPaidFor` (the height has grown by one for each
  refusal of a running call, and the draft's seq is at least that high). An
  insert at a free seq then lands exactly at the end.
- `EvaluationProofs`: every property of the run `evaluation`. The argument is one lemma,
  `RecordEffect`: since an approver has one voice (`OneVoiceEach`), a new
  decision either changes nothing or moves its approver to its own verdict,
  adding it to one of the two sets `evaluate` looks at and taking it from the
  other. `TimeOnlyExpires`, `ResubmissionIdempotent` and
  `OutcomeChangesHaveACause` follow by cases, the last with
  `EnoughIsMonotone`. `OrderOnlyBreaksTies` says that a bijection of positions
  carries voices to voices when no two decisions tie, which are two whose strings
  are equal. None of them asks in what notation `decided_at` is written.
  `VoicesAreTheLoops`: a finite set of decisions has a last one
  (`SomeComesLast`), which takes the voice of its approver and nobody else's
  (`LastIsHeard`), so the dict of everybody's voice solves the recursion
  (`RoundHears`), and nothing else does (`LoopHears`, by a smallest counterexample).
- `ApprovalServiceProofs`: types, `OneHolderPerKey`, `DecisionsBind` and
  `StatusesJustified`, for any number of tasks, with or without an idempotency
  store, and for any choice of failing calls and crashes. `IInv` adds to the three
  that the request has a first entry (`FirstIsThere`; appends never change which,
  `FirstBodyStays`) and what locals are worth where a call waits (`LocalsFit`): a
  call past its checks carries an envelope for which the checks still hold,
  although the ledger and the clock have moved on, and only calls that carry
  a decision reach `complete` and `release`. `OneHolderPerKey` has three kinds
  of steps: holders only leave (`HoldersOnlyLeave`), one gives up its row
  (`HolderGivesUp`), one takes a free key (`HolderEnters`). `StatusesJustified`
  needs `Computing`: what a call is about to announce can be derived from a part
  of the log, and `evaluate` on that part never changes (`DerivedStays`).
- `OutcomeProofs`, under `ApprovalServiceProofs`' invariant:
  - `GateSound`, whatever fails. Enough approvals, once there, stay
    (`EnoughStaysEnough`): the log only grows, and its first request stays the
    request. `Gated` says that whatever status a call holds at any point, as well
    as every announcement, was computed from the log's own approvals: `evaluate`
    returns "approved" only over enough voices, and each of these is an
    endorsement, also for a call that holds a body of the request other than the
    first.
  - four properties that are false if the wrong step fails; each theorem excludes
    the failures that break it and allows all others, so it says more than the run
    that checks it:
    `OneDecisionPerKey` if there is an idempotency store and no step inside the
    `try` raises (a release after the append lets the retry append again), with
    crashes; `KeysSpent` says that the key of a recorded decision stays taken and
    that who is about to append has a key nobody has used;
    `NoWedgedKey` without crashes and if `reserve`, `complete` and `release`
    themselves do not raise (nothing is left then to free the key);
    `RowsAttended` says that every pending row has a call that will complete or
    release it, whatever else raises;
    `AcksAreRecorded` without crashes and if `reserve` and the append of the
    decision do not raise (the loser of a key is answered before the winner has
    appended); `Acked` says that every row stands for a decision that is
    in the log or whose caller is about to append it, and since fingerprints tell
    decisions apart, it is the decision of whoever is answered because of the row;
    `OutcomesAnnounced` without crashes and if the append of a decision, the
    evaluation after it and the append of a status do not raise; `Attentive` says
    that an outcome which follows from the log is announced, about to be, or some
    call has yet to evaluate. A call that evaluates before the last decision may
    announce what no longer holds, but the one that appended the last decision
    evaluates after it, and time neither makes nor undoes an outcome
    (`OutcomesOutlastTime`).
- `CheckpointingProofs`: types, `HeadsAgree`, `NoFalseAlarms` (for audits from 0
  or from a held checkpoint, `Resuming = FALSE`, an assumption of the theorem; it
  is false otherwise), `ReportsStand`, `LossIsReported` and
  `InclusionProofsAreExact`. `IInv` has a part for
  each. `Calm`, while nothing was lost: the log is one chain, drafts fit behind
  their seq, and every checkpoint, in the log, in a caller's hands or still in a
  draft, is borne out by the log. `CalmAudit`: the audit under way knows the hash
  the next entry must carry, even if that entry does not exist yet. `StillRead`,
  which failovers before the audit do not disturb: what has been read is still
  there. The lemmas rest on counting: if a checkpoint holds, all seqs below its
  size are taken (`HoldsMeansFull`), so that the i-th leaf is that of seq i - 1
  (`NthOfFull`), and an insert at a free seq changes none of them.
  - Trees. `RootDetermines`: two lists with one root are one list, whatever their
    lengths. `InclusionIsExact`: against the root and the size of a tree of distinct
    hashes, of any size, the proof of a leaf verifies for that leaf at its
    index and for no other hash or index. `PathsAreExact`, behind it, is about
    every subtree and says besides that a proof of another length computes
    nothing. Both argue by a smallest counterexample (`NatHasLeast`) instead of
    induction, whose theorem the provers cannot instantiate. That the three
    recursive functions satisfy their defining equations is proved as well
    (`RecursionHolds`, from well-founded recursion on the length of the list), and
    that `Split` lies strictly between 0 and the length (`SplitIsBetween`).
  - Losses. An auditor who is pinned to a checkpoint has its root alone to go by.
    `Losses` follows the call of the last entry under each checkpoint (`Tip`): it is
    in the log at its place or behind it, or it is `Dead`, in neither the log nor a
    draft, and since no call is made twice, dead for ever. A checkpoint that a
    failover contradicts has a dead one (`Orphaned`), and by `RootDetermines` no
    later list of leaves has its root (`OrphansDoNotFit`), whatever has gone in
    at the seqs that were lost. So the consistency check of `verify` fails, on any
    log, after any number of failovers.
- `ReservationsProofs`: `OneWorkerPerKey`, `ReplayedIsRecorded` and the refinement
  of `IdempotencyContract`. `IInv` adds what keeps a row for its winner:
  `HoldersOwnTheRow`, that who has won is the one whose row is there, with the
  winner's fingerprint, not completed and not younger than the call; as a call
  is younger than `Budget` when time passes and `Budget < TTL`, its row
  is too young to expire. `CompletedIsRecorded` and `DoneIsRecorded` follow a
  decision from the ledger into the row and from the row to a replay. Each step
  maps to a step of the contract or to a stutter: a failing insert stutters, and
  the find is then the reserve.
- `SigningProofs`: types, `InvalidateTakes` and `RotationIsSafe`, for any
  references, providers, trust specs and ttls. `FloorIsBelow` and `HeldIsAbove`
  say that what a provider gives a call, or a call holds and has yet to store, is
  not older than the floor: an invalidation leaves the floor of a key alone as
  long as an answer for it is under way. `Vouched` is the induction behind
  `RotationIsSafe`: a recorded decision has a signature whose key is in the
  directory as it was entered, and valid at the date of the decision unless the
  revocation that a key carries is recorded in `revocations`; publishing and
  restarting only add keys and enter old ones as they were. It assumes
  `Durable`, and is false without.
- `ReadModelProofs`: types, `NobodyAskedTwice`, `QuietViewsAreComplete` and
  `PagesExact`, for any number of tasks and requests, with failures and a policy that
  is replaced by any other. What the types say of a view is that it is one the pinned
  policy may give or, after the replacement, one the replacement may give;
  `Noticed` keeps the two apart (a call that has seen the replacement has seen what
  is so, and only such a call, or one that upserts after it, writes with it). That
  views are always of the pinned policy is false (see below).
  `Typed` says what a call knows at each of its steps: the seq it writes a view
  for is one of its request's. `Asking` follows a record into a view: whoever had
  decided by that seq is known as a decider, and the log behind a seq
  does not change (`DecidersStay`). `Covering` is the induction behind the second:
  a request either has its view or some call is about to write it, for the last
  entry or for one it is yet to append, or a rebuild has yet to come to it. What
  covers a request hands over to its own next step (`CoverIsPassedOn`); a call
  that covers one and fails, spoils it (`CoverWhenEnded`). `Paged` is the one for
  lists: of the requests it owes, a listing has had once those its cursor has
  passed and none of those behind it. A page is what comes first behind the
  cursor and the next cursor is its last row, so that a page of `Limit` rows and
  a last page both keep this, for any limit and any order of stamps.

The assumptions are those the modules name: bounds are natural numbers, policies
have integers and Booleans where the code has them, the people of a roster are
finitely many, a signed decision has all its fields with a `decided_at` that
parses, only store calls raise (`RaisingAssumption`), and a list has a limit of at
least 1 (`PagingAssumption`; with 0 the last row of a page, which is its cursor,
does not exist). Theorems that need more say so: `Durable`, `~Resuming`, which
calls do not raise. `OutcomesAnnounced` moreover takes the policy to want at least
one approval: `Policy` accepts a threshold of 0 or less, under which a request
counts as approved before anybody has decided and nothing announces it.

Only model-checked: liveness (`CallsEnd`, `CallsCatchUp`, `AbandonedKeysExpire`),
which is out of the prover's reach. Every other property of a passing run is the
statement of a theorem.

## Disagreements between code and documentation

Kept as runs, each with the claim it refutes:

- `reopened` - with one client and no failure: somebody rejects, then approves.
  Below the quorum the status goes back to pending, which is never announced,
  and step 5 of `verify` reports the log as not reproducible. `docs/policies.md`
  allows changing one's mind.
- `mislabelled` - a signer of Vault (or of an AWS alias) is cached with the public
  key of its time and signs with the latest version: after a rotation the keyid
  next to the signature is not that of the key that made it, and nobody can
  verify it. For a decision the submission fails; a checkpoint is appended.
- `stale_view` - an approval is computed, a rejection is recorded, announced and
  projected, and then the approval is announced and projected with a higher
  `last_seq`: the view says approved, although nothing is under way any more.

Of the same kind, seen with the same modules under other constants, and delimited
by the properties that do hold:

- `OneRequestEntry` does not hold: lookup and append of `create_request` are two
  steps, and two identical calls both append. The later entry is ignored, but its
  caller was handed a body that no decision can bind to. (`DecisionsBind` does.)
- `RetriesAreAnswered` does not hold: `submit_decision` retried by the caller has a
  new `decided_at` and so a new fingerprint: `IdempotencyConflict`, not a replay.
- `OneDecisionPerKey` does not hold if the append of `status.changed` may fail: the
  key is released after the decision entry was appended, and the retry appends
  again. (`service_calm` checks it without failures.)
- `NoFalseAlarms` does not hold with `Resuming`: an auditor who goes on at the end
  of the log looks its first entry up before it exists, takes `ZERO_HASH` for the
  anchor, and scans the entry once it has been appended: an intact log fails the
  chain check (`service.py:480`).
- `CleanMeansExtension` does not hold: the anchor of a segment comes from the
  segment itself, so an entry put behind a pinned prefix in a failover need not
  continue it; the audit `docs/verification.md:47` recommends does not notice.
- An approval computed first and announced last, after a rejection was announced,
  also makes `HonestLogVerifies` fail; hence `OutcomesAnnounced` speaks of what was
  announced, not of what was announced last.
- A cancelled call leaves its key reserved; hence `NoWedgedKey` is checked under
  exceptions, not crashes (ADR-0007 speaks of a `finally`-style path), and it is
  the expiry of rows that frees the key (`AbandonedKeysExpire`).
- The loser of a key is answered before a winner that may fail; hence
  `AcksAreRecorded` is checked without failures.
- `LatestDecisionWins` does not hold: decisions are counted in the order of their
  `decided_at` strings (`policy/engine.py:78`). A person decides at a full second and
  again half a second later; if the first `decided_at` is written without a
  fraction, `...:00Z` sorts after `...:00.500Z` and the earlier decision counts.
  With numeric offsets the difference can be hours. `policy/engine.py:74` and
  `docs/policies.md:49` say the latest wins; it does as long as all strings are
  written by `to_rfc3339`, as `SystemClock` and the challenges do. `evaluation`
  checks what holds however they are written.
- `ViewsFollowThePin` does not hold: `_project` reads the policy a second time
  (`service.py:673`) and does not compare its digest. A policy that is replaced
  after a request was evaluated and before its view is built gives a view that wants
  the new policy's approvals, from the new policy's people; TLC needs a create and
  the replacement. Nothing writes the view again, since everything that would
  raises `PolicyMismatch`. `docs/policies.md:98-105` says that a replaced policy
  raises, and that requests in flight keep to the rules they were opened under.
- `verified_to_seq` is at least `from_seq`, so that an empty segment, or one whose
  chain check failed, is reported as verified up to an entry nobody has read
  (`VerifiedTo`).
- A failover that takes whole entries off the end leaves no gap, so that without a
  pinned checkpoint nothing tells (`stores/base.py:82-84` speaks of a gap; hence
  `LossIsReported` is about audits that are given one).
- `KeyDirectory.extend` and `add` forget a revocation: a revoked key that is
  published again counts again. `RotationIsSafe` therefore excuses revoked keys
  and does not say that their decisions stop counting.
- `trust` may publish the key of before a rotation for `pubkey_ttl`, an hour by
  default, while signers are fetched anew every five minutes: what is signed in
  between is refused. `CallsCatchUp` is about the long run.

## Not modelled

Serialisation, base64, DSSE pre-authentication encoding, signature algorithms
and hashing are taken to be what they are meant to be: injective, unforgeable.
Error classes carry no logic, `testing.py` is a test suite, and the HTTP layer of
the example passes arguments on. Of the classes that are modelled, left out are
what changes no state and decides nothing: `self_test`, `list_keys`,
`TemplateKeyResolver`, `by_use`, `verify_envelope`, the `to_dict` and `from_dict` of
records, `validate_subject`. `verify_checkpoint` and step 4 of `verify` apply the rule
of `Trust` to what is in the log, and are not part of the audit in `Checkpointing`.
MongoDB's own handling of two upserts that both insert is taken to be atomic, as
the contract asks.

## Plan

Done: the append loop with its refinement, the policy engine, the calls of the
service on one request with failures, checkpoints and their verification over a
log that may lose its end, inclusion proofs, the idempotency store with its
refinement, keys, the signing service and its caches, the read model with
rebuilds and paging, and the proofs listed above.

Left: signatures in the audit of `Checkpointing` (`verify_checkpoint`, step 4) and
an upsert of two steps.
