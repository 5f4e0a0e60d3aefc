--------------------------- MODULE ApprovalService ---------------------------
(***************************************************************************)
(* ApprovalService: the calls of its clients on one approval request, run  *)
(* as concurrent tasks (of one event loop or of many processes) over the   *)
(* three shared stores.                                                    *)
(*                                                                         *)
(*   - Every await on a store is one step, and the code up to the next     *)
(*     await belongs to it.  A task between two steps is waiting there.    *)
(*   - _append is one step: AppendLoop refines Ledger, whose calls append  *)
(*     at most once, atomically.  Its ConcurrencyExhausted is one of the   *)
(*     errors a store call may raise here.                                 *)
(*   - events_for_request is read in one go; reads that only fetch the     *)
(*     request again and the read that uses it are one step, because the   *)
(*     first request.created entry never changes.                          *)
(*   - One request_id: calls on different requests share only the seq      *)
(*     numbers.  Its bodies differ in created_at alone (identity_dict      *)
(*     leaves nothing else out), so a body is its created_at.              *)
(***************************************************************************)
EXTENDS Policy, Sequences

CONSTANTS
    Tasks,         \* concurrent calls
    PolicyInForce, \* the pinned policy; policies are not replaced
    Identities,    \* the roster
    Requester,     \* requested_by
    WindowCloses,  \* not_valid_after
    Skew,          \* max_clock_skew
    Ballots,       \* [approver, verdict, key] given to submit_decision
    Envelopes,     \* signed decisions given to submit_signed_decision
    Idempotency,   \* whether an IdempotencyStore is configured
    Raising,       \* store calls that may raise, by the pc of the caller
    Crashes,       \* whether tasks may be cancelled or die
    MaxTime,       \* bound of the model: the clock stops here
    MaxCalls       \* bound of the model: calls made in all

ASSUME BoundsAssumption ==
    /\ WindowCloses \in Int
    /\ Skew \in Nat
    /\ MaxTime \in Nat
    /\ MaxCalls \in Nat

(* Nothing checks that a threshold is positive. *)
ASSUME ThresholdAssumption == PolicyInForce.threshold \in Int

(* Signed decisions are whole, and their decided_at parses. *)
ASSUME EnvelopesAssumption ==
    \A e \in Envelopes :
        /\ e = [approver |-> e.approver, verdict |-> e.verdict, key |-> e.key,
                decided_at |-> e.decided_at, context |-> e.context,
                authorized |-> e.authorized]
        /\ e.decided_at.instant \in Int
        /\ e.authorized \in BOOLEAN

VARIABLES
    ledger,   \* the EventStore, as _append shows it: a sequence of entries
    idem,     \* the IdempotencyStore: a function from reserved keys to rows
    view,     \* the ProjectionStore's row for the request
    now,      \* the clock
    calls,    \* calls made so far
    pc,       \* per task: the store call it is waiting for
    body,     \* per task: `request', by its created_at
    env,      \* per task: `envelope', the decision it carries
    status,   \* per task: the status of the Record it computed last
    lastSeq   \* per task: `last_seq'

stores == <<ledger, idem, view>>
locals == <<body, env, status, lastSeq>>
vars == <<ledger, idem, view, now, calls, pc, body, env, status, lastSeq>>

NoEnvelope == [approver |-> "nobody"]
NoStatus == "none"   \* of a view: there is no row

(* decision.idempotency_key or its default; <<>> is the empty key of those *)
(* who set none, and whoever likes may spell out the default.              *)
KeyOf(e) == IF e.key = <<>> THEN <<e.approver, e.verdict>> ELSE e.key

(* canonical_hash(decision.to_dict()): all of the payload, decided_at and  *)
(* context included; the signatures are not part of it.                    *)
Fingerprint(e) == [approver |-> e.approver, verdict |-> e.verdict, key |-> e.key,
                   decided_at |-> e.decided_at, context |-> e.context]

-----------------------------------------------------------------------------
(* Reading the ledger. *)

Positions(type) == {i \in DOMAIN ledger : ledger[i].type = type}

RequestExists == Positions("request.created") # {}

(* _load_request: the first request.created entry wins. *)
FirstBody ==
    LET first == CHOOSE i \in Positions("request.created") :
                    \A j \in Positions("request.created") : i <= j
    IN  ledger[first].body

RequestOf(b) == [requested_by |-> Requester,
                 created_at |-> b,
                 not_valid_after |-> WindowCloses]

(* _decisions_for, over the first n entries of the ledger. *)
DecisionsIn(n) ==
    [i \in {k \in Positions("decision.recorded") :
                k <= n /\ ledger[k].env.authorized} |-> ledger[i].env]

(* evaluate over the first n entries, for a caller holding body b. *)
StatusAfter(n, b, at) ==
    Evaluate(RequestOf(b), DecisionsIn(n), PolicyInForce, Identities, at).status

(* _recompute: the status of the Record it returns. *)
Recomputed(b) == StatusAfter(Len(ledger), b, now)

-----------------------------------------------------------------------------
Ended == {"idle", "ok", "error", "crashed"}

AppendPoints == {"create_append", "decision_append", "status_append"}

(* The store calls inside the try block of submit_signed_decision. *)
TryPoints == {"decision_append", "recompute", "status_append", "upsert"}

StorePoints ==
    AppendPoints \cup {"create_load", "project_read", "decide_load",
                       "submit_load", "reserve", "recompute", "upsert",
                       "complete", "release", "read"}

ASSUME RaisingAssumption == Raising \subseteq StorePoints

Bodies == 0 .. MaxTime

SubmittedByService ==
    [approver : {b.approver : b \in Ballots},
     verdict : {b.verdict : b \in Ballots},
     key : {KeyOf(b) : b \in Ballots},
     decided_at : {Utc(t) : t \in 0 .. MaxTime},
     context : Bodies,
     authorized : {TRUE}]

AllEnvelopes == Envelopes \cup SubmittedByService

Keys == {KeyOf(e) : e \in AllEnvelopes}

Entry ==
    [type : {"request.created"}, body : Bodies]
    \cup [type : {"decision.recorded"}, env : AllEnvelopes]
    \cup [type : {"status.changed"}, status : Statuses \ {"pending"}]

Row == [fingerprint : {Fingerprint(e) : e \in AllEnvelopes}, completed : BOOLEAN]

View == [status : Statuses \cup {NoStatus}, lastSeq : Nat]

TypeOK ==
    /\ ledger \in Seq(Entry)
    /\ DOMAIN idem \subseteq Keys
    /\ \A k \in DOMAIN idem : idem[k] \in Row
    /\ view \in View
    /\ now \in 0 .. MaxTime
    /\ calls \in 0 .. MaxCalls
    /\ pc \in [Tasks -> Ended \cup StorePoints]
    /\ body \in [Tasks -> Bodies]
    /\ env \in [Tasks -> AllEnvelopes \cup {NoEnvelope}]
    /\ status \in [Tasks -> Statuses \cup {NoStatus}]
    /\ lastSeq \in [Tasks -> Nat]

Init ==
    /\ ledger = <<>>
    /\ idem = [k \in {} |-> FALSE]
    /\ view = [status |-> NoStatus, lastSeq |-> 0]
    /\ now = 0
    /\ calls = 0
    /\ pc = [t \in Tasks |-> "idle"]
    /\ body = [t \in Tasks |-> 0]
    /\ env = [t \in Tasks |-> NoEnvelope]
    /\ status = [t \in Tasks |-> NoStatus]
    /\ lastSeq = [t \in Tasks |-> 0]

-----------------------------------------------------------------------------
(* Calls.  A client calls again, with the same arguments or others,        *)
(* whenever it likes; each call is a task of its own.                      *)

Begin(t, point, b, e) ==
    /\ pc[t] \in Ended
    /\ calls < MaxCalls
    /\ calls' = calls + 1
    /\ pc' = [pc EXCEPT ![t] = point]
    /\ body' = [body EXCEPT ![t] = b]
    /\ env' = [env EXCEPT ![t] = e]
    /\ status' = [status EXCEPT ![t] = NoStatus]
    /\ lastSeq' = [lastSeq EXCEPT ![t] = 0]
    /\ UNCHANGED <<stores, now>>

(* create_request: the body is built, with created_at, before the lookup. *)
CallCreate(t) == Begin(t, "create_load", now, NoEnvelope)

(* submit_decision writes the key into the payload, its default as well. *)
CallSubmitDecision(t, ballot) ==
    Begin(t, "decide_load", 0,
          [approver |-> ballot.approver, verdict |-> ballot.verdict,
           key |-> KeyOf(ballot),
           decided_at |-> Utc(0), context |-> 0, authorized |-> TRUE])

CallSubmitSigned(t, e) == Begin(t, "submit_load", 0, e)

CallGetStatus(t) == Begin(t, "read", 0, NoEnvelope)

(* From one store call to the next, or to the end of the call. *)
Go(t, to) ==
    /\ pc' = [pc EXCEPT ![t] = to]
    /\ UNCHANGED <<now, calls>>

-----------------------------------------------------------------------------
(* create_request *)

CreateLoad(t) ==
    /\ pc[t] = "create_load"
    /\ IF RequestExists
       THEN /\ Go(t, "ok")
            /\ body' = [body EXCEPT ![t] = FirstBody]
       ELSE /\ Go(t, "create_append")
            /\ UNCHANGED body
    /\ UNCHANGED <<stores, env, status, lastSeq>>

(* What a task at one of AppendPoints asks _append to write. *)
EntryFrom(t) ==
    CASE pc[t] = "create_append"   -> [type |-> "request.created", body |-> body[t]]
      [] pc[t] = "decision_append" -> [type |-> "decision.recorded", env |-> env[t]]
      [] pc[t] = "status_append"   -> [type |-> "status.changed", status |-> status[t]]

WritesEntry(t) ==
    /\ ledger' = Append(ledger, EntryFrom(t))
    /\ UNCHANGED <<idem, view>>

(* entry = await self._append(...); last_seq = entry.seq, counted from 0. *)
AppendStep(t, to) ==
    /\ Go(t, to)
    /\ WritesEntry(t)
    /\ lastSeq' = [lastSeq EXCEPT ![t] = Len(ledger)]
    /\ UNCHANGED <<body, env, status>>

CreateAppend(t) ==
    /\ pc[t] = "create_append"
    /\ AppendStep(t, "project_read")

(* _project without a record: recompute, for the body this task made and   *)
(* as of its created_at.                                                   *)
ProjectRead(t) ==
    /\ pc[t] = "project_read"
    /\ Go(t, "upsert")
    /\ status' = [status EXCEPT ![t] = StatusAfter(Len(ledger), body[t], body[t])]
    /\ UNCHANGED <<stores, body, env, lastSeq>>

(* ProjectionStore.upsert never moves a row backwards. *)
WritesView(t) ==
    /\ view' = IF view.status # NoStatus /\ view.lastSeq > lastSeq[t]
               THEN view
               ELSE [status |-> status[t], lastSeq |-> lastSeq[t]]
    /\ UNCHANGED <<ledger, idem>>

(* It ends a create_request; a decision has its reservation to complete.   *)
Upsert(t) ==
    /\ pc[t] = "upsert"
    /\ Go(t, IF Idempotency /\ env[t] # NoEnvelope THEN "complete" ELSE "ok")
    /\ WritesView(t)
    /\ UNCHANGED locals

-----------------------------------------------------------------------------
(* submit_decision up to its call of submit_signed_decision: load the      *)
(* request, stamp the decision, sign it.                                   *)
DecideLoad(t) ==
    /\ pc[t] = "decide_load"
    /\ IF RequestExists
       THEN /\ Go(t, "submit_load")
            /\ env' = [env EXCEPT ![t].decided_at = Utc(now),
                                  ![t].context = FirstBody]
       ELSE /\ Go(t, "error")
            /\ UNCHANGED env
    /\ UNCHANGED <<stores, body, status, lastSeq>>

(* Mutant of Admissible: the decision is not compared with the request. *)
AdmissibleUnbound(e) ==
    /\ RequestExists
    /\ e.decided_at.instant <= now + Skew
    /\ e.decided_at.instant <= WindowCloses + Skew
    /\ e.authorized

(* The checks of submit_signed_decision. *)
Admissible(e) ==
    /\ RequestExists
    /\ e.context = FirstBody
    /\ e.decided_at.instant <= now + Skew
    /\ e.decided_at.instant <= WindowCloses + Skew
    /\ e.authorized

SubmitLoad(t) ==
    /\ pc[t] = "submit_load"
    /\ IF Admissible(env[t])
       THEN /\ Go(t, IF Idempotency THEN "reserve" ELSE "decision_append")
            /\ body' = [body EXCEPT ![t] = FirstBody]
       ELSE /\ Go(t, "error")
            /\ UNCHANGED body
    /\ UNCHANGED <<stores, env, status, lastSeq>>

(* IdempotencyStore.reserve of a key that is free, complete and release.   *)
InsertsRow(t) ==
    /\ idem' = [k \in DOMAIN idem \cup {KeyOf(env[t])} |->
                   IF k = KeyOf(env[t])
                   THEN [fingerprint |-> Fingerprint(env[t]), completed |-> FALSE]
                   ELSE idem[k]]
    /\ UNCHANGED <<ledger, view>>

CompletesRow(t) ==
    /\ idem' = [idem EXCEPT ![KeyOf(env[t])].completed = TRUE]
    /\ UNCHANGED <<ledger, view>>

DeletesRow(t) ==
    /\ idem' = [k \in DOMAIN idem \ {KeyOf(env[t])} |-> idem[k]]
    /\ UNCHANGED <<ledger, view>>

(* Mutant of ReserveWon: a reservation that is not completed is taken over. *)
ReserveStolen(t) ==
    /\ pc[t] = "reserve"
    /\ KeyOf(env[t]) \in DOMAIN idem => ~idem[KeyOf(env[t])].completed
    /\ Go(t, "decision_append")
    /\ InsertsRow(t)
    /\ UNCHANGED locals

(* Mutant of ReserveLost: the fingerprint is not looked at. *)
ReserveUnchecked(t) ==
    /\ pc[t] = "reserve"
    /\ KeyOf(env[t]) \in DOMAIN idem
    /\ Go(t, "read")
    /\ UNCHANGED <<stores, locals>>

(* The key is free: this call is the one that does the work. *)
ReserveWon(t) ==
    /\ pc[t] = "reserve"
    /\ KeyOf(env[t]) \notin DOMAIN idem
    /\ Go(t, "decision_append")
    /\ InsertsRow(t)
    /\ UNCHANGED locals

(* The key is taken: get_status if it stands for the same decision, be its *)
(* winner done or in flight; IdempotencyConflict if for another.           *)
ReserveLost(t) ==
    /\ pc[t] = "reserve"
    /\ KeyOf(env[t]) \in DOMAIN idem
    /\ Go(t, IF idem[KeyOf(env[t])].fingerprint = Fingerprint(env[t])
             THEN "read" ELSE "error")
    /\ UNCHANGED <<stores, locals>>

DecisionAppend(t) ==
    /\ pc[t] = "decision_append"
    /\ AppendStep(t, "recompute")

(* Mutants of Recompute: every status is announced, the verdict is taken   *)
(* for the status, the evidence is what was there before the append, or    *)
(* the call waits for an outcome.                                          *)
RecomputeTalkative(t) ==
    /\ pc[t] = "recompute"
    /\ Go(t, "status_append")
    /\ status' = [status EXCEPT ![t] = Recomputed(body[t])]
    /\ UNCHANGED <<stores, body, env, lastSeq>>

RecomputeCredulous(t) ==
    /\ pc[t] = "recompute"
    /\ Go(t, "status_append")
    /\ status' = [status EXCEPT ![t] = IF env[t].verdict = "approve"
                                       THEN "approved" ELSE "rejected"]
    /\ UNCHANGED <<stores, body, env, lastSeq>>

RecomputeEarly(t) ==
    LET s == StatusAfter(lastSeq[t], body[t], now)
    IN  /\ pc[t] = "recompute"
        /\ Go(t, IF s = "pending" THEN "upsert" ELSE "status_append")
        /\ status' = [status EXCEPT ![t] = s]
        /\ UNCHANGED <<stores, body, env, lastSeq>>

RecomputeWaiting(t) ==
    /\ pc[t] = "recompute"
    /\ Recomputed(body[t]) # "pending"
    /\ Go(t, "status_append")
    /\ status' = [status EXCEPT ![t] = Recomputed(body[t])]
    /\ UNCHANGED <<stores, body, env, lastSeq>>

(* _record_decision announces every status but "pending". *)
Recompute(t) ==
    /\ pc[t] = "recompute"
    /\ Go(t, IF Recomputed(body[t]) = "pending" THEN "upsert"
                                                ELSE "status_append")
    /\ status' = [status EXCEPT ![t] = Recomputed(body[t])]
    /\ UNCHANGED <<stores, body, env, lastSeq>>

StatusAppend(t) ==
    /\ pc[t] = "status_append"
    /\ AppendStep(t, "upsert")

Complete(t) ==
    /\ pc[t] = "complete"
    /\ Go(t, "ok")
    /\ CompletesRow(t)
    /\ UNCHANGED locals

-----------------------------------------------------------------------------
(* get_status *)
ReadStatus(t) ==
    /\ pc[t] = "read"
    /\ IF RequestExists
       THEN /\ Go(t, "ok")
            /\ status' = [status EXCEPT ![t] = Recomputed(FirstBody)]
       ELSE /\ Go(t, "error")
            /\ UNCHANGED status
    /\ UNCHANGED <<stores, body, env, lastSeq>>

-----------------------------------------------------------------------------
(* Failures. *)

(* Mutant of Handler: no except clause. *)
HandlerNone(t) == "error"

(* Where an exception out of a store call leads: through `except' inside   *)
(* the try block of submit_signed_decision, to the caller elsewhere.       *)
Handler(t) ==
    IF Idempotency /\ env[t] # NoEnvelope /\ pc[t] \in TryPoints
    THEN "release" ELSE "error"

(* The store call raises: it was refused, or its answer was lost and what  *)
(* it wrote stays, like Ledger's RecordUnheard.                            *)
StoreRaises(t) ==
    /\ pc[t] \in Raising
    /\ Go(t, Handler(t))
    /\ \/ UNCHANGED stores
       \/ pc[t] \in AppendPoints /\ WritesEntry(t)
       \/ pc[t] = "upsert" /\ WritesView(t)
       \/ pc[t] = "reserve" /\ KeyOf(env[t]) \notin DOMAIN idem /\ InsertsRow(t)
       \/ pc[t] = "complete" /\ CompletesRow(t)
       \/ pc[t] = "release" /\ DeletesRow(t)
    /\ UNCHANGED locals

(* await self.idempotency.release(key); raise *)
Release(t) ==
    /\ pc[t] = "release"
    /\ Go(t, "error")
    /\ DeletesRow(t)
    /\ UNCHANGED locals

(* The process dies, or the task is cancelled: CancelledError is no        *)
(* Exception, so nothing is released.                                      *)
Crash(t) ==
    /\ Crashes
    /\ pc[t] \in StorePoints
    /\ Go(t, "crashed")
    /\ UNCHANGED <<stores, locals>>

Tick ==
    /\ now < MaxTime
    /\ now' = now + 1
    /\ UNCHANGED <<stores, calls, pc, locals>>

-----------------------------------------------------------------------------
Call(t) ==
    \/ CallCreate(t)
    \/ \E ballot \in Ballots : CallSubmitDecision(t, ballot)
    \/ \E e \in Envelopes : CallSubmitSigned(t, e)
    \/ CallGetStatus(t)

Step(t) ==
    \/ CreateLoad(t) \/ CreateAppend(t) \/ ProjectRead(t) \/ Upsert(t)
    \/ DecideLoad(t) \/ SubmitLoad(t) \/ ReserveWon(t) \/ ReserveLost(t)
    \/ DecisionAppend(t) \/ Recompute(t) \/ StatusAppend(t) \/ Complete(t)
    \/ ReadStatus(t) \/ Release(t)

Next ==
    \/ Tick
    \/ \E t \in Tasks : Call(t) \/ Step(t) \/ StoreRaises(t) \/ Crash(t)

Spec == Init /\ [][Next]_vars

(* A task goes on once its store has answered, and stores answer. *)
FairSpec == Spec /\ \A t \in Tasks : WF_vars(Step(t))

-----------------------------------------------------------------------------
(* Properties. *)

AtRest == \A t \in Tasks : pc[t] \in Ended

DecisionCall(t) == env[t] # NoEnvelope

(* The call has reserved its key and neither completed nor released it. *)
Holds(t) ==
    /\ DecisionCall(t)
    /\ pc[t] \in TryPoints \cup {"complete", "release"}

(* reserve lets one call at a time do the work for a key, from its append  *)
(* to its complete or release, and while it does the row is its own: with  *)
(* exceptions, lost answers and crashes in between, nobody is let in next  *)
(* to a winner at work and nobody's release takes away another's row.      *)
OneHolderPerKey ==
    Idempotency =>
        \A t \in Tasks :
            Holds(t) =>
                /\ KeyOf(env[t]) \in DOMAIN idem
                /\ idem[KeyOf(env[t])] =
                      [fingerprint |-> Fingerprint(env[t]), completed |-> FALSE]
                /\ \A u \in Tasks :
                      Holds(u) /\ KeyOf(env[u]) = KeyOf(env[t]) => u = t

(* "Retried calls ... collapse to one ledger append" (getting-started.md): *)
(* however often a call is repeated, concurrently or later, no two         *)
(* decision entries carry one idempotency key.                             *)
OneDecisionPerKey ==
    \A i, j \in Positions("decision.recorded") :
        KeyOf(ledger[i].env) = KeyOf(ledger[j].env) => i = j

(* What submit_signed_decision persists has been checked against the       *)
(* request that counts, whatever duplicates of it are created meanwhile:   *)
(* every recorded decision follows the request's entry, carries an         *)
(* authorized signature over that very body, and was signed neither in the *)
(* future nor past the window, as far as clocks can tell.                  *)
DecisionsBind ==
    \A i \in Positions("decision.recorded") :
        LET e == ledger[i].env
        IN  /\ \E j \in Positions("request.created") : j < i
            /\ e.context = FirstBody
            /\ e.authorized
            /\ e.decided_at.instant <= now + Skew
            /\ e.decided_at.instant <= WindowCloses + Skew

(* No status.changed entry is made up: each states what evaluate returned  *)
(* on the evidence of some earlier moment of this log, however many        *)
(* entries other calls have appended since.                                *)
StatusesJustified ==
    \A i \in Positions("status.changed") :
        \E n \in 1 .. i - 1, at \in 0 .. now :
            StatusAfter(n, FirstBody, at) = ledger[i].status

(* Eligible people other than the requester whose signed approval of the   *)
(* very request is in the log, signed before the window closed.            *)
Endorsers ==
    {e.approver : e \in {d \in {ledger[i].env : i \in Positions("decision.recorded")} :
        /\ d.verdict = "approve"
        /\ d.authorized
        /\ d.context = FirstBody
        /\ d.decided_at.instant <= Deadline(RequestOf(FirstBody), PolicyInForce)
        /\ Eligible(d.approver, PolicyInForce, Identities)
        /\ PolicyInForce.separation_of_duties => d.approver # Requester}}

(* "Gate on this": no call returns "approved" unless the log holds the     *)
(* approvals of as many distinct people as the policy asks for, and a      *)
(* status.changed entry says "approved" only then.                         *)
GateSound ==
    (\/ \E t \in Tasks : pc[t] = "ok" /\ status[t] = "approved" /\ RequestExists
     \/ \E i \in Positions("status.changed") : ledger[i].status = "approved")
        => Cardinality(Endorsers) >= PolicyInForce.threshold

(* The decision that settles a request is never overlooked: among calls    *)
(* racing to record theirs, at least the last to append sees them all, so  *)
(* once all is quiet a request that is approved or rejected has been       *)
(* announced as such.                                                      *)
OutcomesAnnounced ==
    AtRest /\ RequestExists =>
        LET s == Recomputed(FirstBody)
        IN  s \in {"approved", "rejected"} =>
                \E i \in Positions("status.changed") : ledger[i].status = s

(* A decision that was acknowledged is in the log once all is quiet: the   *)
(* caller that lost the race for a key relies on the winner (service.py,   *)
(* "its append is the one that counts").                                   *)
AcksAreRecorded ==
    AtRest => \A t \in Tasks :
        pc[t] = "ok" /\ DecisionCall(t) =>
            \E i \in Positions("decision.recorded") : ledger[i].env = env[t]

(* `release' follows every failure ("in a finally-style path", ADR-0007):  *)
(* no reservation outlives the call that made it without having been       *)
(* completed, so a retry is never answered on behalf of nobody.            *)
NoWedgedKey ==
    AtRest => \A k \in DOMAIN idem : idem[k].completed

(* Not so: create_request, called again with the same arguments, "returns  *)
(* the same request without a second ledger entry" (its docstring).        *)
OneRequestEntry == Cardinality(Positions("request.created")) <= 1

(* Not so: a retry of a decision that is already recorded is answered, not *)
(* refused ("Every mutation is idempotent", service.py); submit_decision,  *)
(* called again with the same arguments, does not fail.                    *)
RetriesAreAnswered ==
    \A t \in Tasks :
        pc[t] = "error" /\ DecisionCall(t) =>
            ~\E i \in Positions("decision.recorded") :
                /\ ledger[i].env.approver = env[t].approver
                /\ ledger[i].env.verdict = env[t].verdict

(* Step 5 of verify: the last status recorded is the one recomputed,       *)
(* except that a window may have closed.                                   *)
StatusReproducible ==
    RequestExists /\ Positions("status.changed") # {} =>
        LET last == CHOOSE i \in Positions("status.changed") :
                        \A j \in Positions("status.changed") : j <= i
        IN  Recomputed(FirstBody) \in {ledger[last].status, "expired"}

(* The service's own log passes verify whenever no call is under way.      *)
HonestLogVerifies == AtRest => StatusReproducible

(* Every call ends. *)
CallsEnd == \A t \in Tasks : pc[t] \in StorePoints ~> pc[t] \in Ended
=============================================================================
