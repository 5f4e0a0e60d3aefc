------------------------------ MODULE ReadModel ------------------------------
(***************************************************************************)
(* The read model (projection.py, ProjectionStore, and MongoProjectionStore*)
(* of the example): views of several requests, written by create_request,  *)
(* by submitted decisions and by rebuild_projections, one store call at a  *)
(* time, while somebody pages through a list of them.                      *)
(*                                                                         *)
(* A request is its id, a number, since ids are ordered; its body differs  *)
(* from another call's by created_at only.  All of it happens in the       *)
(* approval window, at one instant.  Left out: admission and the           *)
(* idempotency key (ApprovalService), the append loop (AppendLoop).        *)
(***************************************************************************)
EXTENDS Policy, Sequences

CONSTANTS
    Tasks,         \* the tasks of all processes
    Requests,      \* request ids
    Stamps,        \* what created_at may be
    PolicyOfAll,   \* the policy that every request pinned
    Replacement,   \* the policy that may take its place in the PolicyStore
    Identities,    \* the roster
    Requester,     \* who asks
    Ballots,       \* what is submitted: [approver, verdict]
    Wanted,        \* RequestQuery.status of the list
    Limit,         \* RequestQuery.limit
    MayFail,       \* whether store calls may raise
    MayReplace,    \* whether it does so
    MaxCalls       \* bound of the model: this many calls that write, and
                   \* the replacement of the policy counts as one

VARIABLES
    ledger,    \* the entries, in order; seqs count from 1
    views,     \* per request: its row in the ProjectionStore, at most one
    replaced,  \* whether the policy under the id is now the Replacement
    calls,     \* number of calls so far
    job,       \* per task: the call it is in
    listing,   \* the list somebody pages through
    spoilt     \* history: the requests a call failed on, and no rebuild
               \* since has been through

vars == <<ledger, views, replaced, calls, job, listing, spoilt>>

NoRecord == [status |-> "pending", satisfied_by |-> {}, decided |-> {}]

(* `seen' is whether the policy had been replaced when a store last        *)
(* answered the call, `todo' are the requests a rebuild has still to do,   *)
(* `mends' those it may say it mended.                                     *)
NoJob == [step |-> "idle", kind |-> "none", req |-> 0, created_at |-> 0,
          ballot |-> {}, record |-> NoRecord, last_seq |-> 0, seen |-> FALSE,
          todo |-> {}, mends |-> {}]

(* policy_store.get *)
PolicyUnder(changed) == IF changed THEN Replacement ELSE PolicyOfAll

-----------------------------------------------------------------------------
(* Reading the ledger. *)

Positions(r) == {i \in DOMAIN ledger : ledger[i].req = r}

Creations(r) == {i \in Positions(r) : ledger[i].type = "request.created"}

(* _load_request: the first request.created entry wins. *)
FirstBody(r) ==
    ledger[CHOOSE i \in Creations(r) : \A j \in Creations(r) : i <= j].created_at

(* _decisions_for; what the log does not accept is not recorded. *)
DecisionsFor(r) ==
    [i \in {k \in Positions(r) : ledger[k].type = "decision.recorded"} |->
        [approver |-> ledger[i].ballot.approver, verdict |-> ledger[i].ballot.verdict,
         decided_at |-> Utc(0), context |-> FirstBody(r)]]

(* _recompute, for a caller whose body of the request is of createdAt: the *)
(* Record it returns.                                                      *)
RecordOf(r, createdAt) ==
    LET decisions == DecisionsFor(r)
        result == Evaluate([requested_by |-> Requester, created_at |-> createdAt,
                            not_valid_after |-> PolicyOfAll.max_age],
                           decisions, PolicyOfAll, Identities, 0)
    IN  [status |-> result.status, satisfied_by |-> result.satisfied_by,
         decided |-> {decisions[i].approver : i \in DOMAIN decisions}]

(* eligible_approvers *)
EligibleApprovers(policy) ==
    {id \in DOMAIN Identities :
        /\ ~(policy.separation_of_duties /\ id = Requester)
        /\ Eligible(id, policy, Identities)}

(* build_view *)
BuildView(record, policy, createdAt, lastSeq) ==
    [status |-> record.status,
     created_at |-> createdAt,
     approvals |-> IF record.status # "rejected" THEN Cardinality(record.satisfied_by)
                                                 ELSE 0,
     threshold |-> policy.threshold,
     approvers |-> record.satisfied_by,
     pending_for |-> IF record.status = "pending"
                     THEN EligibleApprovers(policy) \ record.decided ELSE {},
     last_seq |-> lastSeq]

(* The greatest of some seqs, 0 if there are none. *)
LastSeq(S) == IF S = {} THEN 0 ELSE CHOOSE s \in S : \A x \in S : x <= s

-----------------------------------------------------------------------------
(* Paging, by (created_at, _id).                                           *)

Key(r, v) == [created_at |-> v.created_at, id |-> r]

Before(k, l) ==
    \/ k.created_at < l.created_at
    \/ k.created_at = l.created_at /\ k.id < l.id

(* The filter: requests whose view has a wanted status. *)
Matching(rows) == {r \in Requests : \E v \in rows[r] : v.status \in Wanted}

KeyNow(r) == Key(r, CHOOSE v \in views[r] : TRUE)

(* Those behind the cursor; `cursor' is a set, empty on the first page. *)
Behind(cursor) == {r \in Matching(views) : \A k \in cursor : Before(k, KeyNow(r))}

FirstOf(S, n) == {r \in S : Cardinality({q \in S : Before(KeyNow(q), KeyNow(r))}) < n}

LastKey(S) ==
    {KeyNow(r) : r \in {q \in S : \A p \in S \ {q} : Before(KeyNow(p), KeyNow(q))}}

(* Mutant of NextCursor: the row fetched to see whether there is more. *)
NextCursorAhead(cursor) == LastKey(FirstOf(Behind(cursor), Limit + 1))

(* next_cursor: the last row of the page. *)
NextCursor(cursor) == LastKey(FirstOf(Behind(cursor), Limit))

(* `steady': the requests it owes, matching since its first page and in    *)
(* their place; `got': how often each was on a page; `wrong', when it is   *)
(* through: those of them it had not once.                                 *)
NoListing == [open |-> FALSE, cursor |-> {}, got |-> [r \in Requests |-> 0],
              steady |-> {}, wrong |-> {}]

(* The listing goes on while rows change: from then on it owes nothing to  *)
(* those that are not, or no longer, in their place.                       *)
Unsettled(rows) ==
    [listing EXCEPT !.steady =
        {r \in @ : r \in Matching(rows) /\ \A v \in rows[r] : Key(r, v) = KeyNow(r)}]

Init ==
    /\ ledger = <<>>
    /\ views = [r \in Requests |-> {}]
    /\ replaced = FALSE
    /\ calls = 0
    /\ job = [t \in Tasks |-> NoJob]
    /\ listing = NoListing
    /\ spoilt = {}

-----------------------------------------------------------------------------
Put(t, j) == job' = [job EXCEPT ![t] = j]
At(t, step) == job[t].step = step
GoTo(t, step) == Put(t, [job[t] EXCEPT !.step = step])

Enter(t, j) ==
    /\ At(t, "idle")
    /\ calls < MaxCalls
    /\ calls' = calls + 1
    /\ Put(t, j)
    /\ UNCHANGED <<ledger, views, replaced, listing, spoilt>>

(* create_request, which pins the policy in force: with another one it     *)
(* makes another request.                                                  *)
CallCreate(t) ==
    /\ ~replaced
    /\ \E r \in Requests, at \in Stamps :
          Enter(t, [NoJob EXCEPT !.step = "load", !.kind = "create", !.req = r,
                                 !.created_at = at])

CallDecide(t) ==
    \E r \in Requests, b \in Ballots :
        Enter(t, [NoJob EXCEPT !.step = "load", !.kind = "decide", !.req = r,
                               !.ballot = {b}])

CallRebuild(t) == Enter(t, [NoJob EXCEPT !.step = "clear", !.kind = "rebuild"])

(* _load_request: create_request returns what is there, a decision needs it*)
Load(t) ==
    LET j == job[t]
        exists == Creations(j.req) # {}
    IN  /\ At(t, "load")
        /\ Put(t, IF j.kind = "create"
                  THEN IF exists THEN NoJob ELSE [j EXCEPT !.step = "append"]
                  ELSE IF exists
                       THEN [j EXCEPT !.step = "append", !.created_at = FirstBody(j.req)]
                       ELSE NoJob)
        /\ UNCHANGED <<ledger, views, replaced, calls, listing, spoilt>>

Appended(entry) == ledger' = Append(ledger, entry)

(* Mutant of AppendEntry: seqs are taken to count from 0. *)
AppendEntryFromZero(t) ==
    /\ At(t, "append")
    /\ \/ /\ job[t].kind = "create"
          /\ Appended([type |-> "request.created", req |-> job[t].req,
                       created_at |-> job[t].created_at])
       \/ \E b \in job[t].ballot :
             Appended([type |-> "decision.recorded", req |-> job[t].req, ballot |-> b])
    /\ Put(t, [job[t] EXCEPT !.step = "recompute", !.last_seq = Len(ledger),
                             !.seen = replaced])
    /\ UNCHANGED <<views, replaced, calls, listing, spoilt>>

(* request.created or decision.recorded *)
AppendEntry(t) ==
    /\ At(t, "append")
    /\ \/ /\ job[t].kind = "create"
          /\ Appended([type |-> "request.created", req |-> job[t].req,
                       created_at |-> job[t].created_at])
       \/ \E b \in job[t].ballot :
             Appended([type |-> "decision.recorded", req |-> job[t].req, ballot |-> b])
    /\ Put(t, [job[t] EXCEPT !.step = "recompute", !.last_seq = Len(ledger) + 1,
                             !.seen = replaced])
    /\ UNCHANGED <<views, replaced, calls, listing, spoilt>>

(* _recompute has compared the policy's digest with the pin before it reads*)
(* the decisions, at the earliest when its last answer came.  _project goes*)
(* straight to the upsert, _record_decision first announces every status   *)
(* but "pending".                                                          *)
Recompute(t) ==
    LET j == job[t]
        record == RecordOf(j.req, j.created_at)
    IN  /\ At(t, "recompute")
        /\ ~j.seen
        /\ Put(t, [j EXCEPT !.record = record, !.seen = replaced,
                            !.step = IF j.kind = "decide" /\ record.status # "pending"
                                     THEN "announce" ELSE "upsert"])
        /\ UNCHANGED <<ledger, views, replaced, calls, listing, spoilt>>

Announce(t) ==
    /\ At(t, "announce")
    /\ Appended([type |-> "status.changed", req |-> job[t].req,
                 status |-> job[t].record.status])
    /\ Put(t, [job[t] EXCEPT !.step = "upsert", !.last_seq = Len(ledger) + 1,
                             !.seen = replaced])
    /\ UNCHANGED <<views, replaced, calls, listing, spoilt>>

(* Mutant of Upserted: whoever comes last wins. *)
UpsertedAlways(r, v) == [views EXCEPT ![r] = {v}]

(* ProjectionStore.upsert: only over a row that is not ahead. *)
Upserted(r, v) ==
    [views EXCEPT ![r] = IF \E row \in @ : row.last_seq > v.last_seq THEN @ ELSE {v}]

(* The end of _project.  It has asked for the policy once more, and not    *)
(* looked at its digest, after the last answer and before this upsert.  A  *)
(* rebuild goes on with the next request.                                  *)
Upsert(t) ==
    LET j == job[t]
    IN  /\ At(t, "upsert")
        /\ \E changed \in {j.seen, replaced} :
              views' = Upserted(j.req, BuildView(j.record, PolicyUnder(changed),
                                                 j.created_at, j.last_seq))
        /\ listing' = Unsettled(views')
        /\ Put(t, IF j.kind = "rebuild"
                  THEN [NoJob EXCEPT !.step = "next", !.kind = "rebuild",
                                     !.todo = j.todo \ {j.req}, !.mends = j.mends]
                  ELSE NoJob)
        /\ UNCHANGED <<ledger, replaced, calls, spoilt>>

-----------------------------------------------------------------------------
(* rebuild_projections *)

(* self.projections.clear() *)
Clear(t) ==
    LET rows == [r \in Requests |-> {}]
    IN  /\ At(t, "clear")
        /\ views' = rows
        /\ listing' = Unsettled(rows)
        /\ Put(t, [job[t] EXCEPT !.step = "scan", !.mends = spoilt])
        /\ UNCHANGED <<ledger, replaced, calls, spoilt>>

(* The ids of all request.created entries; a second entry of a request has *)
(* the same done again.                                                    *)
Scan(t) ==
    /\ At(t, "scan")
    /\ Put(t, [job[t] EXCEPT !.step = "next", !.todo = {r \in Requests : Creations(r) # {}}])
    /\ UNCHANGED <<ledger, views, replaced, calls, listing, spoilt>>

(* Requests are done in the order they were created in. *)
NextOf(todo) ==
    CHOOSE r \in todo : \A q \in todo :
        \E i \in Creations(r) : \A j \in Creations(q) : i <= j

(* Mutant of ReadEvents: the record first, the last seq afterwards.        *)
ReadEventsLate(t) ==
    LET r == NextOf(job[t].todo)
    IN  /\ At(t, "next") /\ job[t].todo # {}
        /\ IF job[t].req = 0
           THEN Put(t, [job[t] EXCEPT !.req = r, !.created_at = FirstBody(r),
                                      !.record = RecordOf(r, FirstBody(r))])
           ELSE Put(t, [job[t] EXCEPT !.step = "upsert", !.seen = replaced,
                                      !.last_seq = LastSeq(Positions(r))])
        /\ UNCHANGED <<ledger, views, replaced, calls, listing, spoilt>>

(* last_seq = max(e.seq for e in events_for_request(request_id)) *)
ReadEvents(t) ==
    LET r == NextOf(job[t].todo)
    IN  /\ At(t, "next") /\ job[t].todo # {}
        /\ Put(t, [job[t] EXCEPT !.step = "recompute", !.req = r,
                                 !.created_at = FirstBody(r), !.seen = replaced,
                                 !.last_seq = LastSeq(Positions(r))])
        /\ UNCHANGED <<ledger, views, replaced, calls, listing, spoilt>>

RebuildReturns(t) ==
    /\ At(t, "next") /\ job[t].todo = {}
    /\ spoilt' = spoilt \ job[t].mends
    /\ Put(t, NoJob)
    /\ UNCHANGED <<ledger, views, replaced, calls, listing>>

-----------------------------------------------------------------------------
(* What else happens.                                                      *)

(* What may not be in the views when a call ends early: what it has        *)
(* deleted and not rewritten, or what it has appended an entry about.      *)
Spoils(j) ==
    CASE j.step = "scan" -> {r \in Requests : Creations(r) # {}}
      [] j.step = "next" -> j.todo
      [] j.step \in {"recompute", "announce", "upsert"} -> {j.req} \cup j.todo
      [] OTHER -> {}

Ends(t) ==
    /\ spoilt' = spoilt \cup Spoils(job[t])
    /\ job' = [u \in Tasks |->
                  IF u = t THEN NoJob
                  ELSE [job[u] EXCEPT !.mends = @ \ Spoils(job[t])]]
    /\ UNCHANGED <<views, replaced, calls, listing>>

(* A store call raises, having done nothing; or the process is gone.  One  *)
(* that was done and whose answer was lost is its own step, and the call   *)
(* fails at the next.                                                      *)
CallFails(t) ==
    /\ MayFail
    /\ ~At(t, "idle")
    /\ Ends(t)
    /\ UNCHANGED ledger

(* PolicyMismatch, for every request that pinned the policy replaced, as   *)
(* soon as _recompute finds the replacement.                               *)
PolicyMismatch(t) ==
    /\ replaced
    /\ At(t, "recompute")
    /\ Ends(t)
    /\ UNCHANGED ledger

(* policy_store.add, with another policy under the id. *)
ReplacePolicy ==
    /\ MayReplace /\ ~replaced
    /\ calls < MaxCalls
    /\ calls' = calls + 1
    /\ replaced' = TRUE
    /\ UNCHANGED <<ledger, views, job, listing, spoilt>>

OpenListing ==
    /\ ~listing.open
    /\ listing' = [NoListing EXCEPT !.open = TRUE, !.steady = Matching(views)]
    /\ UNCHANGED <<ledger, views, replaced, calls, job, spoilt>>

(* query: a page, and a cursor if there is more.  The list is complete     *)
(* without one.                                                            *)
Query ==
    LET behind == Behind(listing.cursor)
        page == FirstOf(behind, Limit)
        got == [r \in Requests |-> listing.got[r] + IF r \in page THEN 1 ELSE 0]
    IN  /\ listing.open
        /\ listing' =
              IF Cardinality(behind) > Limit
              THEN [listing EXCEPT !.cursor = NextCursor(@), !.got = got]
              ELSE [NoListing EXCEPT !.wrong = {r \in listing.steady : got[r] # 1}]
        /\ UNCHANGED <<ledger, views, replaced, calls, job, spoilt>>

Next ==
    \/ \E t \in Tasks :
          \/ CallCreate(t) \/ CallDecide(t) \/ CallRebuild(t)
          \/ Load(t) \/ AppendEntry(t) \/ Recompute(t) \/ Announce(t) \/ Upsert(t)
          \/ Clear(t) \/ Scan(t) \/ ReadEvents(t) \/ RebuildReturns(t)
          \/ CallFails(t) \/ PolicyMismatch(t)
    \/ ReplacePolicy \/ OpenListing \/ Query

Spec == Init /\ [][Next]_vars

-----------------------------------------------------------------------------
People == DOMAIN Identities \cup {b.approver : b \in Ballots}

ASSUME BoundsAssumption == MaxCalls \in Nat /\ IsFiniteSet(People)

(* Rows have an order; and with no room on the page for any of them query  *)
(* raises (docs[-1]).                                                      *)
ASSUME PagingAssumption ==
    Requests \subseteq Int /\ Stamps \subseteq Int /\ Limit \in Nat \ {0}

Entry ==
    [type : {"request.created"}, req : Requests, created_at : Stamps]
    \cup [type : {"decision.recorded"}, req : Requests, ballot : Ballots]
    \cup [type : {"status.changed"}, req : Requests, status : Statuses \ {"pending"}]

(* The views that build_view makes under a policy, and those there may be. *)
ViewsUnder(policy) ==
    [status : Statuses, created_at : Stamps, approvals : 0 .. Cardinality(People),
     threshold : {policy.threshold}, approvers : SUBSET People,
     pending_for : SUBSET EligibleApprovers(policy), last_seq : Nat]

View == ViewsUnder(PolicyOfAll) \cup ViewsUnder(Replacement)

(* The stores and the calls are well formed: one row per request, whose    *)
(* seq is one of that request's, and whose threshold and eligible people   *)
(* are of one policy, the pinned one as long as that is not replaced.      *)
TypeOK ==
    /\ ledger \in Seq(Entry)
    /\ \A r \in Requests : \A v, w \in views[r] : v = w
    /\ \A r \in Requests : \A v \in views[r] :
          /\ \/ v \in ViewsUnder(PolicyOfAll)
             \/ replaced /\ v \in ViewsUnder(Replacement)
          /\ v.last_seq \in Positions(r)
    /\ calls \in 0 .. MaxCalls
    /\ \A t \in Tasks :
          /\ job[t].step \in {"recompute", "announce", "upsert"} =>
                /\ job[t].req \in Requests /\ job[t].created_at \in Stamps
                /\ job[t].last_seq \in Positions(job[t].req)
          /\ job[t].todo \subseteq {r \in Requests : Creations(r) # {}}
    /\ spoilt \subseteq Requests

(* A view asks nobody who decided already: who decided at or before its    *)
(* last_seq is not in its pending_for, be it written by a create, by a     *)
(* decision that others overtook or by a rebuild, which reads the seq and  *)
(* the record one after the other (build_view, rebuild_projections).       *)
NobodyAskedTwice ==
    \A r \in Requests : \A v \in views[r] :
        \A i \in DOMAIN DecisionsFor(r) :
            i <= v.last_seq => DecisionsFor(r)[i].approver \notin v.pending_for

Quiet == \A t \in Tasks : At(t, "idle")

(* When no call is under way, every request has a view, written for its    *)
(* last entry - however creates, decisions and rebuilds were interleaved,  *)
(* and although a rebuild first deletes everything.  The exception are     *)
(* requests some call failed on after its append, or in a rebuild that had *)
(* yet to rewrite them; and a rebuild that gets through makes up for them  *)
(* (rebuild_projections, "Safe to run any time").                          *)
QuietViewsAreComplete ==
    Quiet =>
        \A r \in Requests \ spoilt :
            Creations(r) # {} =>
                \E v \in views[r] : v.last_seq = LastSeq(Positions(r))

(* Who pages to the end has seen each request once that matched all along  *)
(* without changing its place, whatever was written, deleted and rebuilt   *)
(* between two pages (ProjectionStore.query, keyset pagination).           *)
PagesExact == listing.wrong = {}

(* "In-flight requests keep evaluating against the rules they were opened  *)
(* under" (policies.md), so their views ask for that many approvals, and   *)
(* of those "eligible approvers who have not decided" (RequestView).  Not  *)
(* so: _project asks for the policy a second time and gets whatever is     *)
(* there by then.                                                          *)
ViewsFollowThePin ==
    \A r \in Requests : \A v \in views[r] :
        /\ v.threshold = PolicyOfAll.threshold
        /\ v.pending_for \subseteq EligibleApprovers(PolicyOfAll)

(* What the views say is what the ledger says, once nothing is under way.  *)
QuietViewsAgree ==
    Quiet =>
        \A r \in Requests \ spoilt : \A v \in views[r] :
            v.status = RecordOf(r, FirstBody(r)).status
=============================================================================
