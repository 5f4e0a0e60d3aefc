--------------------------- MODULE ReadModelProofs ---------------------------
(***************************************************************************)
(* The read model for any number of tasks and requests, any policy and     *)
(* roster, with failures anywhere: its types, that nobody is asked twice,  *)
(* that views are complete when no call is under way, and that whoever     *)
(* pages through them misses nothing that stays in its place.              *)
(***************************************************************************)
EXTENDS ReadModel, FiniteSetTheorems, WellFoundedInduction, TLAPS

(* Any entries there are have a first and a last one. *)
Bounded ==
    \A S \in SUBSET (1 .. Len(ledger)) :
        S # {} => /\ \E i \in S : \A j \in S : i <= j
                  /\ \E i \in S : \A j \in S : j <= i

Record == [status : Statuses, satisfied_by : SUBSET People, decided : SUBSET People]

Busy == {"recompute", "announce", "upsert"}

Job == [step : {"idle", "load", "append", "clear", "scan", "next"} \cup Busy,
        kind : {"none", "create", "decide", "rebuild"},
        req : Requests \cup {0}, created_at : Stamps \cup {0},
        ballot : SUBSET Ballots, record : Record, last_seq : Nat, seen : BOOLEAN,
        todo : SUBSET Requests, mends : SUBSET Requests]

(* What a call knows where it waits. *)
Fit(j) ==
    /\ j \in Job
    /\ j.step \in {"load", "append"} => j.req \in Requests /\ j.kind \in {"create", "decide"}
    /\ j.step = "load" /\ j.kind = "create" => j.created_at \in Stamps
    /\ j.step = "append" => j.created_at \in Stamps
    /\ j.step = "announce" => j.record.status # "pending"
    /\ j.step \in {"clear", "scan", "next"} => j.kind = "rebuild"

(* ... of what the log has. *)
Grounded(j) ==
    /\ j.step \in Busy =>
          j.req \in Requests /\ j.created_at \in Stamps /\ j.last_seq \in Positions(j.req)
    /\ j.todo \subseteq {r \in Requests : Creations(r) # {}}

(* Rows are one per request, and each is for one of its entries. *)
RowsFit(rows) ==
    /\ rows \in [Requests -> SUBSET View]
    /\ \A r \in Requests : \A v, w \in rows[r] : v = w
    /\ \A r \in Requests : \A v \in rows[r] : v.last_seq \in Positions(r)

Typed ==
    /\ ledger \in Seq(Entry)
    /\ Bounded
    /\ RowsFit(views)
    /\ replaced \in BOOLEAN
    /\ calls \in 0 .. MaxCalls
    /\ job \in [Tasks -> Job]
    /\ \A t \in Tasks : Fit(job[t]) /\ Grounded(job[t])
    /\ spoilt \subseteq Requests

-----------------------------------------------------------------------------
(* Positions are positions. *)
LEMMA PositionsAreInLog ==
    ASSUME ledger \in Seq(Entry), NEW r
    PROVE  /\ Creations(r) \subseteq Positions(r)
           /\ Positions(r) \subseteq 1 .. Len(ledger)
  BY DEF Creations, Positions

(* The seq of a request's last entry. *)
LEMMA LastSeqIsLast ==
    ASSUME ledger \in Seq(Entry), Bounded, NEW r, Positions(r) # {}
    PROVE  /\ LastSeq(Positions(r)) \in Positions(r)
           /\ \A i \in Positions(r) : i <= LastSeq(Positions(r))
  <1>1. \E i \in Positions(r) : \A j \in Positions(r) : j <= i
    BY PositionsAreInLog DEF Bounded
  <1> QED
    BY <1>1 DEF LastSeq

(* The body that counts is one that was asked for. *)
LEMMA FirstBodyIsAStamp ==
    ASSUME ledger \in Seq(Entry), Bounded, NEW r, Creations(r) # {}
    PROVE  FirstBody(r) \in Stamps
  <1>1. \E i \in Creations(r) : \A j \in Creations(r) : i <= j
    BY PositionsAreInLog DEF Bounded
  <1>2. \A i \in Creations(r) : ledger[i].created_at \in Stamps
    BY DEF Creations, Positions, Entry
  <1> QED
    BY <1>1, <1>2 DEF FirstBody

(* A rebuild goes on with one of those it has still to do. *)
LEMMA NextOfIsOneOf ==
    ASSUME ledger \in Seq(Entry), Bounded, NEW todo, todo # {},
           \A r \in todo : Creations(r) # {}
    PROVE  NextOf(todo) \in todo
  <1> DEFINE S == UNION {Creations(r) : r \in todo}
  <1>1. S \subseteq 1 .. Len(ledger) /\ S # {}
    BY PositionsAreInLog
  <1>2. PICK i \in S : \A j \in S : i <= j
    BY <1>1 DEF Bounded
  <1>3. PICK r \in todo : i \in Creations(r)
    BY <1>2
  <1>4. \A q \in todo : \E k \in Creations(r) : \A j \in Creations(q) : k <= j
    BY <1>2, <1>3
  <1> QED
    BY <1>3, <1>4 DEF NextOf

(* What an append changes. *)
LEMMA AppendAdds ==
    ASSUME ledger \in Seq(Entry), Bounded, NEW e \in Entry, ledger' = Append(ledger, e)
    PROVE  /\ ledger' \in Seq(Entry)
           /\ Len(ledger) \in Nat /\ Len(ledger') = Len(ledger) + 1
           /\ Bounded'
           /\ \A i \in 1 .. Len(ledger) : ledger'[i] = ledger[i]
           /\ ledger'[Len(ledger) + 1] = e
           /\ \A r : /\ Positions(r)' = Positions(r) \cup
                           (IF e.req = r THEN {Len(ledger) + 1} ELSE {})
                     /\ Creations(r) \subseteq Creations(r)'
                     /\ e.req # r => Creations(r)' = Creations(r)
  <1> DEFINE n == Len(ledger) + 1
  <1>1. /\ ledger' \in Seq(Entry)
        /\ Len(ledger) \in Nat /\ Len(ledger') = n
        /\ \A i \in 1 .. Len(ledger) : ledger'[i] = ledger[i]
        /\ ledger'[n] = e
    OBVIOUS
  <1>2. Bounded'
    <2> SUFFICES ASSUME NEW S \in SUBSET (1 .. n), S # {}
                 PROVE  /\ \E i \in S : \A j \in S : i <= j
                        /\ \E i \in S : \A j \in S : j <= i
      BY <1>1 DEF Bounded
    <2>1. CASE S = {n}
      BY <1>1, <2>1
    <2>2. CASE S # {n}
      <3> DEFINE R == S \ {n}
      <3>1. R \in SUBSET (1 .. Len(ledger)) /\ R # {}
        <4>1. \A i \in R : i \in 1 .. Len(ledger)
          BY <1>1
        <4>2. PICK i \in S : i # n
          BY <2>2
        <4> QED
          BY <4>1, <4>2
      <3>2. PICK lo \in R : \A j \in R : lo <= j
        BY <3>1 DEF Bounded
      <3>3. PICK hi \in R : \A j \in R : j <= hi
        BY <3>1 DEF Bounded
      <3>4. \A j \in R : j <= n
        BY <1>1, <3>1
      <3>5. \A j \in S : lo <= j
        BY <3>2, <3>4
      <3>6. n \in S => \A j \in S : j <= n
        BY <1>1, <3>4
      <3>7. n \notin S => \A j \in S : j <= hi
        BY <3>3
      <3> QED
        BY <3>2, <3>3, <3>5, <3>6, <3>7
    <2> QED
      BY <2>1, <2>2
  <1>3. ASSUME NEW r
        PROVE  /\ Positions(r)' = Positions(r) \cup (IF e.req = r THEN {n} ELSE {})
               /\ Creations(r) \subseteq Creations(r)'
               /\ e.req # r => Creations(r)' = Creations(r)
    <2>1. /\ DOMAIN ledger' = (DOMAIN ledger) \cup {n}
          /\ DOMAIN ledger = 1 .. Len(ledger)
      BY <1>1
    <2>2. Positions(r)' = Positions(r) \cup (IF e.req = r THEN {n} ELSE {})
      BY <1>1, <2>1 DEF Positions
    <2> QED
      BY <1>1, <2>1, <2>2 DEF Creations, Positions
  <1> QED
    BY <1>1, <1>2, <1>3

-----------------------------------------------------------------------------
(* Who has decided a request by the n-th entry of the log. *)
Deciders(r, n) ==
    {ledger[i].ballot.approver :
        i \in {k \in Positions(r) : ledger[k].type = "decision.recorded" /\ k <= n}}

(* What evaluate names are people who decided. *)
LEMMA SatisfiersAreVoters ==
    ASSUME NEW request, NEW ds, NEW at, NEW S, \A i \in DOMAIN ds : ds[i].approver \in S
    PROVE  /\ Evaluate(request, ds, PolicyOfAll, Identities, at).status \in Statuses
           /\ Evaluate(request, ds, PolicyOfAll, Identities, at).satisfied_by \in SUBSET S
  <1>1. \A v : Voters(ds, Voices(ds, Counted(request, ds, PolicyOfAll, Identities)), v)
                  \in SUBSET S
    BY DEF Voters, Voices, Counted
  <1> QED
    BY <1>1 DEF Evaluate, Statuses

(* A record is one, and names all who have decided. *)
LEMMA RecordIsARecord ==
    ASSUME ledger \in Seq(Entry), NEW r, NEW at
    PROVE  /\ RecordOf(r, at) \in Record
           /\ \A n : Deciders(r, n) \subseteq RecordOf(r, at).decided
  <1> DEFINE ds == DecisionsFor(r)
             D == {k \in Positions(r) : ledger[k].type = "decision.recorded"}
             result == Evaluate([requested_by |-> Requester, created_at |-> at,
                                 not_valid_after |-> PolicyOfAll.max_age],
                                ds, PolicyOfAll, Identities, 0)
  <1>1. /\ DOMAIN ds = D
        /\ \A i \in D : ds[i].approver = ledger[i].ballot.approver
    BY DEF DecisionsFor
  <1>2. \A i \in D : ledger[i].ballot \in Ballots
    BY DEF Positions, Entry
  <1>3. \A i \in DOMAIN ds : ds[i].approver \in People
    BY <1>1, <1>2 DEF People
  <1>4. result.status \in Statuses /\ result.satisfied_by \in SUBSET People
    BY <1>3, SatisfiersAreVoters
  <1>5. RecordOf(r, at) = [status |-> result.status, satisfied_by |-> result.satisfied_by,
                           decided |-> {ds[i].approver : i \in DOMAIN ds}]
    BY DEF RecordOf
  <1>6. {ds[i].approver : i \in DOMAIN ds} \in SUBSET People
    BY <1>3
  <1>7. RecordOf(r, at) \in Record
    <2> HIDE DEF result, ds
    <2> QED
      BY <1>4, <1>5, <1>6 DEF Record
  <1>8. RecordOf(r, at).decided = {ds[i].approver : i \in DOMAIN ds}
    BY <1>5
  <1>9. ASSUME NEW n
        PROVE  Deciders(r, n) \subseteq {ds[i].approver : i \in DOMAIN ds}
    BY <1>1 DEF Deciders
  <1> QED
    BY <1>7, <1>8, <1>9

(* What policy_store.get may return. *)
InForce == {PolicyOfAll, Replacement}

(* A view of a record is one, under the policy it is built with. *)
LEMMA ViewIsAView ==
    ASSUME NEW record \in Record, NEW policy \in InForce, NEW at \in Stamps, NEW n \in Nat
    PROVE  /\ BuildView(record, policy, at, n) \in ViewsUnder(policy)
           /\ BuildView(record, policy, at, n) \in View
           /\ BuildView(record, policy, at, n).last_seq = n
  <1>1. /\ record.satisfied_by \in SUBSET People
        /\ record.status \in Statuses
    BY DEF Record
  <1>2. /\ Cardinality(record.satisfied_by) <= Cardinality(People)
        /\ Cardinality(record.satisfied_by) \in Nat /\ Cardinality(People) \in Nat
    BY <1>1, BoundsAssumption, FS_Subset, FS_CardinalityType
  <1>3. (IF record.status # "rejected" THEN Cardinality(record.satisfied_by) ELSE 0)
            \in 0 .. Cardinality(People)
    BY <1>2
  <1>4. BuildView(record, policy, at, n) \in ViewsUnder(policy)
    BY <1>1, <1>3 DEF BuildView, ViewsUnder
  <1> QED
    BY <1>4 DEF BuildView, View, InForce

-----------------------------------------------------------------------------
(* A step of one task that leaves the log alone. *)
LEMMA TypesWithoutAppend ==
    ASSUME Typed, NEW t \in Tasks, NEW j, Fit(j), Grounded(j),
           job' = [job EXCEPT ![t] = j], ledger' = ledger,
           RowsFit(views'), replaced' \in BOOLEAN, calls' \in 0 .. MaxCalls,
           spoilt' \subseteq Requests
    PROVE  Typed'
  <1>1. Bounded' /\ ledger' \in Seq(Entry)
    BY DEF Typed, Bounded
  <1>2. RowsFit(views)'
    BY DEF RowsFit, Positions
  <1>3. job' \in [Tasks -> Job]
    BY DEF Typed, Fit
  <1>4. ASSUME NEW u \in Tasks
        PROVE  Fit(job[u])' /\ Grounded(job[u])'
    <2>1. Fit(job'[u]) /\ Grounded(job'[u])
      BY DEF Typed
    <2>2. Fit(job[u])'
      BY <2>1 DEF Fit
    <2>3. Grounded(job[u])'
      BY <2>1 DEF Grounded, Creations, Positions
    <2> QED
      BY <2>2, <2>3
  <1> QED
    BY <1>1, <1>2, <1>3, <1>4 DEF Typed

(* A step of one task that appends an entry about its request. *)
LEMMA TypesWithAppend ==
    ASSUME Typed, NEW t \in Tasks, NEW j, NEW e \in Entry, Fit(j),
           j.step \in Busy, j.req = e.req, j.req \in Requests, j.created_at \in Stamps,
           j.last_seq = Len(ledger) + 1, j.todo = job[t].todo,
           job' = [job EXCEPT ![t] = j], ledger' = Append(ledger, e),
           UNCHANGED <<views, replaced, calls, spoilt>>
    PROVE  Typed'
  <1>1. /\ ledger' \in Seq(Entry)
        /\ Bounded'
        /\ \A r : /\ Positions(r) \subseteq Positions(r)'
                  /\ Creations(r) \subseteq Creations(r)'
        /\ j.last_seq \in Positions(j.req)'
    BY AppendAdds DEF Typed
  <1>2. RowsFit(views)'
    BY <1>1 DEF Typed, RowsFit
  <1>3. job' \in [Tasks -> Job]
    BY DEF Typed, Fit
  <1>4. ASSUME NEW u \in Tasks
        PROVE  Fit(job[u])' /\ Grounded(job[u])'
    <2>1. Fit(job'[u])
      BY DEF Typed
    <2>2. Fit(job[u])'
      BY <2>1 DEF Fit
    <2>3. job'[u].todo \subseteq {r \in Requests : Creations(r) # {}}'
      <3>1. job[u].todo \subseteq {r \in Requests : Creations(r) # {}}
        BY DEF Typed, Grounded
      <3>2. job'[u].todo = job[u].todo
        BY DEF Typed
      <3> QED
        BY <1>1, <3>1, <3>2
    <2>4. CASE u = t
      <3>1. job'[u] = j
        BY <2>4 DEF Typed
      <3> QED
        BY <1>1, <2>2, <2>3, <3>1 DEF Grounded
    <2>5. CASE u # t
      <3>1. job'[u] = job[u] /\ Grounded(job[u])
        BY <2>5 DEF Typed
      <3> QED
        BY <1>1, <2>2, <2>3, <3>1 DEF Grounded
    <2> QED
      BY <2>4, <2>5
  <1> QED
    BY <1>1, <1>2, <1>3, <1>4 DEF Typed

(* Nothing to do. *)
LEMMA NoJobFits == Fit(NoJob) /\ Grounded(NoJob) /\ NoJob.mends = {} /\ NoJob.todo = {}
  <1>1. NoRecord \in Record
    BY DEF NoRecord, Record, Statuses
  <1>2. NoJob \in Job
    BY <1>1 DEF NoJob, Job
  <1> QED
    BY <1>2 DEF NoJob, Fit, Grounded, Busy

(* What a call spoils when it ends early are requests. *)
LEMMA SpoilsAreRequests ==
    ASSUME Typed, NEW t \in Tasks, ~At(t, "idle")
    PROVE  Spoils(job[t]) \subseteq Requests
  <1>1. Fit(job[t]) /\ Grounded(job[t])
    BY DEF Typed
  <1> QED
    BY <1>1 DEF Spoils, Fit, Grounded, Busy, Job, At

(* Rows after an upsert or a clear. *)
LEMMA UpsertedFits ==
    ASSUME RowsFit(views), NEW r \in Requests, NEW v \in View, v.last_seq \in Positions(r)
    PROVE  RowsFit(Upserted(r, v))
  BY DEF RowsFit, Upserted

(* A view that was cleared fits the log: it has no rows. *)
LEMMA ClearedFits == RowsFit([r \in Requests |-> {}])
  BY DEF RowsFit

(* A call begins. *)
LEMMA TypesWhenCalled ==
    ASSUME Typed, NEW t \in Tasks, CallCreate(t) \/ CallDecide(t) \/ CallRebuild(t)
    PROVE  Typed'
  <1>1. ASSUME NEW j, Enter(t, j), Fit(j), Grounded(j)
        PROVE  Typed'
    <2>1. /\ job' = [job EXCEPT ![t] = j] /\ UNCHANGED <<ledger, views, replaced, spoilt>>
          /\ calls < MaxCalls /\ calls' = calls + 1
      BY <1>1 DEF Enter, Put
    <2>2. /\ calls' \in 0 .. MaxCalls /\ RowsFit(views') /\ spoilt' \subseteq Requests
          /\ replaced' \in BOOLEAN
      BY <2>1, BoundsAssumption DEF Typed
    <2> QED
      BY <1>1, <2>1, <2>2, TypesWithoutAppend
  <1> USE NoJobFits
  <1>2. NoJob \in Job /\ NoJob.step = "idle"
    BY DEF Fit, NoJob
  <1>3. ASSUME NEW r \in Requests, NEW at \in Stamps,
               Enter(t, [NoJob EXCEPT !.step = "load", !.kind = "create", !.req = r,
                                      !.created_at = at])
        PROVE  Typed'
    <2> DEFINE j == [NoJob EXCEPT !.step = "load", !.kind = "create", !.req = r,
                                  !.created_at = at]
    <2>1. j \in Job /\ j.step = "load" /\ j.kind = "create" /\ j.req = r
          /\ j.created_at = at /\ j.todo = {}
      BY <1>2 DEF Job, NoJob
    <2> HIDE DEF j
    <2>2. Fit(j) /\ Grounded(j)
      BY <2>1 DEF Fit, Grounded, Busy
    <2> QED
      BY <1>1, <1>3, <2>2 DEF j
  <1>4. ASSUME NEW r \in Requests, NEW b \in Ballots,
               Enter(t, [NoJob EXCEPT !.step = "load", !.kind = "decide", !.req = r,
                                      !.ballot = {b}])
        PROVE  Typed'
    <2> DEFINE j == [NoJob EXCEPT !.step = "load", !.kind = "decide", !.req = r,
                                  !.ballot = {b}]
    <2>1. j \in Job /\ j.step = "load" /\ j.kind = "decide" /\ j.req = r /\ j.todo = {}
      BY <1>2 DEF Job, NoJob
    <2> HIDE DEF j
    <2>2. Fit(j) /\ Grounded(j)
      BY <2>1 DEF Fit, Grounded, Busy
    <2> QED
      BY <1>1, <1>4, <2>2 DEF j
  <1>5. ASSUME Enter(t, [NoJob EXCEPT !.step = "clear", !.kind = "rebuild"])
        PROVE  Typed'
    <2> DEFINE j == [NoJob EXCEPT !.step = "clear", !.kind = "rebuild"]
    <2>1. j \in Job /\ j.step = "clear" /\ j.kind = "rebuild" /\ j.todo = {}
      BY <1>2 DEF Job, NoJob
    <2> HIDE DEF j
    <2>2. Fit(j) /\ Grounded(j)
      BY <2>1 DEF Fit, Grounded, Busy
    <2> QED
      BY <1>1, <1>5, <2>2 DEF j
  <1> QED
    BY <1>3, <1>4, <1>5 DEF CallCreate, CallDecide, CallRebuild

(* What a call appends is an entry about its request. *)
LEMMA CallsAppend ==
    ASSUME Typed, NEW t \in Tasks, AppendEntry(t) \/ Announce(t)
    PROVE  \E e \in Entry : e.req = job[t].req /\ ledger' = Append(ledger, e)
  <1> DEFINE j == job[t]
  <1>1. j \in Job /\ Fit(j) /\ Grounded(j)
    BY DEF Typed
  <1>2. CASE Announce(t)
    <2> DEFINE e == [type |-> "status.changed", req |-> j.req, status |-> j.record.status]
    <2>1. /\ j.step = "announce" /\ j.req \in Requests
          /\ j.record.status \in Statuses \ {"pending"}
      BY <1>1, <1>2 DEF Announce, At, Fit, Grounded, Busy, Job, Record
    <2>2. e \in Entry /\ e.req = j.req
      BY <2>1 DEF Entry
    <2> QED
      BY <1>2, <2>2 DEF Announce, Appended
  <1>3. CASE AppendEntry(t)
    <2>1. j.step = "append" /\ j.req \in Requests /\ j.created_at \in Stamps
      BY <1>1, <1>3 DEF AppendEntry, At, Fit
    <2>2. CASE Appended([type |-> "request.created", req |-> j.req,
                         created_at |-> j.created_at])
      <3>1. [type |-> "request.created", req |-> j.req, created_at |-> j.created_at] \in Entry
        BY <2>1 DEF Entry
      <3> QED
        BY <2>2, <3>1 DEF Appended
    <2>3. ASSUME NEW b \in j.ballot,
                 Appended([type |-> "decision.recorded", req |-> j.req, ballot |-> b])
          PROVE  \E e \in Entry : e.req = j.req /\ ledger' = Append(ledger, e)
      <3>1. b \in Ballots
        BY <1>1 DEF Job
      <3>2. [type |-> "decision.recorded", req |-> j.req, ballot |-> b] \in Entry
        BY <2>1, <3>1 DEF Entry
      <3> QED
        BY <2>3, <3>2 DEF Appended
    <2> QED
      BY <1>3, <2>2, <2>3 DEF AppendEntry
  <1> QED
    BY <1>2, <1>3

(* create_request and decisions up to their upsert. *)
LEMMA TypesOfACall ==
    ASSUME Typed, NEW t \in Tasks, Load(t) \/ AppendEntry(t) \/ Recompute(t) \/ Announce(t)
    PROVE  Typed'
  <1> DEFINE j == job[t]
  <1>1. /\ j \in Job /\ Fit(j) /\ Grounded(j) /\ ledger \in Seq(Entry) /\ Bounded
        /\ replaced \in BOOLEAN
    BY DEF Typed
  <1>2. /\ RowsFit(views) /\ calls \in 0 .. MaxCalls /\ spoilt \subseteq Requests
        /\ replaced \in BOOLEAN
    BY DEF Typed
  <1>3. CASE Load(t)
    <2>1. ASSUME NEW k, Fit(k), Grounded(k), Put(t, k)
          PROVE  Typed'
      BY <1>2, <1>3, <2>1, TypesWithoutAppend DEF Load, Put
    <2>2. j.step = "load" /\ j.req \in Requests /\ j.kind \in {"create", "decide"}
      BY <1>1, <1>3 DEF Load, At, Fit
    <2> DEFINE a == [j EXCEPT !.step = "append"]
               b == [j EXCEPT !.step = "append", !.created_at = FirstBody(j.req)]
    <2>3. j.kind = "create" => Fit(a) /\ Grounded(a)
      BY <1>1, <2>2 DEF Fit, Grounded, Job, Busy
    <2>4. Creations(j.req) # {} => Fit(b) /\ Grounded(b)
      <3>1. Creations(j.req) # {} => FirstBody(j.req) \in Stamps
        BY <1>1, FirstBodyIsAStamp
      <3> QED
        BY <1>1, <2>2, <3>1 DEF Fit, Grounded, Job, Busy
    <2>5. \/ Put(t, NoJob)
          \/ j.kind = "create" /\ Put(t, a)
          \/ Creations(j.req) # {} /\ Put(t, b)
      BY <1>3 DEF Load
    <2> HIDE DEF a, b
    <2> QED
      BY <2>1, <2>3, <2>4, <2>5, NoJobFits
  <1>4. CASE AppendEntry(t)
    <2> DEFINE k == [j EXCEPT !.step = "recompute", !.last_seq = Len(ledger) + 1,
                            !.seen = replaced]
    <2>1. j.step = "append" /\ j.req \in Requests /\ j.created_at \in Stamps
      BY <1>1, <1>4 DEF AppendEntry, At, Fit
    <2>2. Len(ledger) + 1 \in Nat
      BY <1>1
    <2>3. /\ Fit(k) /\ k.step \in Busy /\ k.req = j.req /\ k.created_at = j.created_at
          /\ k.last_seq = Len(ledger) + 1 /\ k.todo = j.todo
      BY <1>1, <2>2 DEF Fit, Job, Busy
    <2>4. PICK e \in Entry : e.req = j.req /\ ledger' = Append(ledger, e)
      BY <1>4, CallsAppend
    <2>5. job' = [job EXCEPT ![t] = k] /\ UNCHANGED <<views, replaced, calls, spoilt>>
      BY <1>4 DEF AppendEntry, Put
    <2> HIDE DEF k
    <2> QED
      BY <2>1, <2>3, <2>4, <2>5, TypesWithAppend
  <1>5. CASE Recompute(t)
    <2> DEFINE record == RecordOf(j.req, j.created_at)
               k == [j EXCEPT !.record = record, !.seen = replaced,
                              !.step = IF j.kind = "decide" /\ record.status # "pending"
                                       THEN "announce" ELSE "upsert"]
    <2>1. record \in Record
      BY <1>1, RecordIsARecord
    <2>2. j.step = "recompute"
      BY <1>5 DEF Recompute, At
    <2>3. Fit(k) /\ Grounded(k)
      <3> HIDE DEF record
      <3> QED
        BY <1>1, <2>1, <2>2 DEF Fit, Grounded, Job, Busy
    <2>4. job' = [job EXCEPT ![t] = k] /\ UNCHANGED <<ledger, views, replaced, calls, spoilt>>
      BY <1>5 DEF Recompute, Put
    <2> HIDE DEF k
    <2> QED
      BY <1>2, <2>3, <2>4, TypesWithoutAppend
  <1>6. CASE Announce(t)
    <2> DEFINE k == [j EXCEPT !.step = "upsert", !.last_seq = Len(ledger) + 1,
                            !.seen = replaced]
    <2>1. j.step = "announce" /\ j.req \in Requests /\ j.created_at \in Stamps
      BY <1>1, <1>6 DEF Announce, At, Grounded, Busy
    <2>2. Len(ledger) + 1 \in Nat
      BY <1>1
    <2>3. /\ Fit(k) /\ k.step \in Busy /\ k.req = j.req /\ k.created_at = j.created_at
          /\ k.last_seq = Len(ledger) + 1 /\ k.todo = j.todo
      BY <1>1, <2>2 DEF Fit, Job, Busy
    <2>4. PICK e \in Entry : e.req = j.req /\ ledger' = Append(ledger, e)
      BY <1>6, CallsAppend
    <2>5. job' = [job EXCEPT ![t] = k] /\ UNCHANGED <<views, replaced, calls, spoilt>>
      BY <1>6 DEF Announce, Put
    <2> HIDE DEF k
    <2> QED
      BY <2>1, <2>3, <2>4, <2>5, TypesWithAppend
  <1> QED
    BY <1>3, <1>4, <1>5, <1>6

(* The end of a call, and a rebuild. *)
LEMMA TypesOfARebuild ==
    ASSUME Typed, NEW t \in Tasks,
           Upsert(t) \/ Clear(t) \/ Scan(t) \/ ReadEvents(t) \/ RebuildReturns(t)
    PROVE  Typed'
  <1> DEFINE j == job[t]
  <1>1. /\ j \in Job /\ Fit(j) /\ Grounded(j) /\ ledger \in Seq(Entry) /\ Bounded
        /\ replaced \in BOOLEAN
    BY DEF Typed
  <1>2. /\ RowsFit(views) /\ calls \in 0 .. MaxCalls /\ spoilt \subseteq Requests
        /\ replaced \in BOOLEAN
    BY DEF Typed
  <1>3. CASE Upsert(t)
    <2> DEFINE k == [NoJob EXCEPT !.step = "next", !.kind = "rebuild",
                                  !.todo = j.todo \ {j.req}, !.mends = j.mends]
    <2>1. /\ j.req \in Requests /\ j.created_at \in Stamps
          /\ j.last_seq \in Positions(j.req) /\ j.last_seq \in Nat /\ j.record \in Record
      BY <1>1, <1>3 DEF Upsert, At, Grounded, Busy, Job
    <2>2. PICK p \in InForce :
              views' = Upserted(j.req, BuildView(j.record, p, j.created_at, j.last_seq))
      BY <1>3 DEF Upsert, PolicyUnder, InForce
    <2> DEFINE v == BuildView(j.record, p, j.created_at, j.last_seq)
    <2>3. v \in View /\ v.last_seq = j.last_seq
      <3>1. \A record \in Record, at \in Stamps, n \in Nat :
                /\ BuildView(record, p, at, n) \in View
                /\ BuildView(record, p, at, n).last_seq = n
        BY ViewIsAView
      <3> HIDE DEF j, k
      <3> QED
        BY <2>1, <3>1
    <2>4. Fit(k) /\ Grounded(k)
      <3>1. NoJob \in Job
        BY NoJobFits DEF Fit
      <3>2. k \in Job /\ k.step = "next" /\ k.kind = "rebuild" /\ k.todo = j.todo \ {j.req}
        BY <1>1, <3>1 DEF Job, NoJob
      <3>3. k.todo \subseteq {r \in Requests : Creations(r) # {}}
        BY <1>1, <3>2 DEF Grounded
      <3> HIDE DEF k
      <3> QED
        BY <3>2, <3>3 DEF Fit, Grounded, Busy
    <2>5. views' = Upserted(j.req, v) /\ UNCHANGED <<ledger, replaced, calls, spoilt>>
      BY <1>3, <2>2 DEF Upsert
    <2> HIDE DEF v
    <2>6. RowsFit(Upserted(j.req, v))
      BY <1>2, <2>1, <2>3, UpsertedFits
    <2>7. job' = [job EXCEPT ![t] = k] \/ job' = [job EXCEPT ![t] = NoJob]
      BY <1>3 DEF Upsert, Put
    <2> HIDE DEF k
    <2> QED
      BY <1>2, <2>4, <2>5, <2>6, <2>7, NoJobFits, TypesWithoutAppend
  <1>4. CASE Clear(t)
    <2> DEFINE k == [j EXCEPT !.step = "scan", !.mends = spoilt]
    <2>1. Fit(k) /\ Grounded(k)
      BY <1>1, <1>2, <1>4 DEF Clear, At, Fit, Grounded, Job, Busy
    <2>2. /\ views' = [r \in Requests |-> {}] /\ UNCHANGED <<ledger, replaced, calls, spoilt>>
          /\ job' = [job EXCEPT ![t] = k]
      BY <1>4 DEF Clear, Put
    <2> HIDE DEF k
    <2> QED
      BY <1>2, <2>1, <2>2, ClearedFits, TypesWithoutAppend
  <1>5. CASE Scan(t)
    <2> DEFINE k == [j EXCEPT !.step = "next", !.todo = {r \in Requests : Creations(r) # {}}]
    <2>1. Fit(k) /\ Grounded(k)
      BY <1>1, <1>5 DEF Scan, At, Fit, Grounded, Job, Busy
    <2>2. job' = [job EXCEPT ![t] = k] /\ UNCHANGED <<ledger, views, replaced, calls, spoilt>>
      BY <1>5 DEF Scan, Put
    <2> HIDE DEF k
    <2> QED
      BY <1>2, <2>1, <2>2, TypesWithoutAppend
  <1>6. CASE ReadEvents(t)
    <2> DEFINE r == NextOf(j.todo)
               k == [j EXCEPT !.step = "recompute", !.req = r, !.created_at = FirstBody(r),
                              !.seen = replaced, !.last_seq = LastSeq(Positions(r))]
    <2>1. j.todo # {} /\ j.todo \subseteq Requests /\ \A q \in j.todo : Creations(q) # {}
      BY <1>1, <1>6 DEF ReadEvents, Grounded
    <2>2. r \in j.todo
      BY <1>1, <2>1, NextOfIsOneOf
    <2>3. r \in Requests /\ Creations(r) # {} /\ Positions(r) # {}
      BY <1>1, <2>1, <2>2, PositionsAreInLog
    <2> HIDE DEF r
    <2>4. FirstBody(r) \in Stamps /\ LastSeq(Positions(r)) \in Positions(r)
      BY <1>1, <2>3, FirstBodyIsAStamp, LastSeqIsLast
    <2>5. LastSeq(Positions(r)) \in Nat
      BY <1>1, <2>4, PositionsAreInLog
    <2>6. Fit(k) /\ Grounded(k)
      BY <1>1, <2>3, <2>4, <2>5 DEF Fit, Grounded, Job, Busy
    <2>7. job' = [job EXCEPT ![t] = k] /\ UNCHANGED <<ledger, views, replaced, calls, spoilt>>
      BY <1>6 DEF ReadEvents, Put, r
    <2> HIDE DEF k
    <2> QED
      BY <1>2, <2>6, <2>7, TypesWithoutAppend
  <1>7. CASE RebuildReturns(t)
    <2>1. /\ job' = [job EXCEPT ![t] = NoJob] /\ UNCHANGED <<ledger, views, replaced, calls>>
          /\ spoilt' \subseteq Requests
      BY <1>2, <1>7 DEF RebuildReturns, Put
    <2> QED
      BY <1>2, <2>1, NoJobFits, TypesWithoutAppend
  <1> QED
    BY <1>3, <1>4, <1>5, <1>6, <1>7

(* A call that ends early. *)
LEMMA TypesWhenEnded ==
    ASSUME Typed, NEW t \in Tasks, ~At(t, "idle"), Ends(t), ledger' = ledger
    PROVE  Typed'
  <1>1. Bounded' /\ ledger' \in Seq(Entry)
    BY DEF Typed, Bounded
  <1>2. RowsFit(views)' /\ calls' \in 0 .. MaxCalls /\ replaced' \in BOOLEAN
    BY DEF Typed, Ends, RowsFit, Positions
  <1>3. spoilt' \subseteq Requests
    BY SpoilsAreRequests DEF Ends, Typed
  <1>4. ASSUME NEW u \in Tasks
        PROVE  job'[u] \in Job /\ Fit(job'[u]) /\ Grounded(job'[u])
    <2>1. job[u] \in Job /\ Fit(job[u]) /\ Grounded(job[u])
      BY DEF Typed
    <2>2. CASE u = t
      <3>1. job'[u] = NoJob
        BY <2>2 DEF Ends
      <3> QED
        BY <3>1, NoJobFits DEF Fit
    <2>3. CASE u # t
      <3> DEFINE k == [job[u] EXCEPT !.mends = @ \ Spoils(job[t])]
      <3>1. job'[u] = k
        BY <2>3 DEF Ends
      <3>2. k \in Job /\ Fit(k) /\ Grounded(k)
        BY <2>1 DEF Fit, Grounded, Job
      <3> QED
        BY <3>1, <3>2
    <2> QED
      BY <2>2, <2>3
  <1>5. ASSUME NEW u \in Tasks
        PROVE  Fit(job[u])' /\ Grounded(job[u])'
    <2>1. Fit(job[u])'
      BY <1>4 DEF Fit
    <2>2. Grounded(job[u])'
      BY <1>4 DEF Grounded, Creations, Positions
    <2> QED
      BY <2>1, <2>2
  <1>6. job' \in [Tasks -> Job]
    BY <1>4 DEF Ends
  <1> QED
    BY <1>1, <1>2, <1>3, <1>5, <1>6 DEF Typed

(* Types are kept. *)
LEMMA TypesAreKept ==
    ASSUME Typed, [Next]_vars
    PROVE  Typed'
  <1>1. ASSUME UNCHANGED <<ledger, views, job, spoilt>>, replaced' \in BOOLEAN,
               calls' \in 0 .. MaxCalls
        PROVE  Typed'
    <2>1. Bounded' /\ RowsFit(views)'
      BY <1>1 DEF Typed, Bounded, RowsFit, Positions
    <2>2. \A t \in Tasks : Fit(job[t])' /\ Grounded(job[t])'
      BY <1>1 DEF Typed, Fit, Grounded, Creations, Positions
    <2> QED
      BY <1>1, <2>1, <2>2 DEF Typed
  <1>2. CASE UNCHANGED vars
    BY <1>1, <1>2 DEF vars, Typed
  <1>3. CASE ReplacePolicy
    <2>1. calls' \in 0 .. MaxCalls
      BY <1>3, BoundsAssumption DEF Typed, ReplacePolicy
    <2> QED
      BY <1>1, <1>3, <2>1 DEF ReplacePolicy
  <1>5. CASE OpenListing \/ Query
    BY <1>1, <1>5 DEF Typed, OpenListing, Query
  <1>4. ASSUME NEW t \in Tasks, CallFails(t) \/ PolicyMismatch(t)
        PROVE  Typed'
    BY <1>4, TypesWhenEnded DEF CallFails, PolicyMismatch, At
  <1> QED
    BY <1>2, <1>3, <1>4, <1>5, TypesWhenCalled, TypesOfACall, TypesOfARebuild DEF Next

(* They are there from the start. *)
LEMMA TypedFromTheStart == Init => Typed
  <1> SUFFICES ASSUME Init
               PROVE  Typed
    OBVIOUS
  <1>1. ledger \in Seq(Entry) /\ Bounded
    <2>1. ledger \in Seq(Entry) /\ Len(ledger) = 0
      BY DEF Init
    <2>2. 1 .. Len(ledger) = {}
      BY <2>1
    <2> QED
      BY <2>1, <2>2 DEF Bounded
  <1>2. RowsFit(views) /\ calls \in 0 .. MaxCalls
    BY BoundsAssumption DEF Init, RowsFit
  <1>3. replaced \in BOOLEAN
    BY DEF Init
  <1>4. job \in [Tasks -> Job] /\ \A t \in Tasks : Fit(job[t]) /\ Grounded(job[t])
    BY NoJobFits DEF Init, Fit
  <1> QED
    BY <1>1, <1>2, <1>3, <1>4 DEF Init, Typed

(* The types hold of every behaviour. *)
LEMMA AlwaysTyped == Spec => []Typed
  BY TypedFromTheStart, TypesAreKept, PTL DEF Spec

(* A replacement is there once somebody has seen it or built a view with   *)
(* it.                                                                     *)
Noticed ==
    ~replaced => /\ \A t \in Tasks : ~job[t].seen
                 /\ \A r \in Requests : views[r] \subseteq ViewsUnder(PolicyOfAll)

(* A call knows of a replacement what it knew, or what is so. *)
LEMMA SeenIsTrue ==
    ASSUME Typed, [Next]_vars, NEW u \in Tasks
    PROVE  job'[u].seen \in {FALSE, replaced, job[u].seen}
  <1>1. job \in [Tasks -> Job]
    BY DEF Typed
  <1>2. NoJob.seen = FALSE
    BY DEF NoJob
  <1>3. CASE UNCHANGED vars \/ ReplacePolicy \/ OpenListing \/ Query
    BY <1>3 DEF ReplacePolicy, OpenListing, Query, vars
  <1>4. ASSUME NEW t \in Tasks, CallCreate(t) \/ CallDecide(t) \/ CallRebuild(t)
        PROVE  job'[u].seen \in {FALSE, job[u].seen}
    <2>1. ASSUME NEW k, Enter(t, k), k.seen = FALSE
          PROVE  job'[u].seen \in {FALSE, job[u].seen}
      BY <1>1, <2>1 DEF Enter, Put
    <2>2. /\ \A q, at : [NoJob EXCEPT !.step = "load", !.kind = "create", !.req = q,
                                       !.created_at = at].seen = FALSE
          /\ \A q, b : [NoJob EXCEPT !.step = "load", !.kind = "decide", !.req = q,
                                      !.ballot = {b}].seen = FALSE
          /\ [NoJob EXCEPT !.step = "clear", !.kind = "rebuild"].seen = FALSE
      BY DEF NoJob
    <2> QED
      BY <1>4, <2>1, <2>2 DEF CallCreate, CallDecide, CallRebuild
  <1>5. ASSUME NEW t \in Tasks, Load(t) \/ Clear(t) \/ Scan(t) \/ RebuildReturns(t)
        PROVE  job'[u].seen \in {FALSE, job[u].seen}
    <2>1. ASSUME NEW k, Put(t, k), k.seen \in {FALSE, job[t].seen}
          PROVE  job'[u].seen \in {FALSE, job[u].seen}
      BY <1>1, <2>1 DEF Put
    <2>2. job[t] \in Job
      BY <1>1
    <2>3. /\ \A at : [job[t] EXCEPT !.step = "append", !.created_at = at].seen = job[t].seen
          /\ [job[t] EXCEPT !.step = "append"].seen = job[t].seen
          /\ \A m : [job[t] EXCEPT !.step = "scan", !.mends = m].seen = job[t].seen
          /\ \A d : [job[t] EXCEPT !.step = "next", !.todo = d].seen = job[t].seen
      BY <2>2 DEF Job
    <2>4. CASE Load(t)
      <3> DEFINE k == IF job[t].kind = "create"
                      THEN IF Creations(job[t].req) # {}
                           THEN NoJob ELSE [job[t] EXCEPT !.step = "append"]
                      ELSE IF Creations(job[t].req) # {}
                           THEN [job[t] EXCEPT !.step = "append",
                                               !.created_at = FirstBody(job[t].req)]
                           ELSE NoJob
      <3>1. Put(t, k)
        BY <2>4 DEF Load
      <3>2. k.seen \in {FALSE, job[t].seen}
        BY <1>2, <2>3
      <3> HIDE DEF k
      <3> QED
        BY <2>1, <3>1, <3>2
    <2>5. CASE Clear(t)
      BY <2>1, <2>3, <2>5 DEF Clear
    <2>6. CASE Scan(t)
      BY <2>1, <2>3, <2>6 DEF Scan
    <2>7. CASE RebuildReturns(t)
      BY <1>2, <2>1, <2>7 DEF RebuildReturns
    <2> QED
      BY <1>5, <2>4, <2>5, <2>6, <2>7
  <1>6. ASSUME NEW t \in Tasks, AppendEntry(t) \/ Announce(t)
        PROVE  job'[u].seen \in {replaced, job[u].seen}
    BY <1>1, <1>6 DEF AppendEntry, Announce, Put, Job
  <1>7. ASSUME NEW t \in Tasks, Recompute(t)
        PROVE  job'[u].seen \in {replaced, job[u].seen}
    BY <1>1, <1>7 DEF Recompute, Put, Job
  <1>8. ASSUME NEW t \in Tasks, ReadEvents(t)
        PROVE  job'[u].seen \in {replaced, job[u].seen}
    BY <1>1, <1>8 DEF ReadEvents, Put, Job
  <1>9. ASSUME NEW t \in Tasks, Upsert(t)
        PROVE  job'[u].seen \in {FALSE, job[u].seen}
    BY <1>1, <1>9 DEF Upsert, Put, NoJob
  <1>10. ASSUME NEW t \in Tasks, CallFails(t) \/ PolicyMismatch(t)
         PROVE  job'[u].seen \in {FALSE, job[u].seen}
    BY <1>1, <1>2, <1>10 DEF CallFails, PolicyMismatch, Ends, Job
  <1> QED
    BY <1>3, <1>4, <1>5, <1>6, <1>7, <1>8, <1>9, <1>10 DEF Next

(* Rows are written by upserts only. *)
LEMMA OnlyUpsertsWrite ==
    ASSUME Typed, [Next]_vars, NEW r \in Requests, NEW v \in views'[r], v \notin views[r]
    PROVE  \E t \in Tasks, changed \in BOOLEAN :
              /\ Upsert(t) /\ job[t].req = r /\ changed \in {job[t].seen, replaced}
              /\ v = BuildView(job[t].record, PolicyUnder(changed),
                               job[t].created_at, job[t].last_seq)
  <1>1. views \in [Requests -> SUBSET View]
    BY DEF Typed, RowsFit
  <1>2. ASSUME NEW t \in Tasks,
               \/ CallCreate(t) \/ CallDecide(t) \/ CallRebuild(t) \/ Load(t) \/ AppendEntry(t)
               \/ Recompute(t) \/ Announce(t) \/ Scan(t) \/ ReadEvents(t)
               \/ RebuildReturns(t) \/ CallFails(t) \/ PolicyMismatch(t)
        PROVE  views' = views
    BY <1>2 DEF CallCreate, CallDecide, CallRebuild, Enter, Load, AppendEntry, Recompute,
                Announce, Scan, ReadEvents, RebuildReturns, CallFails, PolicyMismatch, Ends
  <1>3. CASE ReplacePolicy \/ OpenListing \/ Query \/ UNCHANGED vars
    BY <1>3 DEF ReplacePolicy, OpenListing, Query, vars
  <1>4. ASSUME NEW t \in Tasks, Clear(t)
        PROVE  FALSE
    BY <1>4 DEF Clear
  <1>5. ASSUME NEW t \in Tasks, Upsert(t)
        PROVE  \E changed \in BOOLEAN :
                  /\ job[t].req = r /\ changed \in {job[t].seen, replaced}
                  /\ v = BuildView(job[t].record, PolicyUnder(changed),
                                   job[t].created_at, job[t].last_seq)
    <2> DEFINE w(c) == BuildView(job[t].record, PolicyUnder(c),
                                 job[t].created_at, job[t].last_seq)
    <2>1. job[t].seen \in BOOLEAN /\ replaced \in BOOLEAN
      BY DEF Typed, Job
    <2>2. PICK changed \in {job[t].seen, replaced} : views' = Upserted(job[t].req, w(changed))
      BY <1>5 DEF Upsert
    <2> HIDE DEF w
    <2>3. job[t].req = r /\ v = w(changed)
      BY <1>1, <2>2 DEF Upserted
    <2> QED
      BY <2>1, <2>2, <2>3 DEF w
  <1> QED
    BY <1>2, <1>3, <1>4, <1>5 DEF Next

(* Noticed is inductive. *)
LEMMA NoticedStays ==
    ASSUME Typed, Noticed, [Next]_vars
    PROVE  Noticed'
  <1> SUFFICES ASSUME ~replaced'
               PROVE  /\ \A t \in Tasks : ~job'[t].seen
                      /\ \A r \in Requests : views'[r] \subseteq ViewsUnder(PolicyOfAll)
    BY DEF Noticed
  <1>1. ~replaced
    <2>1. replaced' = TRUE \/ replaced' = replaced
      BY DEF Next, vars, CallCreate, CallDecide, CallRebuild, Enter, Load, AppendEntry,
             Recompute, Announce, Upsert, Clear, Scan, ReadEvents, RebuildReturns,
             CallFails, PolicyMismatch, Ends, ReplacePolicy, OpenListing, Query
    <2> QED
      BY <2>1
  <1>2. \A t \in Tasks : ~job[t].seen
    BY <1>1 DEF Noticed
  <1>3. \A t \in Tasks : ~job'[t].seen
    BY <1>1, <1>2, SeenIsTrue
  <1>4. ASSUME NEW r \in Requests, NEW v \in views'[r], v \notin views[r]
        PROVE  v \in ViewsUnder(PolicyOfAll)
    <2>1. PICK t \in Tasks, changed \in BOOLEAN :
              /\ Upsert(t) /\ job[t].req = r /\ changed \in {job[t].seen, replaced}
              /\ v = BuildView(job[t].record, PolicyUnder(changed),
                               job[t].created_at, job[t].last_seq)
      BY <1>4, OnlyUpsertsWrite
    <2>2. PolicyUnder(changed) = PolicyOfAll
      BY <1>1, <1>2, <2>1 DEF PolicyUnder
    <2>3. /\ job[t].record \in Record /\ job[t].created_at \in Stamps
          /\ job[t].last_seq \in Nat
      BY <2>1 DEF Upsert, At, Typed, Grounded, Busy, Job
    <2> QED
      BY <2>1, <2>2, <2>3, ViewIsAView DEF InForce
  <1> QED
    BY <1>1, <1>3, <1>4 DEF Noticed

(* Type correctness of the read model: one view per request, for an entry  *)
(* of it, whatever calls and rebuilds do to them, and under the policy the *)
(* request pinned or, if that was replaced, under the one replacing it.    *)
THEOREM ReadModelTypeOK == Spec => []TypeOK
  <1>1. Init => Noticed
    BY DEF Init, Noticed, NoJob
  <1>2. Typed /\ Noticed /\ [Next]_vars => Noticed'
    BY NoticedStays
  <1>3. Typed /\ Noticed => TypeOK
    <2> SUFFICES ASSUME Typed, Noticed
                 PROVE  TypeOK
      OBVIOUS
    <2>1. ASSUME NEW r \in Requests, NEW v \in views[r]
          PROVE  /\ v \in ViewsUnder(PolicyOfAll) \/ (replaced /\ v \in ViewsUnder(Replacement))
                 /\ v.last_seq \in Positions(r)
      BY DEF Typed, RowsFit, View, Noticed
    <2> QED
      BY <2>1 DEF Typed, RowsFit, Grounded, Busy, TypeOK
  <1> QED
    BY <1>1, <1>2, <1>3, AlwaysTyped, PTL DEF Spec

-----------------------------------------------------------------------------
(* Nobody is asked twice.                                                  *)

(* What NobodyAskedTwice takes to be inductive: a view that still asks, or *)
(* is about to be written, knows who had decided by its seq.               *)
Asking ==
    /\ \A r \in Requests : \A v \in views[r] : Deciders(r, v.last_seq) \cap v.pending_for = {}
    /\ \A t \in Tasks :
          job[t].step = "upsert" /\ job[t].record.status = "pending" =>
              Deciders(job[t].req, job[t].last_seq) \subseteq job[t].record.decided

(* Deciders, after a step. *)
DecidersAfter(r, n) ==
    {ledger'[i].ballot.approver :
        i \in {k \in DOMAIN ledger' : /\ ledger'[k].req = r
                                      /\ ledger'[k].type = "decision.recorded"
                                      /\ k <= n}}

(* Only calls append. *)
LEMMA OnlyCallsAppend ==
    ASSUME Typed, [Next]_vars
    PROVE  \/ ledger' = ledger
           \/ \E t \in Tasks : AppendEntry(t) \/ Announce(t)
  <1>1. ASSUME NEW t \in Tasks,
               \/ CallCreate(t) \/ CallDecide(t) \/ CallRebuild(t) \/ Load(t)
               \/ Recompute(t) \/ Upsert(t) \/ Clear(t) \/ Scan(t) \/ ReadEvents(t)
               \/ RebuildReturns(t) \/ CallFails(t) \/ PolicyMismatch(t)
        PROVE  ledger' = ledger
    BY <1>1 DEF CallCreate, CallDecide, CallRebuild, Enter, Load, Recompute, Upsert, Clear,
                Scan, ReadEvents, RebuildReturns, CallFails, PolicyMismatch
  <1>2. CASE ReplacePolicy \/ OpenListing \/ Query \/ UNCHANGED vars
    BY <1>2 DEF ReplacePolicy, OpenListing, Query, vars
  <1> QED
    BY <1>1, <1>2 DEF Next

(* Who had decided by a seq of the log stays who had. *)
LEMMA DecidersStay ==
    ASSUME Typed, [Next]_vars, NEW r, NEW n \in 1 .. Len(ledger)
    PROVE  DecidersAfter(r, n) = Deciders(r, n)
  <1>1. CASE ledger' = ledger
    BY <1>1 DEF DecidersAfter, Deciders, Positions
  <1>2. ASSUME NEW e \in Entry, ledger' = Append(ledger, e)
        PROVE  DecidersAfter(r, n) = Deciders(r, n)
    <2> DEFINE D == {k \in Positions(r) : ledger[k].type = "decision.recorded" /\ k <= n}
               E == {k \in DOMAIN ledger' : /\ ledger'[k].req = r
                                            /\ ledger'[k].type = "decision.recorded"
                                            /\ k <= n}
    <2>1. /\ Len(ledger) \in Nat
          /\ DOMAIN ledger = 1 .. Len(ledger) /\ DOMAIN ledger' = 1 .. Len(ledger) + 1
          /\ \A i \in 1 .. Len(ledger) : ledger'[i] = ledger[i]
      BY <1>2, AppendAdds DEF Typed
    <2>2. D = E /\ \A i \in D : ledger'[i] = ledger[i]
      BY <2>1 DEF Positions
    <2>3. Deciders(r, n) = {ledger[i].ballot.approver : i \in D}
      BY DEF Deciders
    <2>4. DecidersAfter(r, n) = {ledger'[i].ballot.approver : i \in E}
      BY DEF DecidersAfter
    <2> HIDE DEF D, E
    <2> QED
      BY <2>2, <2>3, <2>4
  <1> QED
    BY <1>1, <1>2, OnlyCallsAppend, CallsAppend

(* A call about to write its view was so before, or has just computed or   *)
(* announced.                                                              *)
LEMMA UpsertsAreReached ==
    ASSUME Typed, [Next]_vars, NEW u \in Tasks, job'[u].step = "upsert",
           ~Recompute(u), ~Announce(u)
    PROVE  /\ job[u].step = "upsert" /\ job'[u].req = job[u].req
           /\ job'[u].record = job[u].record /\ job'[u].last_seq = job[u].last_seq
  <1>1. job \in [Tasks -> Job]
    BY DEF Typed
  <1>2. NoJob.step = "idle"
    BY DEF NoJob
  <1>3. CASE UNCHANGED vars \/ ReplacePolicy \/ OpenListing \/ Query
    BY <1>3 DEF ReplacePolicy, OpenListing, Query, vars
  <1>4. ASSUME NEW t \in Tasks, CallCreate(t) \/ CallDecide(t) \/ CallRebuild(t)
        PROVE  job'[u] = job[u]
    BY <1>1, <1>4 DEF CallCreate, CallDecide, CallRebuild, Enter, Put, NoJob
  <1>5. ASSUME NEW t \in Tasks, Load(t)
        PROVE  job'[u] = job[u]
    BY <1>1, <1>2, <1>5 DEF Load, Put, Job
  <1>6. ASSUME NEW t \in Tasks,
               AppendEntry(t) \/ Clear(t) \/ Scan(t) \/ ReadEvents(t) \/ RebuildReturns(t)
        PROVE  job'[u] = job[u]
    BY <1>1, <1>2, <1>6 DEF AppendEntry, Clear, Scan, ReadEvents, RebuildReturns, Put, Job
  <1>7. ASSUME NEW t \in Tasks, Upsert(t)
        PROVE  job'[u] = job[u]
    BY <1>1, <1>2, <1>7 DEF Upsert, Put, NoJob
  <1>8. ASSUME NEW t \in Tasks, Recompute(t) \/ Announce(t)
        PROVE  job'[u] = job[u]
    BY <1>1, <1>8 DEF Recompute, Announce, Put
  <1>9. ASSUME NEW t \in Tasks, CallFails(t) \/ PolicyMismatch(t)
        PROVE  /\ job[u].step = "upsert" /\ job'[u].req = job[u].req
               /\ job'[u].record = job[u].record /\ job'[u].last_seq = job[u].last_seq
    BY <1>1, <1>2, <1>9 DEF CallFails, PolicyMismatch, Ends, Job
  <1> QED
    BY <1>3, <1>4, <1>5, <1>6, <1>7, <1>8, <1>9 DEF Next

(* Asking is inductive. *)
LEMMA AskingStays ==
    ASSUME Typed, Asking, [Next]_vars
    PROVE  Asking'
  <1>1. ledger \in Seq(Entry) /\ \A t \in Tasks : Fit(job[t]) /\ Grounded(job[t])
    BY DEF Typed
  <1>2. ASSUME NEW r \in Requests, NEW v \in views'[r]
        PROVE  DecidersAfter(r, v.last_seq) \cap v.pending_for = {}
    <2>1. CASE v \in views[r]
      <3>1. v.last_seq \in 1 .. Len(ledger)
        BY <2>1, PositionsAreInLog DEF Typed, RowsFit
      <3> QED
        BY <2>1, <3>1, DecidersStay DEF Asking
    <2>2. CASE v \notin views[r]
      <3>1. PICK t \in Tasks, p \in InForce :
              /\ Upsert(t) /\ job[t].req = r
              /\ v = BuildView(job[t].record, p, job[t].created_at, job[t].last_seq)
        BY <2>2, OnlyUpsertsWrite DEF PolicyUnder, InForce
      <3>2. job[t].step = "upsert" /\ job[t].last_seq \in 1 .. Len(ledger)
        BY <1>1, <3>1, PositionsAreInLog DEF Upsert, At, Grounded, Busy
      <3>3. /\ v.last_seq = job[t].last_seq
            /\ v.pending_for = IF job[t].record.status = "pending"
                               THEN EligibleApprovers(p) \ job[t].record.decided ELSE {}
        BY <3>1 DEF BuildView
      <3>4. job[t].record.status = "pending" =>
                Deciders(r, v.last_seq) \subseteq job[t].record.decided
        BY <3>1, <3>2, <3>3 DEF Asking
      <3>5. Deciders(r, v.last_seq) \cap v.pending_for = {}
        BY <3>3, <3>4
      <3> QED
        BY <3>2, <3>3, <3>5, DecidersStay
    <2> QED
      BY <2>1, <2>2
  <1>3. ASSUME NEW u \in Tasks, job'[u].step = "upsert", job'[u].record.status = "pending"
        PROVE  DecidersAfter(job'[u].req, job'[u].last_seq) \subseteq job'[u].record.decided
    <2>1. CASE Recompute(u)
      <3> DEFINE record == RecordOf(job[u].req, job[u].created_at)
      <3>1. /\ job'[u].record = record /\ job'[u].req = job[u].req
            /\ job'[u].last_seq = job[u].last_seq
        <4> HIDE DEF record
        <4> QED
          BY <2>1 DEF Recompute, Put, Typed, Job, record
      <3>2. job[u].last_seq \in 1 .. Len(ledger)
        BY <1>1, <2>1, PositionsAreInLog DEF Recompute, At, Grounded, Busy
      <3>3. Deciders(job[u].req, job[u].last_seq) \subseteq record.decided
        BY <1>1, RecordIsARecord
      <3> QED
        BY <3>1, <3>2, <3>3, DecidersStay
    <2>2. CASE Announce(u)
      <3>1. job'[u].record = job[u].record
        BY <2>2 DEF Announce, Put, Typed, Job
      <3> QED
        BY <1>1, <1>3, <2>2, <3>1 DEF Announce, At, Fit
    <2>3. CASE ~Recompute(u) /\ ~Announce(u)
      <3>1. /\ job[u].step = "upsert" /\ job'[u].req = job[u].req
            /\ job'[u].record = job[u].record /\ job'[u].last_seq = job[u].last_seq
        BY <1>3, <2>3, UpsertsAreReached
      <3>2. job[u].last_seq \in 1 .. Len(ledger)
        BY <1>1, <3>1, PositionsAreInLog DEF Grounded, Busy
      <3>3. Deciders(job[u].req, job[u].last_seq) \subseteq job[u].record.decided
        BY <1>3, <3>1 DEF Asking
      <3> QED
        BY <3>1, <3>2, <3>3, DecidersStay
    <2> QED
      BY <2>1, <2>2, <2>3
  <1> QED
    BY <1>2, <1>3 DEF Asking, Deciders, DecidersAfter, Positions

(* ReadModel's NobodyAskedTwice: no view asks somebody whose decision the  *)
(* log has at or before the seq the view is for, whether the view comes    *)
(* from a create, from a decision others have overtaken, or from a rebuild *)
(* that computed its record from a longer log than its seq is of.          *)
THEOREM NobodyAskedTwiceHolds == Spec => []NobodyAskedTwice
  <1>1. Init => Asking
    BY DEF Init, Asking, NoJob
  <1>2. Typed /\ Asking /\ [Next]_vars => Asking'
    BY AskingStays
  <1>3. Asking => NobodyAskedTwice
    <2> SUFFICES ASSUME Asking, NEW r \in Requests, NEW v \in views[r],
                        NEW i \in DOMAIN DecisionsFor(r), i <= v.last_seq
                 PROVE  DecisionsFor(r)[i].approver \notin v.pending_for
      BY DEF NobodyAskedTwice
    <2>1. /\ i \in Positions(r) /\ ledger[i].type = "decision.recorded"
          /\ DecisionsFor(r)[i].approver = ledger[i].ballot.approver
      BY DEF DecisionsFor
    <2>2. DecisionsFor(r)[i].approver \in Deciders(r, v.last_seq)
      BY <2>1 DEF Deciders
    <2> QED
      BY <2>2 DEF Asking
  <1> QED
    BY <1>1, <1>2, <1>3, AlwaysTyped, PTL DEF Spec

-----------------------------------------------------------------------------
(* Quiet views are complete.                                               *)

(* The view of r is up to date. *)
Current(r) == \E v \in views[r] : v.last_seq = LastSeq(Positions(r))

(* Or a call will bring it there: one that is about to write it for the    *)
(* last entry, or about to append another; or a rebuild that has yet to    *)
(* read the entries of r.                                                  *)
Writing(j, r) ==
    /\ j.req = r
    /\ \/ j.step = "announce"
       \/ j.step \in {"recompute", "upsert"} /\ j.last_seq = LastSeq(Positions(r))

Rebuilding(j, r) ==
    /\ j.kind = "rebuild"
    /\ \/ j.step = "scan"
       \/ j.step = "next" /\ r \in j.todo
       \/ j.step \in {"recompute", "upsert"} /\ r \in j.todo \ {j.req}

Covers(j, r) == Writing(j, r) \/ Rebuilding(j, r)

Covered(r) == Current(r) \/ \E t \in Tasks : Covers(job[t], r)

(* Those that ought to have a view, now or once a rebuild has mended them. *)
Owed(r) ==
    /\ Creations(r) # {}
    /\ r \notin spoilt \/ \E t \in Tasks : r \in job[t].mends

(* What QuietViewsAreComplete takes to be inductive. *)
Covering == \A r \in Requests : Owed(r) => Covered(r)

(* Nothing a step does to others disturbs what covers r, if what it does   *)
(* itself still does.                                                      *)
LEMMA CoverIsPassedOn ==
    ASSUME Typed, Covering, NEW r \in Requests, NEW t \in Tasks, NEW k,
           job' = [job EXCEPT ![t] = k], UNCHANGED <<ledger, spoilt>>,
           k.mends \subseteq job[t].mends,
           Current(r) => Current(r)',
           Creations(r) # {} /\ Covers(job[t], r) => Covers(k, r)
    PROVE  Owed(r)' => Covered(r)'
  <1> SUFFICES ASSUME Owed(r)'
               PROVE  Covered(r)'
    OBVIOUS
  <1>1. job \in [Tasks -> Job]
    BY DEF Typed
  <1>2. /\ job'[t] = k
        /\ \A u \in Tasks : u # t => job'[u] = job[u]
        /\ \A u \in Tasks : job'[u].mends \subseteq job[u].mends
    BY <1>1
  <1>3. Positions(r)' = Positions(r) /\ Creations(r)' = Creations(r)
    BY DEF Positions, Creations
  <1>4. Owed(r)
    BY <1>2, <1>3 DEF Owed
  <1>5. ASSUME NEW u \in Tasks, Covers(job'[u], r)
        PROVE  Covered(r)'
    BY <1>3, <1>5 DEF Covered, Covers, Writing, Rebuilding
  <1>6. CASE Current(r)
    BY <1>6 DEF Covered
  <1>7. ASSUME NEW u \in Tasks, Covers(job[u], r)
        PROVE  Covers(job'[u], r)
    BY <1>2, <1>4, <1>7 DEF Owed
  <1> QED
    BY <1>4, <1>5, <1>6, <1>7 DEF Covering, Covered

(* A call begins: it was idle and covered nothing.                         *)
LEMMA CoverWhenCalled ==
    ASSUME Typed, Covering, NEW r \in Requests, NEW t \in Tasks,
           CallCreate(t) \/ CallDecide(t) \/ CallRebuild(t)
    PROVE  Owed(r)' => Covered(r)'
  <1>1. ~Covers(job[t], r)
    BY DEF CallCreate, CallDecide, CallRebuild, Enter, At, Covers, Writing, Rebuilding
  <1>2. ASSUME NEW k, Enter(t, k), k.mends = {}
        PROVE  Owed(r)' => Covered(r)'
    <2>1. /\ job' = [job EXCEPT ![t] = k]
          /\ UNCHANGED <<ledger, spoilt>>
          /\ views' = views
      BY <1>2 DEF Enter, Put
    <2>2. Current(r) => Current(r)'
      BY <2>1 DEF Current, Positions
    <2> QED
      BY <1>1, <1>2, <2>1, <2>2, CoverIsPassedOn
  <1>3. /\ \A q, at : [NoJob EXCEPT !.step = "load", !.kind = "create", !.req = q,
                                     !.created_at = at].mends = {}
        /\ \A q, b : [NoJob EXCEPT !.step = "load", !.kind = "decide", !.req = q,
                                    !.ballot = {b}].mends = {}
        /\ [NoJob EXCEPT !.step = "clear", !.kind = "rebuild"].mends = {}
    BY DEF NoJob
  <1> QED
    BY <1>2, <1>3 DEF CallCreate, CallDecide, CallRebuild

(* A step that neither appends nor writes. *)
LEMMA CoverOfACall ==
    ASSUME Typed, Covering, NEW r \in Requests, NEW t \in Tasks,
           Load(t) \/ Recompute(t) \/ Scan(t) \/ ReadEvents(t)
    PROVE  Owed(r)' => Covered(r)'
  <1> DEFINE j == job[t]
  <1>1. j \in Job /\ Fit(j) /\ Grounded(j) /\ ledger \in Seq(Entry) /\ Bounded
    BY DEF Typed
  <1>2. UNCHANGED <<ledger, spoilt>> /\ views' = views
    BY DEF Load, Recompute, Scan, ReadEvents
  <1>3. Current(r) => Current(r)'
    BY <1>2 DEF Current, Positions
  <1>4. ASSUME NEW k, job' = [job EXCEPT ![t] = k], k.mends \subseteq j.mends,
               Creations(r) # {} /\ Covers(j, r) => Covers(k, r)
        PROVE  Owed(r)' => Covered(r)'
    BY <1>2, <1>3, <1>4, CoverIsPassedOn
  <1>5. CASE Load(t)
    <2>1. ~Covers(j, r)
      BY <1>5 DEF Load, At, Covers, Writing, Rebuilding
    <2> DEFINE a == [j EXCEPT !.step = "append"]
               b == [j EXCEPT !.step = "append", !.created_at = FirstBody(j.req)]
    <2>2. a.mends = j.mends /\ b.mends = j.mends /\ NoJob.mends = {}
      BY <1>1, NoJobFits DEF Job
    <2>3. \/ job' = [job EXCEPT ![t] = NoJob]
          \/ job' = [job EXCEPT ![t] = a]
          \/ job' = [job EXCEPT ![t] = b]
      BY <1>5 DEF Load, Put
    <2> HIDE DEF a, b, j
    <2> QED
      BY <1>4, <2>1, <2>2, <2>3
  <1>6. CASE Recompute(t)
    <2> DEFINE record == RecordOf(j.req, j.created_at)
               k == [j EXCEPT !.record = record, !.seen = replaced,
                              !.step = IF j.kind = "decide" /\ record.status # "pending"
                                       THEN "announce" ELSE "upsert"]
    <2>1. job' = [job EXCEPT ![t] = k] /\ j.step = "recompute"
      BY <1>6 DEF Recompute, Put, At
    <2> HIDE DEF record
    <2>2. /\ k.mends = j.mends /\ k.req = j.req /\ k.kind = j.kind /\ k.todo = j.todo
          /\ k.last_seq = j.last_seq
          /\ k.step \in {"announce", "upsert"} /\ (j.kind = "rebuild" => k.step = "upsert")
      BY <1>1 DEF Job
    <2> HIDE DEF j, k
    <2>3. Covers(j, r) => Covers(k, r)
      BY <2>1, <2>2 DEF Covers, Writing, Rebuilding
    <2> QED
      BY <1>4, <2>1, <2>2, <2>3
  <1>7. CASE Scan(t)
    <2> DEFINE k == [j EXCEPT !.step = "next", !.todo = {q \in Requests : Creations(q) # {}}]
    <2>1. job' = [job EXCEPT ![t] = k] /\ j.kind = "rebuild"
      BY <1>1, <1>7 DEF Scan, Put, At, Fit
    <2>2. /\ k.mends = j.mends /\ k.kind = "rebuild" /\ k.step = "next"
          /\ k.todo = {q \in Requests : Creations(q) # {}}
      BY <1>1, <2>1 DEF Job
    <2> HIDE DEF k
    <2>3. Creations(r) # {} => Covers(k, r)
      BY <2>2 DEF Covers, Rebuilding
    <2> QED
      BY <1>4, <2>1, <2>2, <2>3
  <1>8. CASE ReadEvents(t)
    <2> DEFINE q == NextOf(j.todo)
               k == [j EXCEPT !.step = "recompute", !.req = q, !.created_at = FirstBody(q),
                              !.seen = replaced, !.last_seq = LastSeq(Positions(q))]
    <2> HIDE DEF q
    <2>1. job' = [job EXCEPT ![t] = k] /\ j.step = "next"
      BY <1>8 DEF ReadEvents, Put, At, q
    <2>2. /\ k.mends = j.mends /\ k.kind = j.kind /\ k.step = "recompute"
          /\ k.todo = j.todo /\ k.req = q /\ k.last_seq = LastSeq(Positions(q))
      BY <1>1 DEF Job
    <2> HIDE DEF j, k
    <2>3. Covers(j, r) => Covers(k, r)
      BY <2>1, <2>2 DEF Covers, Writing, Rebuilding
    <2> QED
      BY <1>4, <2>1, <2>2, <2>3
  <1> QED
    BY <1>5, <1>6, <1>7, <1>8

(* A call that appends will write what it appended. *)
LEMMA CoverWhenAppended ==
    ASSUME Typed, Covering, NEW r \in Requests, NEW t \in Tasks, AppendEntry(t) \/ Announce(t)
    PROVE  Owed(r)' => Covered(r)'
  <1> SUFFICES ASSUME Owed(r)'
               PROVE  Covered(r)'
    OBVIOUS
  <1> DEFINE j == job[t]
  <1>1. job \in [Tasks -> Job] /\ j \in Job /\ ledger \in Seq(Entry) /\ Bounded
    BY DEF Typed
  <1>2. PICK e \in Entry : e.req = j.req /\ ledger' = Append(ledger, e)
    BY CallsAppend
  <1>3. /\ ledger' \in Seq(Entry) /\ Len(ledger) \in Nat /\ Len(ledger') = Len(ledger) + 1
        /\ Bounded'
        /\ Positions(r)' = Positions(r) \cup (IF e.req = r THEN {Len(ledger) + 1} ELSE {})
        /\ e.req # r => Creations(r)' = Creations(r)
    BY <1>1, <1>2, AppendAdds
  <1>4. UNCHANGED <<views, spoilt>>
    BY DEF AppendEntry, Announce
  <1>5. /\ \A u \in Tasks : u # t => job'[u] = job[u]
        /\ job'[t].step \in {"recompute", "upsert"} /\ job'[t].last_seq = Len(ledger) + 1
        /\ job'[t].req = j.req /\ job'[t].mends = j.mends
    <2>1. PICK step \in {"recompute", "upsert"} :
              job' = [job EXCEPT ![t] = [j EXCEPT !.step = step, !.last_seq = Len(ledger) + 1,
                                                  !.seen = replaced]]
      BY DEF AppendEntry, Announce, Put
    <2> DEFINE k == [j EXCEPT !.step = step, !.last_seq = Len(ledger) + 1, !.seen = replaced]
    <2>2. /\ k.step = step /\ k.last_seq = Len(ledger) + 1
          /\ k.req = j.req /\ k.mends = j.mends
      BY <1>1 DEF Job
    <2> HIDE DEF k
    <2>3. job' = [job EXCEPT ![t] = k]
      BY <2>1 DEF k
    <2> QED
      BY <1>1, <2>2, <2>3
  <1>6. CASE j.req = r
    <2>1. \A i \in Positions(r) : i \in 1 .. Len(ledger)
      BY <1>1, PositionsAreInLog
    <2>2. LastSeq(Positions(r)') = Len(ledger) + 1
      <3> DEFINE P == Positions(r)'
                 n == Len(ledger) + 1
      <3>1. n \in P /\ \A i \in P : i \in Nat /\ i <= n
        BY <1>2, <1>3, <1>6, <2>1
      <3>2. P # {} /\ \A i \in P : (\A x \in P : x <= i) => i = n
        BY <3>1
      <3> HIDE DEF P, n
      <3>3. LastSeq(P) = n
        BY <3>1, <3>2 DEF LastSeq
      <3> QED
        BY <3>3 DEF P, n
    <2>3. Writing(job[t], r)'
      BY <1>5, <1>6, <2>2 DEF Writing, LastSeq
    <2> QED
      BY <2>3 DEF Covered, Covers
  <1>7. CASE j.req # r
    <2>1. Positions(r)' = Positions(r) /\ Creations(r)' = Creations(r)
      BY <1>2, <1>3, <1>7
    <2>2. Owed(r)
      BY <1>4, <1>5, <2>1 DEF Owed
    <2>3. ~Covers(j, r)
      BY <1>7 DEF Covers, Writing, Rebuilding, AppendEntry, Announce, At
    <2>4. ASSUME NEW u \in Tasks, Covers(job[u], r)
          PROVE  Covered(r)'
      <3>1. job'[u] = job[u]
        BY <1>5, <2>3, <2>4
      <3>2. Covers(job[u], r)'
        BY <2>1, <2>4, <3>1 DEF Covers, Writing, Rebuilding, LastSeq
      <3> QED
        BY <3>2 DEF Covered
    <2>5. CASE Current(r)
      BY <1>4, <2>1, <2>5 DEF Covered, Current, LastSeq
    <2> QED
      BY <2>2, <2>4, <2>5 DEF Covering, Covered
  <1> QED
    BY <1>6, <1>7

(* An upsert leaves the view at the last entry if it, or the row it finds, *)
(* is for that; else it was not this call that covered the request.        *)
LEMMA CoverWhenUpserted ==
    ASSUME Typed, Covering, NEW r \in Requests, NEW t \in Tasks, Upsert(t)
    PROVE  Owed(r)' => Covered(r)'
  <1> DEFINE j == job[t]
             n == [NoJob EXCEPT !.step = "next", !.kind = "rebuild",
                                !.todo = j.todo \ {j.req}, !.mends = j.mends]
             k == IF j.kind = "rebuild" THEN n ELSE NoJob
  <1>1. /\ j \in Job /\ Grounded(j) /\ ledger \in Seq(Entry) /\ Bounded /\ RowsFit(views)
    BY DEF Typed
  <1>2. PICK v : /\ j.step = "upsert" /\ UNCHANGED <<ledger, spoilt>>
                 /\ views' = Upserted(j.req, v) /\ job' = [job EXCEPT ![t] = k]
                 /\ v.last_seq = j.last_seq
    <2>1. PICK changed \in {j.seen, replaced} :
              views' = Upserted(j.req, BuildView(j.record, PolicyUnder(changed),
                                                 j.created_at, j.last_seq))
      BY DEF Upsert
    <2>2. BuildView(j.record, PolicyUnder(changed), j.created_at, j.last_seq).last_seq
             = j.last_seq
      BY DEF BuildView
    <2> QED
      BY <2>1, <2>2 DEF Upsert, Put, At
  <1>3. v.last_seq = j.last_seq
    BY <1>2
  <1>4. /\ k.mends \subseteq j.mends
        /\ j.kind = "rebuild" => /\ k.kind = "rebuild" /\ k.step = "next"
                                /\ k.todo = j.todo \ {j.req}
    BY DEF NoJob
  <1> HIDE DEF k
  <1>5. j.req \in Requests /\ j.last_seq \in Positions(j.req)
    BY <1>1, <1>2 DEF Grounded, Busy
  <1>6. CASE j.req = r /\ j.last_seq = LastSeq(Positions(r))
    <2>1. \A i \in Positions(r) : i <= j.last_seq /\ i \in Nat
      BY <1>1, <1>5, <1>6, LastSeqIsLast, PositionsAreInLog
    <2>2. ~\E row \in views[r] : row.last_seq > v.last_seq
      BY <1>1, <1>3, <1>5, <1>6, <2>1 DEF RowsFit
    <2>3. views'[r] = {v}
      BY <1>1, <1>2, <1>6, <2>2 DEF Upserted, RowsFit
    <2>4. Current(r)'
      BY <1>2, <1>3, <1>6, <2>3 DEF Current, Positions, LastSeq
    <2> QED
      BY <2>4 DEF Covered
  <1>7. CASE j.req = r /\ j.last_seq # LastSeq(Positions(r))
    <2>1. ~Covers(j, r)
      BY <1>2, <1>7 DEF Covers, Writing, Rebuilding
    <2>2. Current(r) => Current(r)'
      <3> SUFFICES ASSUME NEW row \in views[r], row.last_seq = LastSeq(Positions(r))
                   PROVE  Current(r)'
        BY DEF Current
      <3>1. row.last_seq > j.last_seq
        <4>1. /\ LastSeq(Positions(r)) \in Positions(r)
              /\ j.last_seq <= LastSeq(Positions(r))
          BY <1>1, <1>5, <1>7, LastSeqIsLast
        <4>2. \A i \in Positions(r) : i \in Nat
          BY <1>1, PositionsAreInLog
        <4> QED
          BY <1>5, <1>7, <4>1, <4>2
      <3>2. views'[r] = views[r]
        BY <1>1, <1>2, <1>3, <1>7, <3>1 DEF Upserted, RowsFit
      <3> QED
        BY <1>2, <3>2 DEF Current, Positions, LastSeq
    <2> HIDE DEF j
    <2> QED
      BY <1>2, <1>4, <2>1, <2>2, CoverIsPassedOn DEF j
  <1>8. CASE j.req # r
    <2>1. views'[r] = views[r]
      BY <1>1, <1>2, <1>8 DEF Upserted, RowsFit
    <2>2. Current(r) => Current(r)'
      BY <1>2, <2>1 DEF Current, Positions, LastSeq
    <2>3. Covers(j, r) => Covers(k, r)
      BY <1>2, <1>4, <1>8 DEF Covers, Writing, Rebuilding
    <2> QED
      BY <1>2, <1>4, <2>2, <2>3, CoverIsPassedOn
  <1> QED
    BY <1>6, <1>7, <1>8

(* What is deleted, the rebuild that deletes it will write.                *)
LEMMA CoverWhenCleared ==
    ASSUME Typed, NEW r \in Requests, NEW t \in Tasks, Clear(t)
    PROVE  Covered(r)'
  <1> DEFINE k == [job[t] EXCEPT !.step = "scan", !.mends = spoilt]
  <1>1. job \in [Tasks -> Job] /\ job[t] \in Job /\ Fit(job[t])
    BY DEF Typed
  <1>2. job[t].kind = "rebuild" /\ job' = [job EXCEPT ![t] = k]
    BY <1>1 DEF Clear, At, Put, Fit
  <1>3. job'[t] = k /\ k.step = "scan" /\ k.kind = "rebuild"
    BY <1>1, <1>2 DEF Job
  <1> HIDE DEF k
  <1>4. Covers(job[t], r)'
    BY <1>3 DEF Covers, Rebuilding
  <1> QED
    BY <1>4 DEF Covered

(* A rebuild returns: it has nothing left that it would cover, and it is   *)
(* only what it was to mend that is no longer spoilt.                      *)
LEMMA CoverWhenReturned ==
    ASSUME Typed, Covering, NEW r \in Requests, NEW t \in Tasks, RebuildReturns(t)
    PROVE  Owed(r)' => Covered(r)'
  <1> SUFFICES ASSUME Owed(r)'
               PROVE  Covered(r)'
    OBVIOUS
  <1>1. job \in [Tasks -> Job]
    BY DEF Typed
  <1>2. /\ job[t].step = "next" /\ job[t].todo = {}
        /\ job'[t].mends = {}
        /\ \A u \in Tasks : u # t => job'[u] = job[u]
        /\ UNCHANGED <<ledger, views>> /\ spoilt' = spoilt \ job[t].mends
    BY <1>1, NoJobFits DEF RebuildReturns, At, Put
  <1>3. Positions(r)' = Positions(r) /\ Creations(r)' = Creations(r)
    BY <1>2 DEF Positions, Creations
  <1>4. Owed(r)
    BY <1>2, <1>3 DEF Owed
  <1>5. ~Covers(job[t], r)
    BY <1>2 DEF Covers, Writing, Rebuilding
  <1>6. ASSUME NEW u \in Tasks, Covers(job[u], r)
        PROVE  Covered(r)'
    <2>1. job'[u] = job[u]
      BY <1>2, <1>5, <1>6
    <2>2. Covers(job[u], r)'
      BY <1>3, <1>6, <2>1 DEF Covers, Writing, Rebuilding, LastSeq
    <2> QED
      BY <2>2 DEF Covered
  <1>7. CASE Current(r)
    BY <1>2, <1>3, <1>7 DEF Covered, Current, LastSeq
  <1> QED
    BY <1>4, <1>6, <1>7 DEF Covering, Covered

(* What a call covered that fails is spoilt, and no rebuild that is under  *)
(* way may say it mended it.                                               *)
LEMMA CoverWhenEnded ==
    ASSUME Typed, Covering, NEW r \in Requests, NEW t \in Tasks,
           CallFails(t) \/ PolicyMismatch(t)
    PROVE  Owed(r)' => Covered(r)'
  <1> SUFFICES ASSUME Owed(r)'
               PROVE  Covered(r)'
    OBVIOUS
  <1> DEFINE S == Spoils(job[t])
  <1>1. job \in [Tasks -> Job]
    BY DEF Typed
  <1>2. /\ Ends(t) /\ ledger' = ledger /\ views' = views
        /\ spoilt' = spoilt \cup S
    BY DEF CallFails, PolicyMismatch, Ends
  <1>3. ASSUME NEW u \in Tasks, u # t
        PROVE  /\ job'[u].mends = job[u].mends \ S
               /\ Covers(job'[u], r) <=> Covers(job[u], r)
    <2> DEFINE k == [job[u] EXCEPT !.mends = @ \ S]
    <2>1. job'[u] = k
      BY <1>2, <1>3 DEF Ends
    <2>2. job[u] \in Job
      BY <1>1
    <2> HIDE DEF S
    <2>3. /\ k.mends = job[u].mends \ S
          /\ k.step = job[u].step /\ k.kind = job[u].kind /\ k.req = job[u].req
          /\ k.todo = job[u].todo /\ k.last_seq = job[u].last_seq
      BY <2>2 DEF Job
    <2> HIDE DEF k
    <2> QED
      BY <2>1, <2>3 DEF Covers, Writing, Rebuilding
  <1>4. job'[t].mends = {}
    BY <1>2, NoJobFits DEF Ends
  <1>5. Positions(r)' = Positions(r) /\ Creations(r)' = Creations(r)
    BY <1>2 DEF Positions, Creations
  <1>6. Covers(job[t], r) => r \in S
    <2>1. Creations(r) # {}
      BY <1>5 DEF Owed
    <2> QED
      BY <2>1 DEF Covers, Writing, Rebuilding, Spoils
  <1> HIDE DEF S
  <1>7. Owed(r) /\ r \notin S
    BY <1>2, <1>3, <1>4, <1>5 DEF Owed
  <1>8. ASSUME NEW u \in Tasks, Covers(job[u], r)
        PROVE  Covered(r)'
    <2>1. Covers(job'[u], r)
      BY <1>3, <1>6, <1>7, <1>8
    <2>2. Covers(job[u], r)'
      BY <1>5, <2>1 DEF Covers, Writing, Rebuilding, LastSeq
    <2> QED
      BY <2>2 DEF Covered
  <1>9. CASE Current(r)
    BY <1>2, <1>5, <1>9 DEF Covered, Current, LastSeq
  <1> QED
    BY <1>7, <1>8, <1>9 DEF Covering, Covered

(* The other steps are not about any of it. *)
LEMMA CoverOtherwise ==
    ASSUME Covering, NEW r \in Requests,
           ReplacePolicy \/ OpenListing \/ Query \/ UNCHANGED vars
    PROVE  Owed(r)' => Covered(r)'
  <1>1. UNCHANGED <<ledger, views, job, spoilt>>
    BY DEF ReplacePolicy, OpenListing, Query, vars
  <1>2. Owed(r)' => Owed(r)
    BY <1>1 DEF Owed, Creations, Positions
  <1>3. Covered(r) => Covered(r)'
    BY <1>1 DEF Covered, Current, Covers, Writing, Rebuilding, Positions, LastSeq
  <1> QED
    BY <1>2, <1>3 DEF Covering

(* Covering is kept. *)
LEMMA CoveringStays ==
    ASSUME Typed, Covering, [Next]_vars
    PROVE  Covering'
  <1> SUFFICES ASSUME NEW r \in Requests
               PROVE  Owed(r)' => Covered(r)'
    BY DEF Covering
  <1>1. CASE ReplacePolicy \/ OpenListing \/ Query \/ UNCHANGED vars
    BY <1>1, CoverOtherwise
  <1>2. ASSUME NEW t \in Tasks, CallCreate(t) \/ CallDecide(t) \/ CallRebuild(t)
        PROVE  Owed(r)' => Covered(r)'
    BY <1>2, CoverWhenCalled
  <1>3. ASSUME NEW t \in Tasks, Load(t) \/ Recompute(t) \/ Scan(t) \/ ReadEvents(t)
        PROVE  Owed(r)' => Covered(r)'
    BY <1>3, CoverOfACall
  <1>4. ASSUME NEW t \in Tasks, AppendEntry(t) \/ Announce(t)
        PROVE  Owed(r)' => Covered(r)'
    BY <1>4, CoverWhenAppended
  <1>5. ASSUME NEW t \in Tasks, Upsert(t) \/ Clear(t) \/ RebuildReturns(t)
        PROVE  Owed(r)' => Covered(r)'
    BY <1>5, CoverWhenUpserted, CoverWhenCleared, CoverWhenReturned
  <1>6. ASSUME NEW t \in Tasks, CallFails(t) \/ PolicyMismatch(t)
        PROVE  Owed(r)' => Covered(r)'
    BY <1>6, CoverWhenEnded
  <1> QED
    BY <1>1, <1>2, <1>3, <1>4, <1>5, <1>6 DEF Next

(* ReadModel's QuietViewsAreComplete: with nothing under way, each request *)
(* that no call failed on has a view for its last entry, however creates,  *)
(* decisions and rebuilds overlapped before (rebuild_projections).         *)
THEOREM QuietViewsAreCompleteHolds == Spec => []QuietViewsAreComplete
  <1>1. Init => Covering
    BY DEF Init, Covering, Owed, Creations, Positions
  <1>2. Typed /\ Covering /\ [Next]_vars => Covering'
    BY CoveringStays
  <1>3. Covering => QuietViewsAreComplete
    <2> SUFFICES ASSUME Covering, Quiet, NEW r \in Requests \ spoilt, Creations(r) # {}
                 PROVE  Current(r)
      BY DEF QuietViewsAreComplete, Current
    <2>1. \A t \in Tasks : ~Covers(job[t], r)
      BY DEF Quiet, At, Covers, Writing, Rebuilding
    <2> QED
      BY <2>1 DEF Covering, Owed, Covered
  <1> QED
    BY <1>1, <1>2, <1>3, AlwaysTyped, PTL DEF Spec

-----------------------------------------------------------------------------
(* Paging.                                                                 *)

AllKeys == [created_at : Int, id : Int]

(* Those of S that come before r. *)
Preceding(S, r) == {q \in S : Before(KeyNow(q), KeyNow(r))}

(* Some numbers have a least one: what stands in for induction below. *)
LEMMA NatHasLeast ==
    ASSUME NEW T \in SUBSET Nat, T # {}
    PROVE  \E x \in T : \A y \in T : x <= y
  <1>1. IsWellFoundedOn(OpToRel(<, Nat), Nat)
    BY NatLessThanWellFounded
  <1>2. \E x \in T : \A y \in T : ~(<<y, x>> \in OpToRel(<, Nat))
    BY <1>1, WFMin
  <1>3. PICK x \in T : \A y \in T : ~(<<y, x>> \in OpToRel(<, Nat))
    BY <1>2
  <1>4. \A y \in T : y < x => <<y, x>> \in OpToRel(<, Nat)
    BY DEF OpToRel
  <1>5. \A y \in T : ~(y < x)
    BY <1>3, <1>4
  <1> QED
    BY <1>5

(* Keys are ordered, and different ids have different keys. *)
LEMMA BeforeOrdersKeys ==
    /\ \A k \in AllKeys : ~Before(k, k)
    /\ \A k, l, m \in AllKeys : Before(k, l) /\ Before(l, m) => Before(k, m)
    /\ \A k, l \in AllKeys : k.id # l.id => Before(k, l) \/ Before(l, k)
  BY DEF AllKeys, Before

(* What matches has a row, and a key of its own. *)
LEMMA MatchesHaveKeys ==
    ASSUME Typed, NEW r \in Matching(views)
    PROVE  /\ r \in Requests
           /\ \A v \in views[r] : KeyNow(r) = Key(r, v)
           /\ KeyNow(r) \in AllKeys /\ KeyNow(r).id = r
           /\ \E v \in views[r] : TRUE
  <1>1. r \in Requests /\ \E v \in views[r] : TRUE
    BY DEF Matching
  <1>2. /\ views[r] \subseteq View
        /\ \A v, w \in views[r] : v = w
    BY <1>1 DEF Typed, RowsFit
  <1>3. (CHOOSE v \in views[r] : TRUE) \in views[r]
    BY <1>1
  <1>4. \A v \in views[r] : KeyNow(r) = Key(r, v)
    BY <1>2, <1>3 DEF KeyNow
  <1>5. \A v \in views[r] : v.created_at \in Int
    BY <1>2, PagingAssumption DEF View, ViewsUnder
  <1> QED
    BY <1>1, <1>4, <1>5, PagingAssumption DEF Key, AllKeys

(* Rows are for entries of the log, so there are finitely many. *)
LEMMA MatchesAreFinite ==
    ASSUME Typed
    PROVE  IsFiniteSet(Matching(views))
  <1> DEFINE M == Matching(views)
             f == [r \in M |-> (CHOOSE v \in views[r] : TRUE).last_seq]
  <1>1. ledger \in Seq(Entry) /\ Len(ledger) \in Nat
    BY DEF Typed
  <1>2. ASSUME NEW r \in M
        PROVE  f[r] \in 1 .. Len(ledger) /\ ledger[f[r]].req = r
    <2>1. r \in Requests /\ (CHOOSE v \in views[r] : TRUE) \in views[r]
      BY MatchesHaveKeys
    <2>2. f[r] \in Positions(r)
      BY <2>1 DEF Typed, RowsFit
    <2> QED
      BY <1>1, <2>2 DEF Positions
  <1> HIDE DEF f
  <1>3. f \in [M -> 1 .. Len(ledger)]
    BY <1>2 DEF f
  <1>4. f \in Injection(M, 1 .. Len(ledger))
    BY <1>2, <1>3 DEF Injection, IsInjective
  <1>5. IsFiniteSet(1 .. Len(ledger))
    BY <1>1, FS_Interval
  <1> QED
    BY <1>4, <1>5, FS_Injection

(* Who comes later has more before him. *)
LEMMA LaterHasMoreBefore ==
    ASSUME Typed, NEW S \in SUBSET Matching(views), NEW p \in S, NEW q \in S
    PROVE  /\ Cardinality(Preceding(S, p)) \in Nat
           /\ Before(KeyNow(p), KeyNow(q)) =>
                 Cardinality(Preceding(S, p)) < Cardinality(Preceding(S, q))
  <1>1. IsFiniteSet(S)
    BY MatchesAreFinite, FS_Subset
  <1>2. /\ IsFiniteSet(Preceding(S, p)) /\ IsFiniteSet(Preceding(S, q))
        /\ Cardinality(Preceding(S, p)) \in Nat /\ Cardinality(Preceding(S, q)) \in Nat
    <2>1. Preceding(S, p) \subseteq S /\ Preceding(S, q) \subseteq S
      BY DEF Preceding
    <2> QED
      BY <1>1, <2>1, FS_Subset, FS_CardinalityType
  <1>3. ASSUME Before(KeyNow(p), KeyNow(q))
        PROVE  Cardinality(Preceding(S, p)) < Cardinality(Preceding(S, q))
    <2>1. \A r \in S : KeyNow(r) \in AllKeys
      BY MatchesHaveKeys
    <2>2. Preceding(S, p) \subseteq Preceding(S, q)
      BY <1>3, <2>1, BeforeOrdersKeys DEF Preceding
    <2>3. p \in Preceding(S, q) /\ p \notin Preceding(S, p)
      BY <1>3, <2>1, BeforeOrdersKeys DEF Preceding
    <2>4. /\ Cardinality(Preceding(S, p)) <= Cardinality(Preceding(S, q))
          /\ Cardinality(Preceding(S, p)) # Cardinality(Preceding(S, q))
      BY <1>2, <2>2, <2>3, FS_Subset
    <2> QED
      BY <1>2, <2>4
  <1> QED
    BY <1>2, <1>3

(* A page has a row if any are left, and a last one, which comes after all *)
(* others on it; what comes before a row on it is on it.                   *)
LEMMA PagesArePrefixes ==
    ASSUME Typed, NEW S \in SUBSET Matching(views), S # {}
    PROVE  /\ \E l \in FirstOf(S, Limit) :
                 \A q \in FirstOf(S, Limit) \ {l} : Before(KeyNow(q), KeyNow(l))
           /\ \A q \in FirstOf(S, Limit), p \in S :
                 Before(KeyNow(p), KeyNow(q)) => p \in FirstOf(S, Limit)
  <1> DEFINE Rank(r) == Cardinality(Preceding(S, r))
             page == FirstOf(S, Limit)
  <1>1. page = {r \in S : Rank(r) < Limit}
    BY DEF FirstOf, Preceding
  <1>2. \A r \in S : Rank(r) \in Nat
    BY LaterHasMoreBefore
  <1>3. \A p, q \in S : Before(KeyNow(p), KeyNow(q)) => Rank(p) < Rank(q)
    BY LaterHasMoreBefore
  <1>4. \A p, q \in S : p # q => Before(KeyNow(p), KeyNow(q)) \/ Before(KeyNow(q), KeyNow(p))
    <2>1. \A r \in S : KeyNow(r) \in AllKeys /\ KeyNow(r).id = r
      BY MatchesHaveKeys
    <2> QED
      BY <2>1, BeforeOrdersKeys
  <1>5. Limit \in Nat /\ Limit > 0
    BY PagingAssumption
  <1>6. \E r \in S : Preceding(S, r) = {}
    <2> HIDE DEF Rank
    <2> DEFINE ranks == {Rank(r) : r \in S}
    <2>1. \E x \in ranks : \A y \in ranks : x <= y
      <3>1. ranks \in SUBSET Nat /\ ranks # {}
        BY <1>2
      <3> HIDE DEF ranks
      <3> QED
        BY <3>1, NatHasLeast
    <2>2. PICK r \in S : \A q \in S : Rank(r) <= Rank(q)
      BY <2>1
    <2>3. \A q \in S : ~Before(KeyNow(q), KeyNow(r))
      BY <1>2, <1>3, <2>2
    <2> QED
      BY <2>3 DEF Preceding
  <1>7. page # {}
    <2>1. PICK r \in S : Preceding(S, r) = {}
      BY <1>6
    <2>2. Rank(r) = 0
      BY <2>1, FS_EmptySet
    <2> QED
      BY <1>1, <1>5, <2>2
  <1> HIDE DEF Rank, page
  <1>8. \E l \in page : \A q \in page \ {l} : Before(KeyNow(q), KeyNow(l))
    <2> DEFINE T == {Limit - Rank(r) : r \in page}
    <2>1. T \in SUBSET Nat /\ T # {}
      BY <1>1, <1>2, <1>5, <1>7
    <2>2. PICK l \in page : \A q \in page : Limit - Rank(l) <= Limit - Rank(q)
      <3> HIDE DEF T
      <3>1. \E x \in T : \A y \in T : x <= y
        BY <2>1, NatHasLeast
      <3> QED
        BY <3>1 DEF T
    <2>3. \A q \in page : ~(Rank(l) < Rank(q))
      BY <1>1, <1>2, <1>5, <2>2
    <2> QED
      BY <1>1, <1>3, <1>4, <2>3
  <1>9. \A q \in page, p \in S : Before(KeyNow(p), KeyNow(q)) => p \in page
    BY <1>1, <1>2, <1>3, <1>5
  <1> QED
    BY <1>8, <1>9 DEF page

(* Behind the next cursor is what was behind this one and not on the page. *)
LEMMA NextPageFollows ==
    ASSUME Typed, NEW cursor \in SUBSET AllKeys, Behind(cursor) # {}
    PROVE  /\ NextCursor(cursor) \in SUBSET AllKeys
           /\ Behind(NextCursor(cursor)) =
                 Behind(cursor) \ FirstOf(Behind(cursor), Limit)
  <1> DEFINE M == Matching(views)
             S == Behind(cursor)
             page == FirstOf(S, Limit)
             Last(l) == \A q \in page \ {l} : Before(KeyNow(q), KeyNow(l))
  <1>1. S \subseteq M /\ page \subseteq S
    BY DEF Behind, FirstOf
  <1>2. \A r \in M : KeyNow(r) \in AllKeys /\ KeyNow(r).id = r
    BY MatchesHaveKeys
  <1>3. /\ \E l \in page : Last(l)
        /\ \A q \in page, p \in S : Before(KeyNow(p), KeyNow(q)) => p \in page
    BY <1>1, PagesArePrefixes
  <1>4. S = {r \in M : \A k \in cursor : Before(k, KeyNow(r))}
    BY DEF Behind
  <1>5. LastKey(page) = {KeyNow(r) : r \in {q \in page : Last(q)}}
    BY DEF LastKey
  <1> HIDE DEF M, S, page
  <1>6. PICK l \in page : Last(l)
    BY <1>3
  <1>7. \A q \in page : Last(q) => q = l
    BY <1>1, <1>2, <1>6, BeforeOrdersKeys
  <1>8. LastKey(page) = {KeyNow(l)}
    BY <1>5, <1>6, <1>7
  <1>9. Behind({KeyNow(l)}) = {r \in M : Before(KeyNow(l), KeyNow(r))}
    BY DEF Behind, M
  <1>10. ASSUME NEW r \in M
         PROVE  Before(KeyNow(l), KeyNow(r)) <=> r \in S \ page
    <2>1. ASSUME Before(KeyNow(l), KeyNow(r))
          PROVE  r \in S \ page
      <3>1. r \in S
        BY <1>1, <1>2, <1>4, <2>1, BeforeOrdersKeys
      <3>2. r \notin page
        BY <1>1, <1>2, <1>6, <2>1, BeforeOrdersKeys
      <3> QED
        BY <3>1, <3>2
    <2>2. ASSUME r \in S \ page
          PROVE  Before(KeyNow(l), KeyNow(r))
      BY <1>1, <1>2, <1>3, <2>2, BeforeOrdersKeys
    <2> QED
      BY <2>1, <2>2
  <1>11. NextCursor(cursor) = LastKey(page)
    BY DEF NextCursor, page, S
  <1>12. l \in M /\ S \subseteq M
    BY <1>1, <1>6
  <1>13. NextCursor(cursor) \in SUBSET AllKeys
    BY <1>2, <1>8, <1>11, <1>12
  <1>14. Behind(NextCursor(cursor)) = S \ page
    BY <1>8, <1>9, <1>10, <1>11, <1>12
  <1> QED
    BY <1>13, <1>14 DEF S, page

Listing == [open : BOOLEAN, cursor : SUBSET AllKeys, got : [Requests -> Int],
            steady : SUBSET Requests, wrong : SUBSET Requests]

(* A list that has given nothing yet. *)
LEMMA ListingsStart ==
    /\ NoListing \in Listing
    /\ NoListing.wrong = {} /\ NoListing.cursor = {} /\ NoListing.steady = {}
    /\ \A r \in Requests : NoListing.got[r] = 0
  <1> DEFINE zero == [r \in Requests |-> 0]
  <1>1. /\ zero \in [Requests -> Int] /\ \A r \in Requests : zero[r] = 0
        /\ NoListing = [open |-> FALSE, cursor |-> {}, got |-> zero,
                        steady |-> {}, wrong |-> {}]
    BY DEF NoListing
  <1> HIDE DEF zero
  <1> QED
    BY <1>1 DEF Listing

(* What PagesExact takes to be inductive: of those it owes, the list has   *)
(* had once what its cursor has passed, and nothing of what is to come.    *)
Paged ==
    /\ listing \in Listing
    /\ listing.wrong = {}
    /\ listing.steady \subseteq Matching(views)
    /\ \A r \in listing.steady :
          listing.got[r] = IF r \in Behind(listing.cursor) THEN 0 ELSE 1

(* A page is given once each, and the last page leaves nothing out. *)
LEMMA PagedByQuery ==
    ASSUME Typed, Paged, Query
    PROVE  Paged'
  <1> DEFINE behind == Behind(listing.cursor)
             page == FirstOf(behind, Limit)
             got == [r \in Requests |-> listing.got[r] + IF r \in page THEN 1 ELSE 0]
             Done == [NoListing EXCEPT !.wrong = {r \in listing.steady : got[r] # 1}]
             Turned == [listing EXCEPT !.cursor = NextCursor(@), !.got = got]
  <1>1. /\ listing' = IF Cardinality(behind) > Limit THEN Turned ELSE Done
        /\ UNCHANGED <<ledger, views, replaced, calls, job, spoilt>>
    BY DEF Query
  <1>2. /\ page \subseteq behind /\ behind \subseteq Matching(views)
        /\ listing.steady \subseteq Requests /\ listing.cursor \in SUBSET AllKeys
    BY DEF FirstOf, Behind, Paged, Listing
  <1>3. got \in [Requests -> Int]
    BY DEF Paged, Listing
  <1>4. \A c : Behind(c)' = Behind(c)
    BY <1>1 DEF Behind, Matching, KeyNow
  <1>5. \A r \in listing.steady :
           got[r] = IF r \in behind THEN (IF r \in page THEN 1 ELSE 0) ELSE 1
    BY <1>2 DEF Paged
  <1>6. CASE Cardinality(behind) > Limit
    <2>1. behind # {}
      BY <1>6, FS_EmptySet, PagingAssumption
    <2>2. /\ NextCursor(listing.cursor) \in SUBSET AllKeys
          /\ Behind(NextCursor(listing.cursor)) = behind \ page
      BY <1>2, <2>1, NextPageFollows
    <2> HIDE DEF behind, page, got
    <2>3. /\ listing' = Turned
          /\ Turned.cursor = NextCursor(listing.cursor) /\ Turned.got = got
          /\ Turned.steady = listing.steady /\ Turned.wrong = {}
      BY <1>1, <1>6 DEF Paged, Listing
    <2>4. Turned \in Listing
      BY <1>3, <2>2 DEF Paged, Listing
    <2>5. ASSUME NEW r \in listing'.steady
          PROVE  listing'.got[r] = IF r \in Behind(listing'.cursor) THEN 0 ELSE 1
      BY <1>2, <1>5, <2>2, <2>3, <2>5
    <2>6. Matching(views') = Matching(views)
      BY <1>1
    <2> HIDE DEF Turned
    <2>7. \A r \in listing'.steady :
             listing'.got[r] = IF r \in Behind(listing.cursor)' THEN 0 ELSE 1
      <3>1. Behind(listing.cursor)' = Behind(listing'.cursor)
        BY <1>1 DEF Behind, Matching, KeyNow
      <3> QED
        BY <2>5, <3>1
    <2> QED
      BY <2>3, <2>4, <2>6, <2>7 DEF Paged
  <1>7. CASE ~(Cardinality(behind) > Limit)
    <2>1. behind \subseteq page
      <3> SUFFICES ASSUME NEW r \in behind
                   PROVE  Cardinality(Preceding(behind, r)) < Limit
        BY DEF FirstOf, Preceding
      <3>1. Preceding(behind, r) \subseteq behind /\ r \notin Preceding(behind, r)
        BY <1>2, MatchesHaveKeys, BeforeOrdersKeys DEF Preceding
      <3>2. IsFiniteSet(behind) /\ Cardinality(behind) \in Nat
        BY <1>2, MatchesAreFinite, FS_Subset, FS_CardinalityType
      <3>3. IsFiniteSet(Preceding(behind, r)) /\ Cardinality(Preceding(behind, r)) \in Nat
        BY <3>1, <3>2, FS_Subset, FS_CardinalityType
      <3>4. Cardinality(Preceding(behind, r)) < Cardinality(behind)
        BY <3>1, <3>2, <3>3, FS_Subset
      <3> QED
        BY <1>7, <3>2, <3>3, <3>4, PagingAssumption
    <2>2. \A r \in listing.steady : got[r] = 1
      BY <1>5, <2>1
    <2> HIDE DEF behind, page, got
    <2>3. {r \in listing.steady : got[r] # 1} = {}
      BY <2>2
    <2>4. listing' = [NoListing EXCEPT !.wrong = {}]
      BY <1>1, <1>7, <2>3
    <2>5. listing' \in Listing /\ listing'.wrong = {} /\ listing'.steady = {}
      BY <2>4, ListingsStart DEF Listing
    <2> QED
      BY <2>5 DEF Paged
  <1> QED
    BY <1>6, <1>7

(* Rows that are written settle where they were, or are owed no longer. *)
LEMMA PagedWhenUnsettled ==
    ASSUME Paged, views' \in [Requests -> SUBSET View],
           \A r \in Requests : \A v, w \in views'[r] : v = w,
           listing' = Unsettled(views')
    PROVE  Paged'
  <1> DEFINE Kept == {r \in listing.steady :
                         /\ r \in Matching(views')
                         /\ \A v \in views'[r] : Key(r, v) = KeyNow(r)}
  <1>1. listing' = [listing EXCEPT !.steady = Kept]
    BY DEF Unsettled
  <1> HIDE DEF Kept
  <1>2. Kept \subseteq listing.steady /\ Kept \subseteq Matching(views')
    BY DEF Kept
  <1>3. /\ listing' \in Listing
        /\ listing'.wrong = {} /\ listing'.steady = Kept
        /\ listing'.got = listing.got /\ listing'.cursor = listing.cursor
    BY <1>1, <1>2 DEF Paged, Listing
  <1>4. ASSUME NEW r \in Kept
        PROVE  r \in Behind(listing.cursor)' <=> r \in Behind(listing.cursor)
    <2>1. r \in Matching(views') /\ r \in Matching(views)
      BY <1>2 DEF Paged
    <2>2. (CHOOSE v \in views'[r] : TRUE) \in views'[r]
      BY <2>1 DEF Matching
    <2>3. KeyNow(r)' = Key(r, CHOOSE v \in views'[r] : TRUE)
      BY DEF KeyNow, Key
    <2>4. KeyNow(r)' = KeyNow(r)
      BY <2>2, <2>3 DEF Kept
    <2> QED
      BY <1>3, <2>1, <2>4 DEF Behind, Before
  <1>5. listing'.steady \subseteq Matching(views)'
    BY <1>2, <1>3 DEF Matching
  <1>6. \A r \in listing'.steady :
           listing'.got[r] = IF r \in Behind(listing.cursor)' THEN 0 ELSE 1
    BY <1>2, <1>3, <1>4 DEF Paged
  <1> QED
    BY <1>3, <1>5, <1>6 DEF Paged

(* ReadModel's PagesExact: keyset paging gives everybody who matched all   *)
(* along, and stayed in place, exactly once, whatever is written, deleted  *)
(* and rebuilt between two pages and however long the list is.             *)
THEOREM PagesExactHolds == Spec => []PagesExact
  <1>1. Init => Paged
    BY ListingsStart DEF Init, Paged
  <1>2. Typed /\ Typed' /\ Paged /\ [Next]_vars => Paged'
    <2> SUFFICES ASSUME Typed, Typed', Paged, [Next]_vars
                 PROVE  Paged'
      OBVIOUS
    <2>1. CASE UNCHANGED <<views, listing>>
      BY <2>1 DEF Paged, Behind, Matching, KeyNow
    <2>2. CASE listing' = Unsettled(views')
      <3>1. RowsFit(views)'
        BY DEF Typed
      <3> QED
        BY <2>2, <3>1, PagedWhenUnsettled DEF RowsFit
    <2>3. CASE Query
      BY <2>3, PagedByQuery
    <2>4. CASE OpenListing
      <3>1. /\ UNCHANGED views
            /\ listing' = [NoListing EXCEPT !.open = TRUE, !.steady = Matching(views)]
        BY <2>4 DEF OpenListing
      <3>2. Matching(views) \subseteq Requests /\ Matching(views') = Matching(views)
        BY <3>1 DEF Matching
      <3>3. /\ listing' \in Listing
            /\ listing'.wrong = {} /\ listing'.cursor = {}
            /\ listing'.steady = Matching(views)
            /\ \A r \in Requests : listing'.got[r] = 0
        <4> DEFINE S == Matching(views)
        <4>1. S \in SUBSET Requests /\ listing' = [NoListing EXCEPT !.open = TRUE, !.steady = S]
          BY <3>1, <3>2
        <4> HIDE DEF S
        <4>2. /\ listing' \in Listing
              /\ listing'.wrong = {} /\ listing'.cursor = {} /\ listing'.steady = S
              /\ listing'.got = NoListing.got
          BY <4>1, ListingsStart DEF Listing
        <4> QED
          BY <4>2, ListingsStart DEF S
      <3>4. Behind(listing.cursor)' = Matching(views')
        BY <3>3 DEF Behind
      <3> QED
        BY <3>2, <3>3, <3>4 DEF Paged
    <2>5. ASSUME NEW t \in Tasks, Upsert(t) \/ Clear(t)
          PROVE  listing' = Unsettled(views')
      BY <2>5 DEF Upsert, Clear
    <2>6. ASSUME NEW t \in Tasks,
                 \/ CallCreate(t) \/ CallDecide(t) \/ CallRebuild(t) \/ Load(t)
                 \/ AppendEntry(t) \/ Recompute(t) \/ Announce(t) \/ Scan(t)
                 \/ ReadEvents(t) \/ RebuildReturns(t) \/ CallFails(t)
                 \/ PolicyMismatch(t)
          PROVE  UNCHANGED <<views, listing>>
      BY <2>6 DEF CallCreate, CallDecide, CallRebuild, Enter, Load, AppendEntry,
                  Recompute, Announce, Scan, ReadEvents, RebuildReturns, CallFails,
                  PolicyMismatch, Ends
    <2>7. ReplacePolicy \/ UNCHANGED vars => UNCHANGED <<views, listing>>
      BY DEF ReplacePolicy, vars
    <2> QED
      BY <2>1, <2>2, <2>3, <2>4, <2>5, <2>6, <2>7 DEF Next
  <1>3. Paged => PagesExact
    BY DEF Paged, PagesExact
  <1> QED
    BY <1>1, <1>2, <1>3, AlwaysTyped, PTL DEF Spec
=============================================================================
