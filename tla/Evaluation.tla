----------------------------- MODULE Evaluation -----------------------------
(***************************************************************************)
(* The evidence for one request as it accumulates, and what the policy     *)
(* engine makes of it: decisions are recorded in any order of their        *)
(* decided_at, as submit_signed_decision lets them, and time passes.       *)
(***************************************************************************)
EXTENDS Policy, Sequences

CONSTANTS
    Approvers,     \* whoever may sign a decision, eligible or not
    Policies,      \* the policies to look at
    Identities,    \* the roster
    Requester,     \* request.requested_by
    WindowCloses,  \* request.not_valid_after, counted from created_at
    Skew,          \* max_clock_skew
    Notations,     \* the notations the signers write decided_at in
    MaxTime,       \* bound of the model: the clock stops here
    MaxDecisions   \* bound of the model: decisions recorded

ASSUME PoliciesAssumption ==
    \A p \in Policies :
        /\ p.threshold \in Int
        /\ p.max_age \in Int
        /\ p.reject_is_terminal \in BOOLEAN

ASSUME TimesAssumption ==
    /\ WindowCloses \in Int
    /\ Skew \in Nat
    /\ MaxTime \in Nat
    /\ Notations \subseteq [offset : Int, brief : BOOLEAN]
    (* Written does not tell the texts of two numeric offsets apart.       *)
    /\ \A m, n \in Notations : m.offset # 0 /\ n.offset # 0 => m.offset = n.offset

VARIABLES
    policy,     \* the pinned policy
    decisions,  \* the request's decision.recorded entries, in seq order
    now         \* the service's clock

vars == <<policy, decisions, now>>

request == [requested_by |-> Requester,
            created_at |-> 0,
            not_valid_after |-> WindowCloses]

Decisions == [approver : Approvers,
              verdict : Verdicts,
              decided_at : {Written(t, n) : t \in 0 .. MaxTime + Skew, n \in Notations},
              context : {ContextDigest(request)}]

TypeOK ==
    /\ policy \in Policies
    /\ decisions \in Seq(Decisions)
    /\ now \in 0 .. MaxTime

Init ==
    /\ policy \in Policies
    /\ decisions = <<>>
    /\ now = 0

(* The window checks of submit_signed_decision. *)
Acceptable(d) ==
    /\ d.decided_at.instant <= now + Skew
    /\ d.decided_at.instant <= request.not_valid_after + Skew

(* An authorized decision is appended. *)
RecordDecision(d) ==
    /\ Len(decisions) < MaxDecisions
    /\ Acceptable(d)
    /\ decisions' = Append(decisions, d)
    /\ UNCHANGED <<policy, now>>

Tick ==
    /\ now < MaxTime
    /\ now' = now + 1
    /\ UNCHANGED <<policy, decisions>>

Next == Tick \/ \E d \in Decisions : RecordDecision(d)

Spec == Init /\ [][Next]_vars

-----------------------------------------------------------------------------
Counting == Counted(request, decisions, policy, Identities)
Result == Evaluate(request, decisions, policy, Identities, now)
Status == Result.status

(* The verdict that currently stands for an approver, if one counts. *)
Voice(a) == {decisions[i].verdict :
                i \in {k \in Voices(decisions, Counting) : decisions[k].approver = a}}

Recorded == decisions' # decisions
New == decisions'[Len(decisions')]

(* The order of sorted(counted, key=decided_at), which compares strings    *)
(* and leaves equal ones in ledger order.                                  *)
SortsBefore(i, j) ==
    \/ decisions[i].decided_at.text < decisions[j].decided_at.text
    \/ /\ decisions[i].decided_at.text = decisions[j].decided_at.text
       /\ i < j

(* evaluate's dict `latest', from approvers to decisions, as far as its    *)
(* loop over the sorted decisions has come: `done' has gone by, the last   *)
(* of them has overwritten what its approver had.  0 is no entry.          *)
Latest[done \in SUBSET Counting] ==
    IF done = {} THEN [a \in Approvers |-> 0]
    ELSE LET last == CHOOSE i \in done : \A j \in done \ {i} : SortsBefore(j, i)
         IN  [Latest[done \ {last}] EXCEPT ![decisions[last].approver] = last]

(* "One voice per approver" (engine.py): what every other property says of *)
(* voices is about the decisions the loop leaves in the dict.              *)
VoicesAreTheLoops ==
    Voices(decisions, Counting) = {Latest[Counting][a] : a \in Approvers} \ {0}

(* The passage of time alone closes a window and does nothing else: an     *)
(* approval or a rejection, once derivable, never lapses.                  *)
TimeOnlyExpires ==
    [][now' # now => \/ Status' = Status
                     \/ Status = "pending" /\ Status' = "expired"]_vars

(* "re-submitting the same verdict is idempotent" (policies.md, engine.py):*)
(* a decision that repeats the verdict that stands for its approver never  *)
(* changes the outcome, whatever decided_at it carries, in the window or   *)
(* past it, before or after the decision it repeats.                       *)
ResubmissionIdempotent ==
    [][Recorded /\ New.verdict \in Voice(New.approver) => Result' = Result]_vars

(* No outcome comes or goes without a cause.  An approval is won by a new  *)
(* approve and lost to a new reject only, a rejection the other way round, *)
(* and either by somebody whose own voice it is.                           *)
OutcomeChangesHaveACause ==
    [][Recorded =>
        /\ Status' = "approved" /\ Status # "approved" =>
              /\ New.verdict = "approve"
              /\ New.approver \in Result'.satisfied_by \ Voters(decisions, Voices(decisions, Counting), "approve")
        /\ Status = "approved" /\ Status' # "approved" => New.verdict = "reject"
        /\ Status' = "rejected" /\ Status # "rejected" =>
              New.verdict = "reject" /\ New.approver \in Result'.satisfied_by
        /\ Status = "rejected" /\ Status' # "rejected" =>
              New.verdict = "approve" /\ Result.satisfied_by = {New.approver}]_vars

(* Ledger order carries no weight of its own: writers racing to append the *)
(* same decisions in another order get the same result, unless one         *)
(* approver signed two of them at the same time.                           *)
OrderOnlyBreaksTies ==
    LET n == Len(decisions)
        ties == \E i, j \in 1 .. n :
                    /\ i # j
                    /\ decisions[i].approver = decisions[j].approver
                    /\ decisions[i].decided_at.text = decisions[j].decided_at.text
        perms == {f \in [1 .. n -> 1 .. n] : \A i, j \in 1 .. n : f[i] = f[j] => i = j}
    IN  ~ties => \A f \in perms :
                    Evaluate(request, [i \in 1 .. n |-> decisions[f[i]]],
                             policy, Identities, now) = Result

(* "One voice per approver: their latest decision wins" (engine.py): of    *)
(* two counted decisions of one approver the one signed at the later       *)
(* instant prevails.  Not so: `latest' is the last of the strings, and two *)
(* strings of UTC times already sort against their instants when one has a *)
(* fraction and the other has none.                                        *)
LatestDecisionWins ==
    \A i \in Voices(decisions, Counting) : \A j \in Counting :
        decisions[j].approver = decisions[i].approver =>
            decisions[j].decided_at.instant <= decisions[i].decided_at.instant
=============================================================================
