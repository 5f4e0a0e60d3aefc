------------------------------- MODULE Policy -------------------------------
(***************************************************************************)
(* policy.engine.evaluate: from a request, its decisions and a policy to a *)
(* status.  Pure: no state, only operators, for use by other modules.      *)
(*                                                                         *)
(*   request     [requested_by, created_at, not_valid_after]; the times    *)
(*               are instants, nothing here looks at their strings         *)
(*   decisions   a function from ledger positions to records with at least *)
(*               [approver, verdict, decided_at, context]; a sequence is   *)
(*               one, and so is a sequence with other entries left out     *)
(*   policy      [allowed_ids, allowed_roles, threshold, required_roles,   *)
(*               separation_of_duties, reject_is_terminal, max_age];       *)
(*               allowed_approvers is split by what its strings name, an   *)
(*               identity or a "role:"                                     *)
(*   identities  the roster: a function from known ids to sets of roles    *)
(*   times       [instant, text]: the point in time a string denotes, in   *)
(*               half-seconds, and the place of the string itself in the   *)
(*               order of strings; the two orders agree on the strings     *)
(*               to_rfc3339 writes, UTC in milliseconds, but not on all    *)
(*               that parse_rfc3339 accepts                                *)
(***************************************************************************)
EXTENDS Integers, FiniteSets

Statuses == {"pending", "approved", "rejected", "expired"}
Verdicts == {"approve", "reject"}

(* The string for an instant in a notation [offset, brief]: with a numeric *)
(* offset from UTC, or "Z" where that is 0, and with milliseconds, which a *)
(* brief string leaves out at whole seconds.  Strings compare by the wall  *)
(* clock's second, then by what follows it, and "+" < "." < "Z": a whole   *)
(* second in brief sorts before its second half if it ends in an offset,   *)
(* and after it if it ends in Z.                                           *)
Written(instant, notation) ==
    LET wall == instant + notation.offset
        zulu == IF notation.offset = 0 THEN 1 ELSE 0
        suffix == IF notation.brief /\ wall % 2 = 0 THEN 5 * zulu
                                                    ELSE 1 + 2 * (wall % 2) + zulu
    IN  [instant |-> instant, text |-> 6 * (wall \div 2) + suffix]

(* clock.to_rfc3339: what SystemClock and the challenges write. *)
Utc(instant) == Written(instant, [offset |-> 0, brief |-> FALSE])

(* What a decision binds to: the hash of the whole body.  Bodies with one  *)
(* request_id agree on everything but created_at.                          *)
ContextDigest(request) == request.created_at

(* _eligible *)
Eligible(id, policy, identities) ==
    \/ id \in policy.allowed_ids
    \/ /\ id \in DOMAIN identities
       /\ identities[id] \cap policy.allowed_roles # {}

(* min(not_valid_after, created_at + max_age_seconds), an instant. *)
Deadline(request, policy) ==
    LET byAge == request.created_at + policy.max_age
    IN  IF request.not_valid_after <= byAge THEN request.not_valid_after
                                            ELSE byAge

(* Mutant of Counts: the requester's own voice counts. *)
CountsOwn(d, request, policy, identities) ==
    /\ d.context = ContextDigest(request)
    /\ Eligible(d.approver, policy, identities)
    /\ d.decided_at.instant <= Deadline(request, policy)

(* The decision is one of those `that actually count'. *)
Counts(d, request, policy, identities) ==
    /\ d.context = ContextDigest(request)
    /\ Eligible(d.approver, policy, identities)
    /\ ~(policy.separation_of_duties /\ d.approver = request.requested_by)
    /\ d.decided_at.instant <= Deadline(request, policy)

Counted(request, decisions, policy, identities) ==
    {i \in DOMAIN decisions : Counts(decisions[i], request, policy, identities)}

(* Mutant of Voices: the last to be recorded wins. *)
VoicesByPosition(decisions, counted) ==
    {i \in counted :
        \A j \in counted : decisions[j].approver = decisions[i].approver => j <= i}

(* `latest': of each approver's counted decisions, the last in the stable  *)
(* sort by decided_at, which compares strings; equal strings stay in       *)
(* ledger order.                                                           *)
Voices(decisions, counted) ==
    {i \in counted :
        \A j \in counted :
            decisions[j].approver = decisions[i].approver =>
                \/ decisions[j].decided_at.text < decisions[i].decided_at.text
                \/ /\ decisions[j].decided_at.text = decisions[i].decided_at.text
                   /\ j <= i}

Voters(decisions, voices, verdict) ==
    {decisions[i].approver : i \in {k \in voices : decisions[k].verdict = verdict}}

(* _roles_satisfied *)
RolesSatisfied(approvers, policy, identities) ==
    \A role \in policy.required_roles :
        \E a \in approvers \cap DOMAIN identities : role \in identities[a]

(* Mutants of Evaluate: the window is looked at before the approvals, and  *)
(* the threshold counts decisions instead of approvers.                    *)
EvaluateExpiryFirst(request, decisions, policy, identities, at) ==
    LET voices == Voices(decisions, Counted(request, decisions, policy, identities))
        approvers == Voters(decisions, voices, "approve")
    IN  [status |-> IF at > Deadline(request, policy) THEN "expired"
                    ELSE IF Cardinality(approvers) >= policy.threshold
                         THEN "approved" ELSE "pending",
         satisfied_by |-> approvers]

EvaluateTally(request, decisions, policy, identities, at) ==
    LET counted == Counted(request, decisions, policy, identities)
        approvals == {i \in counted : decisions[i].verdict = "approve"}
    IN  [status |-> IF Cardinality(approvals) >= policy.threshold
                    THEN "approved" ELSE "pending",
         satisfied_by |-> Voters(decisions, counted, "approve")]

(* evaluate: the status and satisfied_by of its PolicyResult. *)
Evaluate(request, decisions, policy, identities, at) ==
    LET voices == Voices(decisions, Counted(request, decisions, policy, identities))
        rejecters == Voters(decisions, voices, "reject")
        approvers == Voters(decisions, voices, "approve")
    IN  CASE policy.reject_is_terminal /\ rejecters # {} ->
                 [status |-> "rejected", satisfied_by |-> rejecters]
          [] ~(policy.reject_is_terminal /\ rejecters # {})
             /\ Cardinality(approvers) >= policy.threshold
             /\ RolesSatisfied(approvers, policy, identities) ->
                 [status |-> "approved", satisfied_by |-> approvers]
          [] OTHER ->
                 [status |-> IF at > Deadline(request, policy) THEN "expired"
                                                               ELSE "pending",
                  satisfied_by |-> approvers]
=============================================================================
