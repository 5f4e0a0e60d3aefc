------------------------- MODULE MCApprovalService -------------------------
(* Model values for ApprovalService. *)
EXTENDS ApprovalService, TLC

CONSTANTS t1, t2, t3

TwoTasks == {t1, t2}
ThreeTasks == {t1, t2, t3}
OneTask == {t1}
SymmetryTwo == Permutations(TwoTasks)
SymmetryThree == Permutations(ThreeTasks)

(* drew asks; casey and riley are qa and may decide; drew may not. *)
MCIdentities == "casey" :> {"qa"} @@ "riley" :> {"qa"} @@ "drew" :> {"qa"}

Quorum(n) ==
    [allowed_ids |-> {}, allowed_roles |-> {"qa"}, threshold |-> n,
     required_roles |-> {}, separation_of_duties |-> TRUE,
     reject_is_terminal |-> TRUE, max_age |-> 7]

OnePerson == Quorum(1)
TwoPersons == Quorum(2)

Ballot(a, v) == [approver |-> a, verdict |-> v, key |-> <<>>]

Signed(a, v, at, ctx, k, ok) ==
    [approver |-> a, verdict |-> v, key |-> k, decided_at |-> Utc(at),
     context |-> ctx, authorized |-> ok]

(* Decisions signed by the approvers themselves at time 0. *)
Approvals == {Signed("casey", "approve", 0, 0, <<>>, TRUE),
              Signed("riley", "approve", 0, 0, <<>>, TRUE)}

(* Besides an approval: the requester's own, one for another body, and two *)
(* under one key, a rejection from the future and an approval that the log *)
(* does not accept.                                                        *)
Mixed == {Signed("casey", "approve", 0, 0, <<>>, TRUE),
          Signed("drew", "approve", 0, 0, <<>>, TRUE),
          Signed("riley", "approve", 0, 1, <<>>, TRUE),
          Signed("riley", "reject", 2, 0, <<"k">>, TRUE),
          Signed("riley", "approve", 1, 0, <<"k">>, FALSE)}

None == {}

AllBallots == {Ballot(a, v) : a \in {"casey", "riley"}, v \in Verdicts}
OneBallot == {Ballot("casey", "approve")}

(* casey approves, riley rejects. *)
Opposed == {Signed("casey", "approve", 0, 0, <<>>, TRUE),
            Signed("riley", "reject", 0, 0, <<>>, TRUE)}

(* riley rejects and thinks better of it. *)
Relenting == {Signed("riley", "reject", 0, 0, <<>>, TRUE),
              Signed("riley", "approve", 1, 0, <<>>, TRUE)}

OneApproval == {Signed("casey", "approve", 0, 0, <<>>, TRUE)}

(* Store calls that raise. *)
AnyCall == StorePoints
WorkOfADecision == TryPoints
StatusAppends == {"status_append"}
=============================================================================
