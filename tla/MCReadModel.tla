----------------------------- MODULE MCReadModel -----------------------------
(* Model values for ReadModel: drew asks; casey and riley are qa.          *)
EXTENDS ReadModel, TLC

CONSTANTS t1, t2

TwoTasks == {t1, t2}
Symmetry == Permutations(TwoTasks)
TwoRequests == 1 .. 2
OneRequest == {1}
Noon == {0}
TwoStamps == {0, 1}

MCIdentities == "casey" :> {"qa"} @@ "riley" :> {"qa"} @@ "drew" :> {"qa"}

OnePerson ==
    [allowed_ids |-> {}, allowed_roles |-> {"qa"}, threshold |-> 1,
     required_roles |-> {}, separation_of_duties |-> TRUE,
     reject_is_terminal |-> TRUE, max_age |-> 7]

TwoPersons == [OnePerson EXCEPT !.threshold = 2]

(* One approval, and be it the requester's. *)
AnyOfThem == [OnePerson EXCEPT !.separation_of_duties = FALSE]

Approve(a) == [approver |-> a, verdict |-> "approve"]

Approvals == {Approve("casey"), Approve("riley")}
Opposed == {Approve("casey"), [approver |-> "riley", verdict |-> "reject"]}
Pending == {"pending"}
=============================================================================
