---------------------------- MODULE MCEvaluation ----------------------------
(* Model values for Evaluation. *)
EXTENDS Evaluation, TLC

(* casey holds qa, riley holds qa and sre, drew has asked for the release, *)
(* and lee is on no list: the people of tests/test_policy.py, in short.    *)
MCApprovers == {"casey", "riley", "drew"}
MCIdentities == "casey" :> {"qa"} @@ "riley" :> {"qa", "sre"} @@ "drew" :> {"qa"}

TwoPerson ==
    [allowed_ids |-> {}, allowed_roles |-> {"qa"}, threshold |-> 2,
     required_roles |-> {}, separation_of_duties |-> TRUE,
     reject_is_terminal |-> TRUE, max_age |-> 7]

(* Rejections do not end it, the requester may vote, and the window is     *)
(* closed by max_age_seconds before not_valid_after.                       *)
Lenient ==
    [allowed_ids |-> {"casey", "drew"}, allowed_roles |-> {}, threshold |-> 1,
     required_roles |-> {}, separation_of_duties |-> FALSE,
     reject_is_terminal |-> FALSE, max_age |-> 1]

CrossTeam ==
    [allowed_ids |-> {"drew"}, allowed_roles |-> {"qa", "sre"}, threshold |-> 1,
     required_roles |-> {"qa", "sre"}, separation_of_duties |-> FALSE,
     reject_is_terminal |-> TRUE, max_age |-> 7]

MCPolicies == {TwoPerson, Lenient, CrossTeam}

(* "...:00Z" and "...:00.500Z", which do not sort as their instants, and   *)
(* "...:00.000+01:00", which does not among those.                         *)
Brief == [offset |-> 0, brief |-> TRUE]
MillisAbroad == [offset |-> 7200, brief |-> FALSE]

MCNotations == {Brief, MillisAbroad}
=============================================================================
