------------------------------ MODULE MCSigning ------------------------------
(* Model values for Signing: an organisation signs decisions with a key in *)
(* Vault and checkpoints with a fixed version of one in GCP, or with       *)
(* another in Vault; casey, who decides, has a key too.                    *)
EXTENDS Signing, TLC

CONSTANTS t1, host, casey

OneTask == {t1}
TheHost == {host}
OnRoster == {casey}
OneApprover == {casey}

TwoRefs == {"org", "log"}
VaultAndGcp == "org" :> "vault" @@ "log" :> "gcpkms"
BothVault == "org" :> "vault" @@ "log" :> "vault"
KeyPerPurpose == "decision" :> "org" @@ "checkpoint" :> "log"

Spec1(ref, owner, use) ==
    [key_ref |-> ref, owner_id |-> owner, key_use |-> use, not_before |-> 0,
     not_after |-> {}, log_ids |-> {{"releases"}}]

IssuerAndLog == <<Spec1("org", "svc:issuer", "decision_issuer"),
                  Spec1("log", "svc:log", "log")>>

OwnKey == [a \in OneApprover |->
    [owner_id |-> a, key_use |-> "approver", not_before |-> 0,
     not_after |-> {}, revoked_at |-> {}, log_ids |-> {}]]

OnlyIssuer == <<IssuerAndLog[1]>>
=============================================================================
