-------------------------------- MODULE Trust --------------------------------
(***************************************************************************)
(* crypto/keys.py and crypto/verifier.py: which of the signatures on a     *)
(* decision count.  Pure: no state.                                        *)
(*                                                                         *)
(*   key         a KeyRef: [owner_id, key_use, not_before, not_after,      *)
(*               revoked_at, log_ids].  Times are instants.  What may be   *)
(*               None is a set: empty for None, else of the one value      *)
(*   directory   a KeyDirectory: a function from keyids to keys            *)
(*   published   a sequence of [keyid, key]: the KeyRefs handed to it      *)
(*   signature   [keyid, by]: the keyid written next to it, and the key    *)
(*               that made it.  A keyid is the hash of a public key, so    *)
(*               get_scheme(...).verify accepts if the two are the same    *)
(*   envelope    what is signed, with `signatures', a set of signatures:   *)
(*               the rule depends on neither order nor repetitions         *)
(***************************************************************************)
EXTENDS Integers

KeyUses == {"approver", "decision_issuer", "log", "oidc_issuer"}

Keyids(published) == {published[i].keyid : i \in DOMAIN published}

LastOf(published, keyid) ==
    CHOOSE i \in DOMAIN published :
        /\ published[i].keyid = keyid
        /\ \A j \in DOMAIN published : published[j].keyid = keyid => j <= i

(* Mutant of Extend: the published keys are the whole directory. *)
ExtendReplacing(directory, published) ==
    [k \in Keyids(published) |-> published[LastOf(published, k)].key]

(* KeyDirectory(keys), extend and, of one key, add: for each keyid the last *)
(* of its keys.  What was known of it is forgotten, a revocation included.  *)
Extend(directory, published) ==
    [k \in DOMAIN directory \cup Keyids(published) |->
        IF k \in Keyids(published) THEN published[LastOf(published, k)].key
                                   ELSE directory[k]]

(* Mutant of RevokeKey: the key expires instead. *)
ExpireKey(directory, keyid, at) == [directory EXCEPT ![keyid].not_after = {at}]

(* revoke *)
RevokeKey(directory, keyid, at) == [directory EXCEPT ![keyid].revoked_at = {at}]

ValidAt(key, t) ==
    /\ key.not_before <= t
    /\ \A end \in key.not_after : t <= end
    /\ \A revoked \in key.revoked_at : t < revoked

ScopedTo(key, log) == \A logs \in key.log_ids : log \in logs

(* The keyids of verified_signatures; whatever else is there is skipped. *)
VerifiedKeyids(signatures, directory, t) ==
    {s.keyid : s \in {sig \in signatures :
        /\ sig.keyid \in DOMAIN directory
        /\ sig.by = sig.keyid
        /\ ValidAt(directory[sig.keyid], t)}}

(* _identity_known: with no roster at hand nobody is unknown. *)
IdentityKnown(id, roster) == roster = {} \/ id \in roster

DecisionAuthorized(envelope, log, directory, roster) ==
    \E keyid \in VerifiedKeyids(envelope.signatures, directory, envelope.decided_at) :
        LET key == directory[keyid]
        IN  \/ key.key_use = "approver" /\ key.owner_id = envelope.approver_id
            \/ /\ key.key_use = "decision_issuer"
               /\ IdentityKnown(envelope.approver_id, roster)
               /\ ScopedTo(key, log)
=============================================================================
