------------------------------- MODULE Signing -------------------------------
(***************************************************************************)
(* crypto/signing.py and what it stands on: a resolver, a key provider and *)
(* two caches on one side, the KeyDirectory that verifies on the other.    *)
(* Tasks of one process sign decisions and checkpoints and publish the     *)
(* keys they sign with, one await at a time, while operators rotate,       *)
(* revoke and invalidate and the process restarts.                         *)
(*                                                                         *)
(* A key reference names a key of the provider, which has versions; a      *)
(* keyid is <<reference, version>>, or the name of an approver, who has    *)
(* one key.  What submit checks besides the signature is ApprovalService's.*)
(***************************************************************************)
EXTENDS Trust, Sequences, FiniteSets

CONSTANTS
    Callers,        \* tasks that have decisions and checkpoints signed
    Publishers,     \* tasks that publish the keys signed with
    Refs,           \* key references
    SchemeOf,       \* the scheme each of them starts with
    RefFor,         \* StaticKeyResolver: the reference for each purpose
    Specs,          \* the TrustSpecs, a sequence, see SpecsAssumption
    Approvers,      \* who decides; each has a key of the same name
    People,         \* the directory of their keys
    Log,            \* the log_id
    Roster,         \* the ids an identity source lists
    SignerTTL,      \* signer_ttl, in ticks
    PubkeyTTL,      \* pubkey_ttl, in ticks
    Durable,        \* whether the directory is saved and loaded on restarts
    MaxVersion,     \* bound of the model: versions of a key
    MaxTime,        \* bound of the model: the clock stops there
    MaxRevocations, \* bound of the model: revocations
    MaxDecisions    \* bound of the model: decisions recorded

Tasks == Callers \cup Publishers

LocalSchemes == {"memory", "file", "env"}
Schemes == LocalSchemes \cup {"vault", "awskms", "gcpkms"}
Purposes == {"decision", "checkpoint"}
Versions == 1 .. MaxVersion
Times == 0 .. MaxTime

Keyid == Approvers \cup (Refs \X Versions)

KeyRef == [owner_id : Approvers \cup STRING, key_use : KeyUses,
           not_before : Nat, not_after : SUBSET Nat, revoked_at : SUBSET Nat,
           log_ids : SUBSET SUBSET {Log}]

ASSUME RefsAssumption ==
    /\ SchemeOf \in [Refs -> Schemes]
    /\ RefFor \in [Purposes -> Refs]
    /\ (Refs \X Versions) \cap Approvers = {}

ASSUME SpecsAssumption ==
    /\ Specs \in Seq([key_ref : Refs, owner_id : STRING, key_use : KeyUses,
                      not_before : Nat, not_after : SUBSET Nat,
                      log_ids : SUBSET SUBSET {Log}])
    /\ \A i, j \in DOMAIN Specs : Specs[i].key_ref = Specs[j].key_ref => i = j
    /\ People \in [Approvers -> KeyRef]
    /\ \A a \in Approvers : People[a].revoked_at = {}

ASSUME BoundsAssumption ==
    /\ SignerTTL \in Nat \ {0} /\ PubkeyTTL \in Nat \ {0}
    /\ MaxVersion \in Nat \ {0} /\ MaxTime \in Nat
    /\ MaxRevocations \in Nat /\ MaxDecisions \in Nat
    /\ Durable \in BOOLEAN

VARIABLES
    version,      \* per reference: the version its provider has now
    signers,      \* _signer_cache: per reference, at most one entry
    pubs,         \* _pub_cache: per reference, at most one entry
    dir,          \* the KeyDirectory
    now,          \* the wall clock
    job,          \* per task: the call it is in
    decisions,    \* the decisions recorded in the ledger
    published,    \* the latest checkpoint published in it, if any
    revocations,  \* history: what revoke was called with
    floor         \* history: per reference, the version at the last
                  \* invalidate that no fetch was under way at

vars == <<version, signers, pubs, dir, now, job, decisions, published,
          revocations, floor>>
clock == <<version, now>>
records == <<decisions, published, revocations>>

(* What is kept at time.monotonic() = t is kept with the ticks since t.    *)
Entry(value) == [value |-> value, age |-> 0]

(* A call: `held' is what the cache or the provider gave it, `got' are the *)
(* versions trust has so far.                                              *)
NoJob == [step |-> "idle", purpose |-> "trust", approver |-> "", date |-> 0,
          held |-> {}, signatures |-> {}, got |-> <<>>]

-----------------------------------------------------------------------------
(* The providers: which version of its key a reference reaches now.        *)

(* The key kept under a name, in a file or in a variable. *)
LocalVersion(r) == version[r]

(* read_key's latest_version; sign_data, given no version, takes it too. *)
VaultVersion(r) == version[r]

(* get_public_key and sign are given a KeyId; an alias may be pointed at   *)
(* another key.                                                            *)
AwsVersion(r) == version[r]

(* The version is part of the resource name. *)
GcpVersion(r) == 1

(* CompositeKeyProvider._route *)
CurrentVersion(r) ==
    CASE SchemeOf[r] \in LocalSchemes -> LocalVersion(r)
      [] SchemeOf[r] = "vault" -> VaultVersion(r)
      [] SchemeOf[r] = "awskms" -> AwsVersion(r)
      [] SchemeOf[r] = "gcpkms" -> GcpVersion(r)

(* get_signer: a primed signer knows its public key, whose version is      *)
(* `label'; an Ed25519Signer also holds the private one.                   *)
GetSigner(r) ==
    [label |-> CurrentVersion(r),
     holds |-> IF SchemeOf[r] \in LocalSchemes THEN {CurrentVersion(r)} ELSE {}]

(* signer.sign: a RemoteSigner has the provider sign for the reference. *)
SignedBy(signer, r) ==
    IF signer.holds = {} THEN CurrentVersion(r)
                         ELSE CHOOSE v \in signer.holds : TRUE

(* sign_with: the signature, and the keyid the signer was primed with. *)
SignWith(signer, r) ==
    [keyid |-> <<r, signer.label>>, by |-> <<r, SignedBy(signer, r)>>]

(* PublicKeyMaterial.to_key_ref for a TrustSpec. *)
ToKeyRef(spec) ==
    [owner_id |-> spec.owner_id, key_use |-> spec.key_use,
     not_before |-> spec.not_before, not_after |-> spec.not_after,
     revoked_at |-> {}, log_ids |-> spec.log_ids]

(* get_public_key: a PublicKeyMaterial, known by its version. *)
GetPublicKey(r) == [label |-> CurrentVersion(r)]

(* trust: the KeyRefs of the specs, for the versions found. *)
KeyRefs(versions) ==
    [i \in DOMAIN Specs |->
        [keyid |-> <<Specs[i].key_ref, versions[i]>>, key |-> ToKeyRef(Specs[i])]]

KeyRefsNow == KeyRefs([i \in DOMAIN Specs |-> CurrentVersion(Specs[i].key_ref)])

(* Mutant of Fresh: an entry is good for ever. *)
FreshAlways(entries, ttl) == {e.value : e \in entries}

(* if hit and self._now() - hit[0] < ttl: return hit[1] *)
Fresh(entries, ttl) == {e.value : e \in {x \in entries : x.age < ttl}}

Init ==
    /\ version = [r \in Refs |-> 1]
    /\ signers = [r \in Refs |-> {}]
    /\ pubs = [r \in Refs |-> {}]
    /\ dir = Extend(People, KeyRefsNow)
    /\ now = 0
    /\ job = [t \in Tasks |-> NoJob]
    /\ decisions = {}
    /\ published = {}
    /\ revocations = {}
    /\ floor = [r \in Refs |-> 1]

-----------------------------------------------------------------------------
(* Calls that sign.                                                        *)

Put(t, j) == job' = [job EXCEPT ![t] = j]
Finish(t) == Put(t, NoJob)

Decision(t) ==
    [approver_id |-> job[t].approver, decided_at |-> job[t].date,
     signatures |-> job[t].signatures]

Checkpoint(t) ==
    [published_at |-> job[t].date, signatures |-> job[t].signatures]

RefOf(t) ==
    IF job[t].purpose = "trust" THEN Specs[Len(job[t].got) + 1].key_ref
                                ELSE RefFor[job[t].purpose]

(* The time is read, then signer_for asks the resolver and looks in the    *)
(* cache: nothing is awaited on a hit.                                     *)
Begin(t, purpose, approver) ==
    LET hit == Fresh(signers[RefFor[purpose]], SignerTTL)
    IN  /\ job[t].step = "idle"
        /\ Put(t, [NoJob EXCEPT !.step = IF hit = {} THEN "get_signer" ELSE "sign",
                                !.purpose = purpose, !.approver = approver,
                                !.date = now, !.held = hit])
        /\ UNCHANGED <<signers, pubs, dir, clock, records, floor>>

(* submit_decision up to signer_for *)
BeginDecision(t) ==
    /\ Cardinality(decisions) < MaxDecisions
    /\ \E a \in Approvers : Begin(t, "decision", a)

(* checkpoint() up to signer_for *)
BeginCheckpoint(t) == Begin(t, "checkpoint", "")

(* signer = await self.provider.get_signer(key_ref): the provider answers. *)
ProviderGivesSigner(t) ==
    /\ job[t].step = "get_signer"
    /\ Put(t, [job[t] EXCEPT !.step = "keep_signer", !.held = {GetSigner(RefOf(t))}])
    /\ UNCHANGED <<signers, pubs, dir, clock, records, floor>>

(* self._signer_cache[key_ref] = (self._now(), signer) *)
KeepSigner(t) ==
    /\ job[t].step = "keep_signer"
    /\ signers' = [signers EXCEPT ![RefOf(t)] = {Entry(s) : s \in job[t].held}]
    /\ Put(t, [job[t] EXCEPT !.step = "sign"])
    /\ UNCHANGED <<pubs, dir, clock, records, floor>>

(* wrap_async, sign_checkpoint_async *)
Sign(t) ==
    /\ job[t].step = "sign"
    /\ Put(t, [job[t] EXCEPT !.step = "submit", !.held = {},
                             !.signatures = {SignWith(s, RefOf(t)) : s \in job[t].held}])
    /\ UNCHANGED <<signers, pubs, dir, clock, records, floor>>

(* prepare_decision: the time is read here, the client signs when it likes.*)
PrepareDecision(t) ==
    /\ Cardinality(decisions) < MaxDecisions
    /\ \E a \in Approvers :
        /\ job[t].step = "idle"
        /\ Put(t, [NoJob EXCEPT !.step = "submit", !.purpose = "decision",
                                !.approver = a, !.date = now,
                                !.signatures = {[keyid |-> a, by |-> a]}])
        /\ UNCHANGED <<signers, pubs, dir, clock, records, floor>>

(* submit_signed_decision: SignatureInvalid, or the decision is recorded. *)
SubmitDecision(t) ==
    /\ job[t].step = "submit" /\ job[t].purpose = "decision"
    /\ decisions' = decisions \cup
           {d \in {Decision(t)} : DecisionAuthorized(d, Log, dir, Roster)}
    /\ Finish(t)
    /\ UNCHANGED <<signers, pubs, dir, clock, published, revocations, floor>>

(* checkpoint(): what was signed is appended, whoever would accept it. *)
AppendCheckpoint(t) ==
    /\ job[t].step = "submit" /\ job[t].purpose = "checkpoint"
    /\ published' = {Checkpoint(t)}
    /\ Finish(t)
    /\ UNCHANGED <<signers, pubs, dir, clock, decisions, revocations, floor>>

(* KeyProviderError, or the network's: the call ends, nothing is kept.     *)
ProviderFails(t) ==
    /\ job[t].step \in {"get_signer", "sign", "get_public_key"}
    /\ Finish(t)
    /\ UNCHANGED <<signers, pubs, dir, clock, records, floor>>

-----------------------------------------------------------------------------
(* trust: the public key of one spec after the other, then key_dir.extend. *)

BeginTrust(t) ==
    /\ job[t].step = "idle"
    /\ Put(t, [NoJob EXCEPT !.step = "public_key"])
    /\ UNCHANGED <<signers, pubs, dir, clock, records, floor>>

(* public_key: from the cache, or asked for. *)
PublicKey(t) ==
    /\ job[t].step = "public_key" /\ Len(job[t].got) < Len(Specs)
    /\ LET hit == Fresh(pubs[RefOf(t)], PubkeyTTL)
       IN  IF hit = {}
           THEN Put(t, [job[t] EXCEPT !.step = "get_public_key"])
           ELSE \E pub \in hit : Put(t, [job[t] EXCEPT !.got = Append(@, pub.label)])
    /\ UNCHANGED <<signers, pubs, dir, clock, records, floor>>

(* pub = await self.provider.get_public_key(key_ref) *)
ProviderGivesPublicKey(t) ==
    /\ job[t].step = "get_public_key"
    /\ Put(t, [job[t] EXCEPT !.step = "keep_public_key", !.held = {GetPublicKey(RefOf(t))}])
    /\ UNCHANGED <<signers, pubs, dir, clock, records, floor>>

(* self._pub_cache[key_ref] = (self._now(), pub); return pub *)
KeepPublicKey(t) ==
    /\ job[t].step = "keep_public_key"
    /\ pubs' = [pubs EXCEPT ![RefOf(t)] = {Entry(pub) : pub \in job[t].held}]
    /\ \E pub \in job[t].held :
          Put(t, [job[t] EXCEPT !.step = "public_key", !.held = {},
                                !.got = Append(@, pub.label)])
    /\ UNCHANGED <<signers, dir, clock, records, floor>>

TrustReturns(t) ==
    /\ job[t].step = "public_key" /\ Len(job[t].got) = Len(Specs)
    /\ dir' = Extend(dir, KeyRefs(job[t].got))
    /\ Finish(t)
    /\ UNCHANGED <<signers, pubs, clock, records, floor>>

-----------------------------------------------------------------------------
(* Operators.                                                              *)

(* A provider's key gets a new version; a version by name never changes.   *)
Rotate(r) ==
    /\ SchemeOf[r] # "gcpkms" /\ version[r] < MaxVersion
    /\ version' = [version EXCEPT ![r] = @ + 1]
    /\ UNCHANGED <<signers, pubs, dir, now, job, records, floor>>

(* KeyDirectory.revoke, as of any time: now, an earlier or a coming one.   *)
Revoke(keyid, at) ==
    /\ keyid \in DOMAIN dir
    /\ Cardinality(revocations) < MaxRevocations
    /\ dir' = RevokeKey(dir, keyid, at)
    /\ revocations' = revocations \cup {[keyid |-> keyid, at |-> at]}
    /\ UNCHANGED <<signers, pubs, clock, job, decisions, published, floor>>

(* A call that was answered and has yet to keep the answer. *)
Fetching(r) ==
    \E t \in Tasks : job[t].step \in {"keep_signer", "keep_public_key"} /\ RefOf(t) = r

(* Mutant of Cleared: the public keys stay. *)
SignersCleared ==
    /\ signers' = [r \in Refs |-> {}]
    /\ pubs' = pubs

Cleared ==
    /\ signers' = [r \in Refs |-> {}]
    /\ pubs' = [r \in Refs |-> {}]

Invalidate ==
    /\ Cleared
    /\ floor' = [r \in Refs |-> IF Fetching(r) THEN floor[r] ELSE version[r]]
    /\ UNCHANGED <<dir, clock, job, records>>

(* The process ends and starts: calls and caches are gone.  What it starts *)
(* from is the directory it saved, or the approvers' keys; then it         *)
(* publishes the keys it signs with, as its guide has it.                  *)
Restart ==
    /\ job' = [t \in Tasks |-> NoJob]
    /\ Cleared
    /\ dir' = Extend(IF Durable THEN dir ELSE People, KeyRefsNow)
    /\ floor' = version
    /\ UNCHANGED <<clock, records>>

(* Older than its ttl is old: the count ends there. *)
Aged(cache, ttl) ==
    [r \in Refs |-> {[e EXCEPT !.age = IF @ < ttl THEN @ + 1 ELSE @] : e \in cache[r]}]

Tick ==
    /\ now' = IF now < MaxTime THEN now + 1 ELSE now
    /\ signers' = Aged(signers, SignerTTL)
    /\ pubs' = Aged(pubs, PubkeyTTL)
    /\ UNCHANGED <<version, dir, job, records, floor>>

Go(t) ==
    \/ ProviderGivesSigner(t) \/ KeepSigner(t) \/ Sign(t)
    \/ SubmitDecision(t) \/ AppendCheckpoint(t)
    \/ PublicKey(t) \/ ProviderGivesPublicKey(t) \/ KeepPublicKey(t)
    \/ TrustReturns(t)

Next ==
    \/ \E t \in Callers : BeginDecision(t) \/ BeginCheckpoint(t) \/ PrepareDecision(t)
    \/ \E t \in Publishers : BeginTrust(t)
    \/ \E t \in Tasks : Go(t) \/ ProviderFails(t)
    \/ \E r \in Refs : Rotate(r)
    \/ \E keyid \in DOMAIN dir, at \in Times : Revoke(keyid, at)
    \/ Invalidate \/ Restart \/ Tick

(* Time passes, and a call that can go on does: providers answer, or fail. *)
Fairness == WF_vars(Tick) /\ \A t \in Tasks : WF_vars(Go(t))

Spec == Init /\ [][Next]_vars /\ Fairness

-----------------------------------------------------------------------------
Signer == [label : Versions, holds : SUBSET Versions]
PublicKeyMaterial == [label : Versions]
Signature == [keyid : Keyid, by : Keyid]

Job ==
    [step : {"idle", "get_signer", "keep_signer", "sign", "submit",
             "public_key", "get_public_key", "keep_public_key"},
     purpose : Purposes \cup {"trust"},
     approver : Approvers \cup {""},
     date : Times,
     held : SUBSET (Signer \cup PublicKeyMaterial),
     signatures : SUBSET Signature,
     got : Seq(Versions)]

(* What a call is doing and what it has in its hands belong together. *)
JobOK(j) ==
    /\ j.step \in {"get_signer", "keep_signer", "sign", "submit"} => j.purpose \in Purposes
    /\ j.step \in {"public_key", "get_public_key", "keep_public_key"} => j.purpose = "trust"
    /\ j.step \in {"keep_signer", "sign"} => \E s \in Signer : j.held = {s}
    /\ j.step = "keep_public_key" => \E pub \in PublicKeyMaterial : j.held = {pub}
    /\ j.purpose = "decision" => j.approver \in Approvers
    /\ j.step \in {"get_public_key", "keep_public_key"} => Len(j.got) < Len(Specs)
    /\ Len(j.got) <= Len(Specs)

AtMostOne(entries) == \A e, f \in entries : e = f

(* How a keyid was entered, before anybody revoked it. *)
Entered(keyid) ==
    IF keyid \in Approvers THEN People[keyid]
    ELSE ToKeyRef(Specs[CHOOSE i \in DOMAIN Specs : Specs[i].key_ref = keyid[1]])

(* The directory, the caches and the calls are well formed.  In the        *)
(* directory every key is what it was entered as, but for its revocation,  *)
(* and only revoke revokes (crypto/keys.py, crypto/signing.py).            *)
TypeOK ==
    /\ version \in [Refs -> Versions]
    /\ floor \in [Refs -> Versions]
    /\ now \in Times
    /\ job \in [Tasks -> Job]
    /\ \A t \in Tasks : JobOK(job[t])
    /\ signers \in [Refs -> SUBSET [value : Signer, age : 0 .. SignerTTL]]
    /\ pubs \in [Refs -> SUBSET [value : PublicKeyMaterial, age : 0 .. PubkeyTTL]]
    /\ \A r \in Refs : AtMostOne(signers[r]) /\ AtMostOne(pubs[r])
    /\ dir \in [DOMAIN dir -> KeyRef] /\ DOMAIN dir \subseteq Keyid
    /\ \A k \in DOMAIN dir :
          /\ [dir[k] EXCEPT !.revoked_at = {}] = Entered(k)
          /\ \A at \in dir[k].revoked_at : [keyid |-> k, at |-> at] \in revocations
    /\ decisions \subseteq [approver_id : Approvers, decided_at : Times,
                             signatures : SUBSET Signature]
    /\ published \subseteq [published_at : Times, signatures : SUBSET Signature]
    /\ revocations \subseteq [keyid : Keyid, at : Times]

(* A key that signed it was revoked as of its date or earlier. *)
Revoked(decision) ==
    \E r \in revocations :
        r.at <= decision.decided_at /\ r.keyid \in {s.keyid : s \in decision.signatures}

(* A recorded decision goes on counting, through rotations, restarts and   *)
(* keys published anew, unless its key was revoked as of then or earlier:  *)
(* verification takes the keyid of the signature and the date of the       *)
(* decision, not the key that signs today (crypto/keys.py,                 *)
(* crypto/verifier.py).  It takes a directory that survives restarts.      *)
RotationIsSafe ==
    \A d \in decisions :
        DecisionAuthorized(d, Log, dir, Roster) \/ Revoked(d)

(* Once invalidate() was called, with no fetch under way, nothing older    *)
(* than the keys of that moment comes out of a cache again, however the    *)
(* calls and the rotations interleave (SigningService.invalidate, which    *)
(* has to clear what signer_for and public_key each keep).                 *)
InvalidateTakes ==
    \A r \in Refs :
        \A e \in signers[r] \cup pubs[r] : e.value.label >= floor[r]

(* When keys are no longer rotated, calls end up signing with the current  *)
(* one and publishing it, however many calls keep hitting the caches: an   *)
(* entry's age counts from its fetch and not from its last use             *)
(* (SigningService.signer_for, public_key).                                *)
CallsCatchUp ==
    <>[](\A t \in Tasks :
            /\ \A s \in job[t].held : s.label = version[RefOf(t)]
            /\ \A i \in DOMAIN job[t].got : job[t].got[i] = version[Specs[i].key_ref])

(* The keyid next to a signature is that of the key that made it           *)
(* (signer.sign_with).                                                     *)
LabelsAreTrue ==
    \A e \in decisions \cup published : \A s \in e.signatures : s.by = s.keyid
=============================================================================
