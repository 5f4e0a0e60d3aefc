---------------------------- MODULE SigningProofs ----------------------------
(***************************************************************************)
(* For any tasks, key references, schemes and TTLs: the caches never give  *)
(* out what is older than the last invalidate, and a recorded decision     *)
(* goes on counting unless its key was revoked.                            *)
(***************************************************************************)
EXTENDS Signing, TLAPS

-----------------------------------------------------------------------------
(* TypeOK in parts. *)

ClocksTyped ==
    /\ version \in [Refs -> Versions]
    /\ floor \in [Refs -> Versions]
    /\ now \in Times

JobsTyped ==
    /\ job \in [Tasks -> Job]
    /\ \A t \in Tasks : JobOK(job[t])

CacheTyped(cache, values, ttl) ==
    /\ cache \in [Refs -> SUBSET [value : values, age : 0 .. ttl]]
    /\ \A r \in Refs : AtMostOne(cache[r])

CachesTyped ==
    /\ CacheTyped(signers, Signer, SignerTTL)
    /\ CacheTyped(pubs, PublicKeyMaterial, PubkeyTTL)

DirectoryTyped(directory, revoked) ==
    /\ directory \in [DOMAIN directory -> KeyRef]
    /\ DOMAIN directory \subseteq Keyid
    /\ \A k \in DOMAIN directory :
          /\ [directory[k] EXCEPT !.revoked_at = {}] = Entered(k)
          /\ \A at \in directory[k].revoked_at : [keyid |-> k, at |-> at] \in revoked

RecordsTyped ==
    /\ decisions \subseteq [approver_id : Approvers, decided_at : Times,
                             signatures : SUBSET Signature]
    /\ published \subseteq [published_at : Times, signatures : SUBSET Signature]
    /\ revocations \subseteq [keyid : Keyid, at : Times]

LEMMA TypeParts ==
    TypeOK <=> /\ ClocksTyped /\ JobsTyped /\ CachesTyped
               /\ DirectoryTyped(dir, revocations) /\ RecordsTyped
  BY DEF TypeOK, ClocksTyped, JobsTyped, CacheTyped, CachesTyped, DirectoryTyped, RecordsTyped

LEMMA TypePartsNext ==
    TypeOK' <=> /\ ClocksTyped' /\ JobsTyped' /\ CachesTyped'
                /\ DirectoryTyped(dir', revocations') /\ RecordsTyped'
  BY DEF TypeOK, ClocksTyped, JobsTyped, CacheTyped, CachesTyped, DirectoryTyped, RecordsTyped

-----------------------------------------------------------------------------
(* The helpers. *)

LEMMA VersionOne == 1 \in Versions /\ 0 \in Times
  BY BoundsAssumption DEF Versions, Times

(* Whatever its scheme, a reference reaches one of its versions. *)
LEMMA CurrentIsVersion ==
    ASSUME version \in [Refs -> Versions], NEW r \in Refs
    PROVE  CurrentVersion(r) \in Versions
  <1>1. SchemeOf[r] \in Schemes
    BY RefsAssumption
  <1> QED
    BY <1>1, VersionOne
    DEF CurrentVersion, Schemes, LocalVersion, VaultVersion, AwsVersion, GcpVersion

LEMMA SignersAreSigners ==
    ASSUME version \in [Refs -> Versions], NEW r \in Refs
    PROVE  GetSigner(r) \in Signer /\ GetPublicKey(r) \in PublicKeyMaterial
  BY CurrentIsVersion DEF GetSigner, GetPublicKey, Signer, PublicKeyMaterial

LEMMA SignaturesAreSignatures ==
    ASSUME version \in [Refs -> Versions], NEW r \in Refs, NEW s \in Signer
    PROVE  SignWith(s, r) \in Signature
  <1>1. SignedBy(s, r) \in Versions
    <2>1. CASE s.holds = {}
      BY <2>1, CurrentIsVersion DEF SignedBy
    <2>2. CASE s.holds # {}
      BY <2>2 DEF SignedBy, Signer
    <2> QED
      BY <2>1, <2>2
  <1>2. s.label \in Versions
    BY DEF Signer
  <1>3. <<r, s.label>> \in Keyid /\ <<r, SignedBy(s, r)>> \in Keyid
    BY <1>1, <1>2 DEF Keyid
  <1> QED
    BY <1>3 DEF SignWith, Signature

(* What comes out of a cache is one value of the cache, or nothing. *)
LEMMA FreshIsOneValue ==
    ASSUME NEW cache, NEW values, NEW ttl, CacheTyped(cache, values, ttl), NEW r \in Refs,
           NEW n, Fresh(cache[r], n) # {}
    PROVE  \E v \in values : Fresh(cache[r], n) = {v}
  <1>1. PICK v \in Fresh(cache[r], n) : TRUE
    OBVIOUS
  <1>2. PICK e \in cache[r] : v = e.value
    BY <1>1 DEF Fresh
  <1>3. \A f \in cache[r] : f = e
    BY DEF CacheTyped, AtMostOne
  <1>4. e \in [value : values, age : 0 .. ttl]
    BY DEF CacheTyped
  <1>5. Fresh(cache[r], n) = {v}
    BY <1>1, <1>2, <1>3 DEF Fresh
  <1> QED
    BY <1>2, <1>4, <1>5

LEMMA HitsAreOneValue ==
    ASSUME CachesTyped, NEW r \in Refs
    PROVE  /\ \A n : Fresh(signers[r], n) # {} =>
                       \E v \in Signer : Fresh(signers[r], n) = {v}
           /\ \A n : Fresh(pubs[r], n) # {} =>
                       \E v \in PublicKeyMaterial : Fresh(pubs[r], n) = {v}
  <1>1. \A n : Fresh(signers[r], n) # {} =>
                   \E v \in Signer : Fresh(signers[r], n) = {v}
    BY FreshIsOneValue DEF CachesTyped
  <1>2. \A n : Fresh(pubs[r], n) # {} =>
                   \E v \in PublicKeyMaterial : Fresh(pubs[r], n) = {v}
    BY FreshIsOneValue DEF CachesTyped
  <1> QED
    BY <1>1, <1>2

(* A cache is typed if one value is kept, if it is emptied, if it ages. *)
LEMMA KeptIsTyped ==
    ASSUME NEW cache, NEW values, NEW ttl \in Nat, CacheTyped(cache, values, ttl),
           NEW r \in Refs, NEW v \in values
    PROVE  CacheTyped([cache EXCEPT ![r] = {Entry(v)}], values, ttl)
  <1>1. Entry(v) \in [value : values, age : 0 .. ttl]
    BY DEF Entry
  <1> QED
    BY <1>1 DEF CacheTyped, AtMostOne

LEMMA EmptyIsTyped ==
    ASSUME NEW values, NEW ttl
    PROVE  CacheTyped([r \in Refs |-> {}], values, ttl)
  BY DEF CacheTyped, AtMostOne

LEMMA AgedIsTyped ==
    ASSUME NEW cache, NEW values, NEW ttl \in Nat, CacheTyped(cache, values, ttl)
    PROVE  CacheTyped(Aged(cache, ttl), values, ttl)
  <1> DEFINE Older(e) == [e EXCEPT !.age = IF @ < ttl THEN @ + 1 ELSE @]
  <1>1. \A e \in [value : values, age : 0 .. ttl] :
            Older(e) \in [value : values, age : 0 .. ttl]
    OBVIOUS
  <1>2. \A r \in Refs : Aged(cache, ttl)[r] = {Older(e) : e \in cache[r]}
    BY DEF Aged
  <1>3. Aged(cache, ttl) = [r \in Refs |-> Aged(cache, ttl)[r]]
    BY DEF Aged
  <1> HIDE DEF Older
  <1>4. \A r \in Refs : Aged(cache, ttl)[r] \in SUBSET [value : values, age : 0 .. ttl]
    BY <1>1, <1>2 DEF CacheTyped
  <1>5. \A r \in Refs : AtMostOne(Aged(cache, ttl)[r])
    BY <1>2 DEF CacheTyped, AtMostOne
  <1> QED
    BY <1>3, <1>4, <1>5 DEF CacheTyped

-----------------------------------------------------------------------------
(* The directory. *)

LEMMA ElementTyped ==
    ASSUME NEW S, NEW seq \in Seq(S), NEW i \in DOMAIN seq
    PROVE  seq[i] \in S
  OBVIOUS

LEMMA SpecsHaveLength == Len(Specs) \in Nat /\ DOMAIN Specs = 1 .. Len(Specs)
  <1>1. ASSUME NEW S, NEW seq \in Seq(S)
        PROVE  Len(seq) \in Nat /\ DOMAIN seq = 1 .. Len(seq)
    OBVIOUS
  <1> QED
    BY <1>1, SpecsAssumption

LEMMA SpecTyped ==
    ASSUME NEW i \in DOMAIN Specs
    PROVE  /\ Specs[i].key_ref \in Refs
           /\ ToKeyRef(Specs[i]) \in KeyRef
           /\ ToKeyRef(Specs[i]).revoked_at = {}
  <1>1. Specs[i] \in [key_ref : Refs, owner_id : STRING, key_use : KeyUses,
                      not_before : Nat, not_after : SUBSET Nat,
                      log_ids : SUBSET SUBSET {Log}]
    BY SpecsAssumption, ElementTyped
  <1> QED
    BY <1>1 DEF ToKeyRef, KeyRef

(* A reference has one spec. *)
LEMMA EnteredOfSpec ==
    ASSUME NEW i \in DOMAIN Specs, NEW v \in Versions
    PROVE  /\ <<Specs[i].key_ref, v>> \in Keyid
           /\ Entered(<<Specs[i].key_ref, v>>) = ToKeyRef(Specs[i])
  <1> DEFINE k == <<Specs[i].key_ref, v>>
  <1>1. k \in Refs \X Versions
    BY SpecTyped
  <1>2. k \notin Approvers
    BY <1>1, RefsAssumption
  <1>3. (CHOOSE j \in DOMAIN Specs : Specs[j].key_ref = k[1]) = i
    BY SpecsAssumption
  <1> QED
    BY <1>1, <1>2, <1>3 DEF Entered, Keyid

(* Publishing keeps a directory well formed and forgets no key. *)
LEMMA ExtendedIsTyped ==
    ASSUME NEW d, NEW revoked, DirectoryTyped(d, revoked),
           NEW versions, \A i \in DOMAIN Specs : versions[i] \in Versions
    PROVE  /\ DirectoryTyped(Extend(d, KeyRefs(versions)), revoked)
           /\ DOMAIN d \subseteq DOMAIN Extend(d, KeyRefs(versions))
  <1> DEFINE P == KeyRefs(versions)
             E == Extend(d, P)
  <1>1. DOMAIN P = DOMAIN Specs
    BY DEF KeyRefs
  <1>2. ASSUME NEW i \in DOMAIN Specs
        PROVE  /\ P[i].keyid = <<Specs[i].key_ref, versions[i]>>
               /\ P[i].key = ToKeyRef(Specs[i])
               /\ P[i].keyid \in Keyid
               /\ P[i].key \in KeyRef
               /\ P[i].key = Entered(P[i].keyid)
               /\ P[i].key.revoked_at = {}
    BY EnteredOfSpec, SpecTyped DEF KeyRefs
  <1> HIDE DEF P
  <1>3. ASSUME NEW k \in Keyids(P)
        PROVE  /\ LastOf(P, k) \in DOMAIN Specs
               /\ P[LastOf(P, k)].keyid = k
    <2>1. PICK i \in DOMAIN Specs : P[i].keyid = k
      BY <1>1 DEF Keyids
    <2>2. ASSUME NEW j \in DOMAIN P, P[j].keyid = k
          PROVE  j = i
      <3>1. Specs[j].key_ref = Specs[i].key_ref
        BY <1>1, <1>2, <2>1, <2>2
      <3> QED
        BY <1>1, <3>1, SpecsAssumption
    <2>3. i \in Nat
      BY SpecsAssumption
    <2>4. \E l \in DOMAIN P :
              /\ P[l].keyid = k
              /\ \A j \in DOMAIN P : P[j].keyid = k => j <= l
      <3>1. i \in DOMAIN P /\ i <= i
        BY <1>1, <2>3
      <3>2. \A j \in DOMAIN P : P[j].keyid = k => j <= i
        BY <2>2, <3>1
      <3> QED
        BY <2>1, <3>1, <3>2
    <2> QED
      BY <1>1, <2>4 DEF LastOf
  <1>4. DOMAIN E = DOMAIN d \cup Keyids(P)
    BY DEF Extend
  <1>5. \A k \in DOMAIN E :
            E[k] = IF k \in Keyids(P) THEN P[LastOf(P, k)].key ELSE d[k]
    BY DEF Extend
  <1>6. E = [k \in DOMAIN E |-> E[k]]
    BY DEF Extend
  <1> HIDE DEF E
  <1>7. ASSUME NEW k \in DOMAIN E
        PROVE  /\ k \in Keyid
               /\ E[k] \in KeyRef
               /\ [E[k] EXCEPT !.revoked_at = {}] = Entered(k)
               /\ \A at \in E[k].revoked_at : [keyid |-> k, at |-> at] \in revoked
    <2>1. CASE k \in Keyids(P)
      <3> DEFINE i == LastOf(P, k)
      <3>1. E[k] = P[i].key /\ i \in DOMAIN Specs /\ P[i].keyid = k
        BY <1>3, <1>5, <2>1
      <3> HIDE DEF i
      <3>2. /\ E[k] \in KeyRef /\ k \in Keyid
            /\ E[k] = Entered(k) /\ E[k].revoked_at = {}
        BY <1>2, <3>1
      <3>3. [E[k] EXCEPT !.revoked_at = {}] = E[k]
        BY <3>2 DEF KeyRef
      <3> QED
        BY <3>2, <3>3
    <2>2. CASE k \notin Keyids(P)
      <3>1. k \in DOMAIN d /\ E[k] = d[k]
        BY <1>4, <1>5, <2>2
      <3> QED
        BY <3>1 DEF DirectoryTyped
    <2> QED
      BY <2>1, <2>2
  <1>8. DirectoryTyped(E, revoked)
    BY <1>6, <1>7 DEF DirectoryTyped
  <1> QED
    BY <1>4, <1>8 DEF E, P

LEMMA PeopleAreTyped ==
    ASSUME NEW revoked
    PROVE  DirectoryTyped(People, revoked)
  <1>1. ASSUME NEW a \in Approvers
        PROVE  /\ [People[a] EXCEPT !.revoked_at = {}] = Entered(a)
               /\ People[a].revoked_at = {}
    <2>1. People[a] \in KeyRef /\ People[a].revoked_at = {}
      BY SpecsAssumption
    <2>2. [People[a] EXCEPT !.revoked_at = {}] = People[a]
      BY <2>1 DEF KeyRef
    <2> QED
      BY <2>1, <2>2 DEF Entered
  <1> QED
    BY <1>1, SpecsAssumption DEF DirectoryTyped, Keyid

LEMMA KeyRefsNowExtend ==
    ASSUME NEW d, NEW revoked, DirectoryTyped(d, revoked), version \in [Refs -> Versions]
    PROVE  /\ DirectoryTyped(Extend(d, KeyRefsNow), revoked)
           /\ DOMAIN d \subseteq DOMAIN Extend(d, KeyRefsNow)
  <1> DEFINE versions == [i \in DOMAIN Specs |-> CurrentVersion(Specs[i].key_ref)]
  <1>1. \A i \in DOMAIN Specs : versions[i] \in Versions
    BY CurrentIsVersion, SpecTyped
  <1>2. KeyRefsNow = KeyRefs(versions)
    BY DEF KeyRefsNow
  <1> HIDE DEF versions
  <1> QED
    BY <1>1, <1>2, ExtendedIsTyped

-----------------------------------------------------------------------------
(* The calls. *)

LEMMA NothingGot == <<>> \in Seq(Versions) /\ Len(<<>>) = 0 /\ 0 <= Len(Specs)
  BY SpecsHaveLength

LEMMA NoJobTyped == NoJob \in Job /\ JobOK(NoJob) /\ NoJob.held = {} /\ NoJob.step = "idle"
  <1>1. <<>> \in Seq(Versions) /\ Len(<<>>) = 0 /\ 0 <= Len(Specs)
    BY NothingGot
  <1>2. NoJob \in Job
    BY <1>1, VersionOne DEF NoJob, Job
  <1>3. /\ NoJob.step = "idle" /\ NoJob.purpose = "trust"
        /\ NoJob.held = {} /\ NoJob.got = <<>>
    BY DEF NoJob
  <1> QED
    BY <1>1, <1>2, <1>3 DEF JobOK

LEMMA PutIsTyped ==
    ASSUME JobsTyped, NEW t \in Tasks, NEW j \in Job, JobOK(j), Put(t, j)
    PROVE  /\ JobsTyped'
           /\ job'[t] = j
           /\ \A u \in Tasks \ {t} : job'[u] = job[u]
  BY DEF JobsTyped, Put

(* The reference a call is about. *)
LEMMA RefOfTyped ==
    ASSUME JobsTyped, NEW t \in Tasks,
           \/ job[t].purpose \in Purposes
           \/ Len(job[t].got) < Len(Specs)
    PROVE  RefOf(t) \in Refs
  <1>1. CASE job[t].purpose = "trust"
    <2>1. job[t].got \in Seq(Versions)
      BY DEF JobsTyped, Job
    <2>2. Len(job[t].got) + 1 \in DOMAIN Specs
      BY <1>1, <2>1, SpecsAssumption DEF Purposes
    <2> QED
      BY <1>1, <2>2, SpecTyped DEF RefOf
  <1>2. CASE job[t].purpose # "trust"
    <2>1. job[t].purpose \in Purposes
      BY <1>2 DEF JobsTyped, Job
    <2> QED
      BY <1>2, <2>1, RefsAssumption DEF RefOf
  <1> QED
    BY <1>1, <1>2

(* What a call starts with. *)
LEMMA BeginIsTyped ==
    ASSUME TypeOK, NEW t \in Tasks, NEW purpose \in Purposes, NEW approver \in Approvers \cup {""},
           purpose = "decision" => approver \in Approvers, Begin(t, purpose, approver)
    PROVE  JobsTyped' /\ job'[t].step \notin {"keep_signer", "keep_public_key"}
                      /\ \A u \in Tasks \ {t} : job'[u] = job[u]
  <1> DEFINE hit == Fresh(signers[RefFor[purpose]], SignerTTL)
             j == [NoJob EXCEPT !.step = IF hit = {} THEN "get_signer" ELSE "sign",
                                !.purpose = purpose, !.approver = approver,
                                !.date = now, !.held = hit]
  <1>1. RefFor[purpose] \in Refs
    BY RefsAssumption
  <1>2. hit = {} \/ \E s \in Signer : hit = {s}
    BY <1>1, TypeParts, HitsAreOneValue
  <1> HIDE DEF hit
  <1>3. /\ j.step = (IF hit = {} THEN "get_signer" ELSE "sign") /\ j.purpose = purpose
        /\ j.approver = approver /\ j.held = hit /\ j.got = <<>>
    BY DEF NoJob
  <1>4. j \in Job
    BY <1>2, NoJobTyped, TypeParts DEF Job, ClocksTyped, NoJob
  <1>5. Len(<<>>) = 0 /\ 0 <= Len(Specs)
    BY NothingGot
  <1>6. Put(t, j)
    BY DEF Begin, hit
  <1> HIDE DEF j
  <1>7. JobOK(j)
    BY <1>2, <1>3, <1>5 DEF JobOK, Purposes
  <1>8. j.step \notin {"keep_signer", "keep_public_key"}
    BY <1>3
  <1> QED
    BY <1>4, <1>6, <1>7, <1>8, PutIsTyped, TypeParts

(* The other moves of a call: typed before, typed afterwards. *)
LEMMA MovesAreTyped ==
    ASSUME TypeOK, NEW t \in Tasks,
           \/ ProviderGivesSigner(t) \/ Sign(t) \/ PrepareDecision(t) \/ ProviderFails(t)
           \/ BeginTrust(t) \/ PublicKey(t) \/ ProviderGivesPublicKey(t)
    PROVE  \E j \in Job : JobOK(j) /\ Put(t, j)
  <1>1. JobsTyped /\ job[t] \in Job /\ JobOK(job[t]) /\ version \in [Refs -> Versions]
    BY TypeParts DEF JobsTyped, ClocksTyped
  <1>2. ASSUME ProviderGivesSigner(t)
        PROVE  \E j \in Job : JobOK(j) /\ Put(t, j)
    <2> DEFINE signer == GetSigner(RefOf(t))
               j == [job[t] EXCEPT !.step = "keep_signer", !.held = {signer}]
    <2>1. job[t].step = "get_signer" /\ Put(t, j)
      BY <1>2 DEF ProviderGivesSigner
    <2>2. job[t].purpose \in Purposes
      BY <1>1, <2>1 DEF JobOK
    <2>3. signer \in Signer
      BY <1>1, <2>2, RefOfTyped, SignersAreSigners
    <2> HIDE DEF signer
    <2>4. j \in Job
      BY <1>1, <2>3 DEF Job
    <2>5. /\ j.step = "keep_signer" /\ j.purpose = job[t].purpose
          /\ j.approver = job[t].approver /\ j.held = {signer} /\ j.got = job[t].got
      BY <1>1 DEF Job
    <2> HIDE DEF j
    <2>6. JobOK(j)
      BY <1>1, <2>2, <2>3, <2>5 DEF JobOK
    <2> QED
      BY <2>1, <2>4, <2>6
  <1>3. ASSUME Sign(t)
        PROVE  \E j \in Job : JobOK(j) /\ Put(t, j)
    <2> DEFINE made == {SignWith(s, RefOf(t)) : s \in job[t].held}
               j == [job[t] EXCEPT !.step = "submit", !.held = {}, !.signatures = made]
    <2>1. job[t].step = "sign" /\ Put(t, j)
      BY <1>3 DEF Sign
    <2>2. job[t].purpose \in Purposes
      BY <1>1, <2>1 DEF JobOK
    <2>3. \A s \in job[t].held : s \in Signer
      BY <1>1, <2>1 DEF JobOK
    <2>4. made \subseteq Signature
      BY <1>1, <2>2, <2>3, RefOfTyped, SignaturesAreSignatures
    <2> HIDE DEF made
    <2>5. j \in Job
      BY <1>1, <2>4 DEF Job
    <2>6. /\ j.step = "submit" /\ j.purpose = job[t].purpose
          /\ j.approver = job[t].approver /\ j.got = job[t].got
      BY <1>1 DEF Job
    <2> HIDE DEF j
    <2>7. JobOK(j)
      BY <1>1, <2>2, <2>6 DEF JobOK
    <2> QED
      BY <2>1, <2>5, <2>7
  <1>4. ASSUME PrepareDecision(t)
        PROVE  \E j \in Job : JobOK(j) /\ Put(t, j)
    <2>1. PICK a \in Approvers :
              Put(t, [NoJob EXCEPT !.step = "submit", !.purpose = "decision",
                                   !.approver = a, !.date = now,
                                   !.signatures = {[keyid |-> a, by |-> a]}])
      BY <1>4 DEF PrepareDecision
    <2> DEFINE own == {[keyid |-> a, by |-> a]}
               j == [NoJob EXCEPT !.step = "submit", !.purpose = "decision",
                                  !.approver = a, !.date = now, !.signatures = own]
    <2>2. own \subseteq Signature
      BY DEF Signature, Keyid
    <2>3. now \in Times
      BY TypeParts DEF ClocksTyped
    <2>4. j \in Job
      BY <2>2, <2>3, NoJobTyped DEF Job, Purposes
    <2>5. /\ j.step = "submit" /\ j.purpose = "decision" /\ j.approver = a /\ j.got = <<>>
      BY DEF NoJob
    <2>6. Put(t, j)
      BY <2>1
    <2> HIDE DEF j
    <2>7. JobOK(j)
      BY <2>5, NothingGot DEF JobOK, Purposes
    <2> QED
      BY <2>4, <2>6, <2>7
  <1>5. ASSUME ProviderFails(t)
        PROVE  \E j \in Job : JobOK(j) /\ Put(t, j)
    BY <1>5, NoJobTyped DEF ProviderFails, Finish
  <1>6. ASSUME BeginTrust(t)
        PROVE  \E j \in Job : JobOK(j) /\ Put(t, j)
    <2> DEFINE j == [NoJob EXCEPT !.step = "public_key"]
    <2>1. j \in Job /\ Put(t, j)
      BY <1>6, NoJobTyped DEF BeginTrust, Job
    <2>2. j.step = "public_key" /\ j.purpose = "trust" /\ j.got = <<>>
      BY DEF NoJob
    <2> HIDE DEF j
    <2>3. JobOK(j)
      BY <2>2, NothingGot DEF JobOK
    <2> QED
      BY <2>1, <2>3
  <1>7. ASSUME job[t].step = "public_key", Len(job[t].got) < Len(Specs)
        PROVE  /\ job[t].purpose = "trust"
               /\ RefOf(t) \in Refs
    BY <1>1, <1>7, RefOfTyped DEF JobOK
  <1>8. ASSUME PublicKey(t)
        PROVE  \E j \in Job : JobOK(j) /\ Put(t, j)
    <2> DEFINE hit == Fresh(pubs[RefOf(t)], PubkeyTTL)
    <2>0. job[t].step = "public_key" /\ Len(job[t].got) < Len(Specs)
      BY <1>8 DEF PublicKey
    <2>1. job[t].purpose = "trust" /\ RefOf(t) \in Refs
      BY <1>7, <2>0
    <2>2. CASE hit = {}
      <3> DEFINE j == [job[t] EXCEPT !.step = "get_public_key"]
      <3>1. j \in Job /\ Put(t, j)
        BY <1>1, <1>8, <2>2 DEF PublicKey, Job
      <3>2. /\ j.step = "get_public_key" /\ j.purpose = job[t].purpose
            /\ j.approver = job[t].approver /\ j.got = job[t].got
        BY <1>1 DEF Job
      <3> HIDE DEF j
      <3>3. JobOK(j)
        BY <1>1, <2>0, <2>1, <3>2 DEF JobOK
      <3> QED
        BY <3>1, <3>3
    <2>3. CASE hit # {}
      <3>1. PICK pub \in hit : Put(t, [job[t] EXCEPT !.got = Append(@, pub.label)])
        BY <1>8, <2>3 DEF PublicKey
      <3>2. pub \in PublicKeyMaterial
        BY <2>1, <2>3, TypeParts, HitsAreOneValue
      <3> DEFINE got == Append(job[t].got, pub.label)
                 j == [job[t] EXCEPT !.got = got]
      <3>3. job[t].got \in Seq(Versions) /\ pub.label \in Versions
        BY <1>1, <3>2 DEF Job, PublicKeyMaterial
      <3>4. got \in Seq(Versions) /\ Len(got) = Len(job[t].got) + 1
            /\ Len(job[t].got) \in Nat
        BY <3>3
      <3> HIDE DEF got
      <3>5. j \in Job
        BY <1>1, <3>4 DEF Job
      <3>6. /\ j.step = job[t].step /\ j.purpose = job[t].purpose
            /\ j.approver = job[t].approver /\ j.got = got
        BY <1>1 DEF Job
      <3>7. Put(t, j)
        BY <3>1 DEF got
      <3> HIDE DEF j
      <3>8. JobOK(j)
        BY <1>1, <2>0, <2>1, <3>4, <3>6, SpecsHaveLength DEF JobOK
      <3> QED
        BY <3>5, <3>7, <3>8
    <2> QED
      BY <2>2, <2>3
  <1>9. ASSUME ProviderGivesPublicKey(t)
        PROVE  \E j \in Job : JobOK(j) /\ Put(t, j)
    <2> DEFINE pub == GetPublicKey(RefOf(t))
               j == [job[t] EXCEPT !.step = "keep_public_key", !.held = {pub}]
    <2>1. job[t].step = "get_public_key" /\ Put(t, j)
      BY <1>9 DEF ProviderGivesPublicKey
    <2>2. job[t].purpose = "trust" /\ Len(job[t].got) < Len(Specs)
      BY <1>1, <2>1 DEF JobOK
    <2>3. pub \in PublicKeyMaterial
      BY <1>1, <2>2, RefOfTyped, SignersAreSigners
    <2> HIDE DEF pub
    <2>4. j \in Job
      BY <1>1, <2>3 DEF Job
    <2>5. /\ j.step = "keep_public_key" /\ j.purpose = job[t].purpose
          /\ j.approver = job[t].approver /\ j.held = {pub} /\ j.got = job[t].got
      BY <1>1 DEF Job
    <2> HIDE DEF j
    <2>6. JobOK(j)
      BY <1>1, <2>2, <2>3, <2>5 DEF JobOK
    <2> QED
      BY <2>1, <2>4, <2>6
  <1> QED
    BY <1>2, <1>3, <1>4, <1>5, <1>6, <1>8, <1>9

-----------------------------------------------------------------------------
(* The inductive invariant. *)

Keeping == {"keep_signer", "keep_public_key"}

(* Versions count upwards, and a version by name is the first. *)
FloorIsBelow ==
    \A r \in Refs :
        /\ floor[r] <= version[r]
        /\ SchemeOf[r] = "gcpkms" => version[r] = 1

(* What a call is about to keep was fetched after the last invalidate. *)
HeldIsAbove ==
    \A t \in Tasks :
        job[t].step \in Keeping =>
            \A s \in job[t].held : s.label >= floor[RefOf(t)]

(* The validity and the use of a key, its revocation aside. *)
Vouches(key, d) ==
    /\ key.not_before <= d.decided_at
    /\ \A end \in key.not_after : d.decided_at <= end
    /\ \/ key.key_use = "approver" /\ key.owner_id = d.approver_id
       \/ /\ key.key_use = "decision_issuer"
          /\ IdentityKnown(d.approver_id, Roster)
          /\ ScopedTo(key, Log)

(* Every decision has a true signature by a key that the directory has and *)
(* that, as entered, vouches for it.                                       *)
Vouched ==
    \A d \in decisions :
        \E s \in d.signatures :
            /\ s.by = s.keyid
            /\ s.keyid \in DOMAIN dir
            /\ Vouches(Entered(s.keyid), d)

IInv ==
    /\ TypeOK
    /\ FloorIsBelow
    /\ HeldIsAbove
    /\ InvalidateTakes
    /\ Durable => Vouched

(* A key of the directory is as entered, but for its revocation. *)
LEMMA DirectoryAsEntered ==
    ASSUME TypeOK, NEW k \in DOMAIN dir
    PROVE  /\ dir[k].owner_id = Entered(k).owner_id /\ dir[k].key_use = Entered(k).key_use
           /\ dir[k].not_before = Entered(k).not_before
           /\ dir[k].not_after = Entered(k).not_after
           /\ dir[k].log_ids = Entered(k).log_ids
           /\ k \in Keyid /\ dir[k] \in KeyRef
  <1>1. dir[k] \in KeyRef /\ [dir[k] EXCEPT !.revoked_at = {}] = Entered(k) /\ k \in Keyid
    BY TypeParts DEF DirectoryTyped
  <1> DEFINE clean == [dir[k] EXCEPT !.revoked_at = {}]
  <1>2. /\ clean.owner_id = dir[k].owner_id /\ clean.key_use = dir[k].key_use
        /\ clean.not_before = dir[k].not_before /\ clean.not_after = dir[k].not_after
        /\ clean.log_ids = dir[k].log_ids
    BY <1>1 DEF KeyRef
  <1>3. clean = Entered(k)
    BY <1>1
  <1> HIDE DEF clean
  <1> QED
    BY <1>1, <1>2, <1>3

(* A decision that is accepted is vouched for. *)
LEMMA AuthorizedIsVouched ==
    ASSUME TypeOK, NEW d, DecisionAuthorized(d, Log, dir, Roster)
    PROVE  \E s \in d.signatures :
               /\ s.by = s.keyid
               /\ s.keyid \in DOMAIN dir
               /\ Vouches(Entered(s.keyid), d)
  <1>1. PICK k \in VerifiedKeyids(d.signatures, dir, d.decided_at) :
            \/ dir[k].key_use = "approver" /\ dir[k].owner_id = d.approver_id
            \/ /\ dir[k].key_use = "decision_issuer"
               /\ IdentityKnown(d.approver_id, Roster)
               /\ ScopedTo(dir[k], Log)
    BY DEF DecisionAuthorized
  <1>2. PICK s \in d.signatures : /\ k = s.keyid /\ s.keyid \in DOMAIN dir
                                  /\ s.by = s.keyid /\ ValidAt(dir[s.keyid], d.decided_at)
    BY <1>1 DEF VerifiedKeyids
  <1>3. Vouches(Entered(k), d)
    BY <1>1, <1>2, DirectoryAsEntered DEF Vouches, ValidAt, ScopedTo
  <1> QED
    BY <1>2, <1>3

(* A decision that is vouched for is accepted or has a revoked key. *)
LEMMA VouchedIsSafe ==
    ASSUME TypeOK, Vouched
    PROVE  RotationIsSafe
  <1> SUFFICES ASSUME NEW d \in decisions, ~Revoked(d)
               PROVE  DecisionAuthorized(d, Log, dir, Roster)
    BY DEF RotationIsSafe
  <1>1. PICK s \in d.signatures : /\ s.by = s.keyid
                                  /\ s.keyid \in DOMAIN dir
                                  /\ Vouches(Entered(s.keyid), d)
    BY DEF Vouched
  <1> DEFINE k == s.keyid
  <1>2. d.decided_at \in Nat
    BY TypeParts, BoundsAssumption DEF RecordsTyped, Times
  <1>3. \A at \in dir[k].revoked_at : d.decided_at < at
    <2> SUFFICES ASSUME NEW at \in dir[k].revoked_at
                 PROVE  d.decided_at < at
      OBVIOUS
    <2>1. at \in Nat
      BY <1>1, DirectoryAsEntered DEF KeyRef
    <2> DEFINE call == [keyid |-> k, at |-> at]
    <2>2. call \in revocations
      BY <1>1, TypeParts DEF DirectoryTyped
    <2>3. call.at = at /\ call.keyid \in {x.keyid : x \in d.signatures}
      OBVIOUS
    <2> HIDE DEF call
    <2>4. ~(at <= d.decided_at)
      BY <2>2, <2>3 DEF Revoked
    <2> QED
      BY <1>2, <2>1, <2>4
  <1>4. ValidAt(dir[k], d.decided_at)
    BY <1>1, <1>3, DirectoryAsEntered DEF ValidAt, Vouches
  <1>5. k \in VerifiedKeyids(d.signatures, dir, d.decided_at)
    BY <1>1, <1>4 DEF VerifiedKeyids
  <1>6. Vouches(dir[k], d)
    BY <1>1, DirectoryAsEntered DEF Vouches, ScopedTo
  <1> QED
    BY <1>5, <1>6 DEF DecisionAuthorized, Vouches

(* Vouching is for good: keys are not forgotten. *)
LEMMA VouchedStays ==
    ASSUME Vouched, decisions' = decisions, DOMAIN dir \subseteq DOMAIN dir'
    PROVE  Vouched'
  BY DEF Vouched

-----------------------------------------------------------------------------
(* The steps. *)

(* The provider hands out the version of now, which no floor is above. *)
LEMMA CurrentIsAbove ==
    ASSUME IInv, NEW r \in Refs
    PROVE  CurrentVersion(r) >= floor[r] /\ CurrentVersion(r) \in Versions
  <1>1. floor[r] <= version[r] /\ (SchemeOf[r] = "gcpkms" => version[r] = 1)
    BY DEF IInv, FloorIsBelow
  <1>2. version[r] \in Nat /\ floor[r] \in Nat
    BY TypeParts, BoundsAssumption DEF IInv, ClocksTyped, Versions
  <1>3. SchemeOf[r] \in Schemes
    BY RefsAssumption
  <1>4. CurrentVersion(r) = version[r]
    BY <1>1, <1>3 DEF CurrentVersion, Schemes, LocalVersion, VaultVersion, AwsVersion, GcpVersion
  <1>5. version \in [Refs -> Versions]
    BY TypeParts DEF IInv, ClocksTyped
  <1> QED
    BY <1>1, <1>2, <1>4, <1>5

(* Only one call has moved, and what it holds is recent. *)
LEMMA OneCallMoves ==
    ASSUME IInv, NEW t \in Tasks, JobsTyped',
           \A u \in Tasks \ {t} : job'[u] = job[u],
           job'[t].step \in Keeping =>
               \A s \in job'[t].held : s.label >= floor[RefOf(t)'],
           floor' = floor
    PROVE  HeldIsAbove'
  <1>1. \A u \in Tasks \ {t} : RefOf(u)' = RefOf(u)
    BY DEF RefOf
  <1> QED
    BY <1>1 DEF IInv, HeldIsAbove

LEMMA IdleHoldsNothing ==
    ASSUME JobsTyped, NEW t \in Tasks, Finish(t)
    PROVE  /\ JobsTyped'
           /\ \A u \in Tasks \ {t} : job'[u] = job[u]
           /\ job'[t].step \notin Keeping
  BY NoJobTyped, PutIsTyped DEF Finish, Keeping

LEMMA BeginKeeps ==
    ASSUME IInv, NEW t \in Tasks, BeginDecision(t) \/ BeginCheckpoint(t)
    PROVE  IInv'
  <1>1. PICK purpose \in Purposes, approver \in Approvers \cup {""} :
            /\ purpose = "decision" => approver \in Approvers
            /\ Begin(t, purpose, approver)
    BY DEF BeginDecision, BeginCheckpoint, Purposes
  <1>2. /\ JobsTyped' /\ job'[t].step \notin Keeping
        /\ \A u \in Tasks \ {t} : job'[u] = job[u]
    BY <1>1, BeginIsTyped DEF IInv, Keeping
  <1>3. UNCHANGED <<signers, pubs, dir, clock, records, floor>>
    BY <1>1 DEF Begin
  <1>4. TypeOK'
    BY <1>2, <1>3, TypeParts, TypePartsNext
    DEF IInv, ClocksTyped, CachesTyped, CacheTyped, RecordsTyped, clock, records
  <1>5. HeldIsAbove'
    BY <1>2, <1>3, OneCallMoves
  <1>6. FloorIsBelow' /\ InvalidateTakes' /\ (Durable => Vouched')
    BY <1>3 DEF IInv, FloorIsBelow, InvalidateTakes, Vouched, clock, records
  <1> QED
    BY <1>4, <1>5, <1>6 DEF IInv

LEMMA MovesKeep ==
    ASSUME IInv, NEW t \in Tasks,
           \/ ProviderGivesSigner(t) \/ Sign(t) \/ PrepareDecision(t) \/ ProviderFails(t)
           \/ BeginTrust(t) \/ PublicKey(t) \/ ProviderGivesPublicKey(t)
    PROVE  IInv'
  <1>0. JobsTyped /\ job[t] \in Job /\ JobOK(job[t]) /\ TypeOK
    BY TypeParts DEF IInv, JobsTyped
  <1>1. PICK j \in Job : JobOK(j) /\ Put(t, j)
    BY <1>0, MovesAreTyped
  <1>2. JobsTyped' /\ job'[t] = j /\ \A u \in Tasks \ {t} : job'[u] = job[u]
    BY <1>0, <1>1, PutIsTyped
  <1>3. UNCHANGED <<signers, pubs, dir, clock, records, floor>>
    BY DEF ProviderGivesSigner, Sign, PrepareDecision, ProviderFails, BeginTrust,
           PublicKey, ProviderGivesPublicKey
  <1>4. TypeOK'
    BY <1>2, <1>3, TypeParts, TypePartsNext
    DEF IInv, ClocksTyped, CachesTyped, CacheTyped, RecordsTyped, clock, records
  <1>5. job'[t].step \in Keeping =>
            \A s \in job'[t].held : s.label >= floor[RefOf(t)']
    <2>1. CASE ProviderGivesSigner(t)
      <3>1. /\ job[t].step = "get_signer"
            /\ job' = [job EXCEPT ![t] = [job[t] EXCEPT !.step = "keep_signer",
                                                        !.held = {GetSigner(RefOf(t))}]]
        BY <2>1 DEF ProviderGivesSigner, Put
      <3>2. RefOf(t) \in Refs
        BY <1>0, <3>1, RefOfTyped DEF JobOK
      <3>3. /\ job'[t].purpose = job[t].purpose /\ job'[t].got = job[t].got
            /\ job'[t].held = {GetSigner(RefOf(t))}
        BY <1>0, <3>1 DEF JobsTyped, Job
      <3>4. RefOf(t)' = RefOf(t)
        BY <3>3 DEF RefOf
      <3>5. GetSigner(RefOf(t)).label >= floor[RefOf(t)]
        BY <3>2, CurrentIsAbove DEF GetSigner
      <3> QED
        BY <3>3, <3>4, <3>5
    <2>2. CASE ProviderGivesPublicKey(t)
      <3>1. /\ job[t].step = "get_public_key"
            /\ job' = [job EXCEPT ![t] = [job[t] EXCEPT !.step = "keep_public_key",
                                                        !.held = {GetPublicKey(RefOf(t))}]]
        BY <2>2 DEF ProviderGivesPublicKey, Put
      <3>2. RefOf(t) \in Refs
        BY <1>0, <3>1, RefOfTyped DEF JobOK
      <3>3. /\ job'[t].purpose = job[t].purpose /\ job'[t].got = job[t].got
            /\ job'[t].held = {GetPublicKey(RefOf(t))}
        BY <1>0, <3>1 DEF JobsTyped, Job
      <3>4. RefOf(t)' = RefOf(t)
        BY <3>3 DEF RefOf
      <3>5. GetPublicKey(RefOf(t)).label >= floor[RefOf(t)]
        BY <3>2, CurrentIsAbove DEF GetPublicKey
      <3> QED
        BY <3>3, <3>4, <3>5
    <2>3. CASE Sign(t) \/ PrepareDecision(t) \/ BeginTrust(t)
      <3>1. job'[t].step \in {"submit", "public_key"}
        <4>1. CASE Sign(t)
          BY <1>0, <4>1 DEF Sign, Put, JobsTyped, Job
        <4>2. CASE PrepareDecision(t)
          BY <1>0, <4>2 DEF PrepareDecision, Put, JobsTyped, NoJob
        <4>3. CASE BeginTrust(t)
          BY <1>0, <4>3 DEF BeginTrust, Put, JobsTyped, NoJob
        <4> QED
          BY <2>3, <4>1, <4>2, <4>3
      <3> QED
        BY <3>1 DEF Keeping
    <2>4. CASE ProviderFails(t)
      BY <1>0, <2>4, IdleHoldsNothing DEF ProviderFails
    <2>5. CASE PublicKey(t)
      <3>1. job'[t].step \in {"public_key", "get_public_key"}
        <4> DEFINE hit == Fresh(pubs[RefOf(t)], PubkeyTTL)
        <4>1. CASE hit = {}
          BY <1>0, <2>5, <4>1 DEF PublicKey, Put, JobsTyped, Job
        <4>2. CASE hit # {}
          <5>1. PICK pub \in hit : Put(t, [job[t] EXCEPT !.got = Append(@, pub.label)])
            BY <2>5, <4>2 DEF PublicKey
          <5>2. job[t].step = "public_key"
            BY <2>5 DEF PublicKey
          <5> QED
            BY <1>0, <5>1, <5>2 DEF Put, JobsTyped, Job
        <4> QED
          BY <4>1, <4>2
      <3> QED
        BY <3>1 DEF Keeping
    <2> QED
      BY <2>1, <2>2, <2>3, <2>4, <2>5
  <1>6. HeldIsAbove'
    BY <1>2, <1>3, <1>5, OneCallMoves
  <1>7. FloorIsBelow' /\ InvalidateTakes' /\ (Durable => Vouched')
    BY <1>3 DEF IInv, FloorIsBelow, InvalidateTakes, Vouched, clock, records
  <1> QED
    BY <1>4, <1>6, <1>7 DEF IInv

(* What is kept is what was held, which is recent. *)
LEMMA KeepSignerKeeps ==
    ASSUME IInv, NEW t \in Tasks, KeepSigner(t)
    PROVE  IInv'
  <1>0. JobsTyped /\ job[t] \in Job /\ JobOK(job[t]) /\ TypeOK
    BY TypeParts DEF IInv, JobsTyped
  <1> DEFINE r == RefOf(t)
             j == [job[t] EXCEPT !.step = "sign"]
  <1>1. /\ job[t].step = "keep_signer" /\ Put(t, j)
        /\ signers' = [signers EXCEPT ![r] = {Entry(x) : x \in job[t].held}]
        /\ UNCHANGED <<pubs, dir, clock, records, floor>>
    BY DEF KeepSigner
  <1>2. job[t].purpose \in Purposes /\ r \in Refs
    BY <1>0, <1>1, RefOfTyped DEF JobOK
  <1>3. PICK v \in Signer : job[t].held = {v}
    BY <1>0, <1>1 DEF JobOK
  <1>4. signers' = [signers EXCEPT ![r] = {Entry(v)}]
    BY <1>1, <1>3
  <1>5. /\ j \in Job /\ j.step = "sign" /\ j.purpose = job[t].purpose
        /\ j.approver = job[t].approver /\ j.got = job[t].got /\ j.held = {v}
    BY <1>0, <1>3 DEF Job
  <1>6. v.label >= floor[r]
    BY <1>1, <1>3 DEF IInv, HeldIsAbove, Keeping
  <1> HIDE DEF j, r
  <1>7. JobOK(j)
    BY <1>0, <1>2, <1>5 DEF JobOK
  <1>8. /\ JobsTyped' /\ job'[t].step \notin Keeping
        /\ \A u \in Tasks \ {t} : job'[u] = job[u]
    BY <1>0, <1>1, <1>5, <1>7, PutIsTyped DEF Keeping
  <1>9. CachesTyped'
    <2>1. CacheTyped(signers, Signer, SignerTTL) /\ SignerTTL \in Nat
      BY <1>0, TypeParts, BoundsAssumption DEF CachesTyped
    <2> DEFINE kept == [signers EXCEPT ![r] = {Entry(v)}]
    <2>2. CacheTyped(kept, Signer, SignerTTL)
      BY <1>2, <2>1, KeptIsTyped
    <2>3. CacheTyped(pubs, PublicKeyMaterial, PubkeyTTL)
      BY <1>0, TypeParts DEF CachesTyped
    <2> QED
      BY <1>1, <1>4, <2>2, <2>3 DEF CachesTyped, CacheTyped
  <1>10. TypeOK'
    BY <1>0, <1>1, <1>8, <1>9, TypeParts, TypePartsNext
    DEF ClocksTyped, RecordsTyped, clock, records
  <1>11. HeldIsAbove'
    BY <1>1, <1>8, OneCallMoves
  <1>12. InvalidateTakes'
    <2> SUFFICES ASSUME NEW q \in Refs, NEW e \in signers'[q] \cup pubs[q]
                 PROVE  e.value.label >= floor[q]
      BY <1>1 DEF InvalidateTakes
    <2>1. CASE e \in signers[q] \cup pubs[q]
      BY <2>1 DEF IInv, InvalidateTakes
    <2>2. CASE e \notin signers[q] \cup pubs[q]
      <3>1. signers \in [Refs -> SUBSET [value : Signer, age : 0 .. SignerTTL]]
        BY <1>0, TypeParts DEF CachesTyped, CacheTyped
      <3>2. q = r /\ e = Entry(v)
        BY <1>2, <1>4, <2>2, <3>1
      <3> QED
        BY <1>6, <3>2 DEF Entry
    <2> QED
      BY <2>1, <2>2
  <1>13. FloorIsBelow' /\ (Durable => Vouched')
    BY <1>1 DEF IInv, FloorIsBelow, Vouched, clock, records
  <1> QED
    BY <1>10, <1>11, <1>12, <1>13 DEF IInv

LEMMA KeepPublicKeyKeeps ==
    ASSUME IInv, NEW t \in Tasks, KeepPublicKey(t)
    PROVE  IInv'
  <1>0. JobsTyped /\ job[t] \in Job /\ JobOK(job[t]) /\ TypeOK
    BY TypeParts DEF IInv, JobsTyped
  <1> DEFINE r == RefOf(t)
  <1>1. /\ job[t].step = "keep_public_key"
        /\ pubs' = [pubs EXCEPT ![r] = {Entry(x) : x \in job[t].held}]
        /\ UNCHANGED <<signers, dir, clock, records, floor>>
    BY DEF KeepPublicKey
  <1>2. job[t].purpose = "trust" /\ Len(job[t].got) < Len(Specs) /\ r \in Refs
    BY <1>0, <1>1, RefOfTyped DEF JobOK
  <1>3. PICK v \in PublicKeyMaterial : job[t].held = {v}
    BY <1>0, <1>1 DEF JobOK
  <1> DEFINE got == Append(job[t].got, v.label)
             j == [job[t] EXCEPT !.step = "public_key", !.held = {}, !.got = got]
  <1>4. Put(t, j) /\ pubs' = [pubs EXCEPT ![r] = {Entry(v)}]
    BY <1>1, <1>3 DEF KeepPublicKey
  <1>5. job[t].got \in Seq(Versions) /\ v.label \in Versions
    BY <1>0, <1>3 DEF Job, PublicKeyMaterial
  <1>6. got \in Seq(Versions) /\ Len(got) = Len(job[t].got) + 1 /\ Len(job[t].got) \in Nat
    BY <1>5
  <1> HIDE DEF got
  <1>7. /\ j \in Job /\ j.step = "public_key" /\ j.purpose = job[t].purpose
        /\ j.approver = job[t].approver /\ j.got = got
    BY <1>0, <1>6 DEF Job
  <1>8. v.label >= floor[r]
    BY <1>1, <1>3 DEF IInv, HeldIsAbove, Keeping
  <1> HIDE DEF j, r
  <1>9. JobOK(j)
    BY <1>0, <1>2, <1>6, <1>7, SpecsHaveLength DEF JobOK
  <1>10. /\ JobsTyped' /\ job'[t].step \notin Keeping
         /\ \A u \in Tasks \ {t} : job'[u] = job[u]
    BY <1>0, <1>4, <1>7, <1>9, PutIsTyped DEF Keeping
  <1>11. CachesTyped'
    <2>1. CacheTyped(pubs, PublicKeyMaterial, PubkeyTTL) /\ PubkeyTTL \in Nat
      BY <1>0, TypeParts, BoundsAssumption DEF CachesTyped
    <2> DEFINE kept == [pubs EXCEPT ![r] = {Entry(v)}]
    <2>2. CacheTyped(kept, PublicKeyMaterial, PubkeyTTL)
      BY <1>2, <2>1, KeptIsTyped
    <2>3. CacheTyped(signers, Signer, SignerTTL)
      BY <1>0, TypeParts DEF CachesTyped
    <2> QED
      BY <1>1, <1>4, <2>2, <2>3 DEF CachesTyped, CacheTyped
  <1>12. TypeOK'
    BY <1>0, <1>1, <1>10, <1>11, TypeParts, TypePartsNext
    DEF ClocksTyped, RecordsTyped, clock, records
  <1>13. HeldIsAbove'
    BY <1>1, <1>10, OneCallMoves
  <1>14. InvalidateTakes'
    <2> SUFFICES ASSUME NEW q \in Refs, NEW e \in signers[q] \cup pubs'[q]
                 PROVE  e.value.label >= floor[q]
      BY <1>1 DEF InvalidateTakes
    <2>1. CASE e \in signers[q] \cup pubs[q]
      BY <2>1 DEF IInv, InvalidateTakes
    <2>2. CASE e \notin signers[q] \cup pubs[q]
      <3>1. pubs \in [Refs -> SUBSET [value : PublicKeyMaterial, age : 0 .. PubkeyTTL]]
        BY <1>0, TypeParts DEF CachesTyped, CacheTyped
      <3>2. q = r /\ e = Entry(v)
        BY <1>2, <1>4, <2>2, <3>1
      <3> QED
        BY <1>8, <3>2 DEF Entry
    <2> QED
      BY <2>1, <2>2
  <1>15. FloorIsBelow' /\ (Durable => Vouched')
    BY <1>1 DEF IInv, FloorIsBelow, Vouched, clock, records
  <1> QED
    BY <1>12, <1>13, <1>14, <1>15 DEF IInv

(* What is submitted is checked against the directory of that moment. *)
LEMMA SubmitKeeps ==
    ASSUME IInv, NEW t \in Tasks, SubmitDecision(t) \/ AppendCheckpoint(t)
    PROVE  IInv'
  <1>0. JobsTyped /\ job[t] \in Job /\ JobOK(job[t]) /\ TypeOK
    BY TypeParts DEF IInv, JobsTyped
  <1>1. /\ JobsTyped' /\ job'[t].step \notin Keeping
        /\ \A u \in Tasks \ {t} : job'[u] = job[u]
        /\ UNCHANGED <<signers, pubs, dir, clock, revocations, floor>>
    BY <1>0, IdleHoldsNothing DEF SubmitDecision, AppendCheckpoint
  <1>2. RecordsTyped'
    <2>1. CASE SubmitDecision(t)
      <3>1. job[t].approver \in Approvers
        BY <1>0, <2>1 DEF SubmitDecision, JobOK
      <3>2. Decision(t) \in [approver_id : Approvers, decided_at : Times,
                              signatures : SUBSET Signature]
        BY <1>0, <3>1 DEF Decision, Job
      <3>3. decisions' \subseteq decisions \cup {Decision(t)} /\ published' = published
        BY <2>1 DEF SubmitDecision
      <3> QED
        BY <1>0, <1>1, <3>2, <3>3, TypeParts DEF RecordsTyped
    <2>2. CASE AppendCheckpoint(t)
      <3>1. Checkpoint(t) \in [published_at : Times, signatures : SUBSET Signature]
        BY <1>0 DEF Checkpoint, Job
      <3>2. published' = {Checkpoint(t)} /\ decisions' = decisions
        BY <2>2 DEF AppendCheckpoint
      <3> QED
        BY <1>0, <1>1, <3>1, <3>2, TypeParts DEF RecordsTyped
    <2> QED
      BY <2>1, <2>2
  <1>3. TypeOK'
    BY <1>0, <1>1, <1>2, TypeParts, TypePartsNext DEF ClocksTyped, CachesTyped, CacheTyped, clock
  <1>4. HeldIsAbove'
    BY <1>1, OneCallMoves
  <1>5. Durable => Vouched'
    <2> SUFFICES ASSUME Durable, NEW d \in decisions'
                 PROVE  \E s \in d.signatures : /\ s.by = s.keyid
                                                /\ s.keyid \in DOMAIN dir
                                                /\ Vouches(Entered(s.keyid), d)
      BY <1>1 DEF Vouched
    <2>1. CASE d \in decisions
      BY <2>1 DEF IInv, Vouched
    <2>2. CASE d \notin decisions
      <3>1. DecisionAuthorized(d, Log, dir, Roster)
        BY <2>2 DEF SubmitDecision, AppendCheckpoint
      <3> QED
        BY <1>0, <3>1, AuthorizedIsVouched
    <2> QED
      BY <2>1, <2>2
  <1>6. FloorIsBelow' /\ InvalidateTakes'
    BY <1>1 DEF IInv, FloorIsBelow, InvalidateTakes, clock
  <1> QED
    BY <1>3, <1>4, <1>5, <1>6 DEF IInv

LEMMA TrustReturnsKeeps ==
    ASSUME IInv, NEW t \in Tasks, TrustReturns(t)
    PROVE  IInv'
  <1>0. JobsTyped /\ job[t] \in Job /\ TypeOK
    BY TypeParts DEF IInv, JobsTyped
  <1>1. /\ JobsTyped' /\ job'[t].step \notin Keeping
        /\ \A u \in Tasks \ {t} : job'[u] = job[u]
        /\ UNCHANGED <<signers, pubs, clock, records, floor>>
    BY <1>0, IdleHoldsNothing DEF TrustReturns
  <1>2. \A i \in DOMAIN Specs : job[t].got[i] \in Versions
    <2>1. job[t].got \in Seq(Versions) /\ Len(job[t].got) = Len(Specs)
      BY <1>0 DEF Job, TrustReturns
    <2> QED
      BY <2>1, SpecsHaveLength
  <1>3. DirectoryTyped(dir', revocations') /\ DOMAIN dir \subseteq DOMAIN dir'
    BY <1>0, <1>1, <1>2, TypeParts, ExtendedIsTyped DEF TrustReturns, records
  <1>4. TypeOK'
    BY <1>0, <1>1, <1>3, TypeParts, TypePartsNext
    DEF ClocksTyped, CachesTyped, CacheTyped, RecordsTyped, clock, records
  <1>5. HeldIsAbove'
    BY <1>1, OneCallMoves
  <1>6. Durable => Vouched'
    BY <1>1, <1>3, VouchedStays DEF IInv, records
  <1>7. FloorIsBelow' /\ InvalidateTakes'
    BY <1>1 DEF IInv, FloorIsBelow, InvalidateTakes, clock
  <1> QED
    BY <1>4, <1>5, <1>6, <1>7 DEF IInv

LEMMA RotateKeeps ==
    ASSUME IInv, NEW r \in Refs, Rotate(r)
    PROVE  IInv'
  <1>1. /\ version' = [version EXCEPT ![r] = @ + 1] /\ version[r] < MaxVersion
        /\ SchemeOf[r] # "gcpkms"
        /\ UNCHANGED <<signers, pubs, dir, now, job, records, floor>>
    BY DEF Rotate
  <1>2. ClocksTyped' /\ FloorIsBelow'
    <2>1. ClocksTyped /\ FloorIsBelow
      BY TypeParts DEF IInv
    <2>2. \A q \in Refs : version'[q] = IF q = r THEN version[q] + 1 ELSE version[q]
      BY <1>1, <2>1 DEF ClocksTyped
    <2> QED
      BY <1>1, <2>1, <2>2, BoundsAssumption DEF ClocksTyped, FloorIsBelow, Versions
  <1>3. TypeOK'
    BY <1>1, <1>2, TypeParts, TypePartsNext
    DEF IInv, JobsTyped, CachesTyped, CacheTyped, RecordsTyped, records
  <1>4. HeldIsAbove' /\ InvalidateTakes' /\ (Durable => Vouched')
    BY <1>1 DEF IInv, HeldIsAbove, InvalidateTakes, Vouched, RefOf, records
  <1> QED
    BY <1>2, <1>3, <1>4 DEF IInv

LEMMA RevokeKeeps ==
    ASSUME IInv, NEW k \in DOMAIN dir, NEW at \in Times, Revoke(k, at)
    PROVE  IInv'
  <1>1. /\ dir' = RevokeKey(dir, k, at)
        /\ revocations' = revocations \cup {[keyid |-> k, at |-> at]}
        /\ UNCHANGED <<signers, pubs, clock, job, decisions, published, floor>>
    BY DEF Revoke
  <1>2. DirectoryTyped(dir, revocations) /\ at \in Nat
    BY TypeParts, BoundsAssumption DEF IInv, Times
  <1>3. /\ DOMAIN dir' = DOMAIN dir
        /\ dir' = [q \in DOMAIN dir |-> dir'[q]]
        /\ \A q \in DOMAIN dir \ {k} : dir'[q] = dir[q]
        /\ dir'[k] = [dir[k] EXCEPT !.revoked_at = {at}]
    BY <1>1, <1>2 DEF RevokeKey, DirectoryTyped
  <1>4. /\ dir'[k] \in KeyRef /\ dir'[k].revoked_at = {at}
        /\ [dir'[k] EXCEPT !.revoked_at = {}] = Entered(k)
    <2>1. dir[k] \in KeyRef /\ [dir[k] EXCEPT !.revoked_at = {}] = Entered(k)
      BY <1>2 DEF DirectoryTyped
    <2> DEFINE old == dir[k]
               new == [old EXCEPT !.revoked_at = {at}]
    <2>2. dir'[k] = new /\ old \in KeyRef /\ [old EXCEPT !.revoked_at = {}] = Entered(k)
      BY <1>3, <2>1
    <2> HIDE DEF old
    <2>3. new \in KeyRef /\ new.revoked_at = {at}
      BY <1>2, <2>2 DEF KeyRef
    <2>4. [new EXCEPT !.revoked_at = {}] = [old EXCEPT !.revoked_at = {}]
      BY <2>2 DEF KeyRef
    <2> QED
      BY <2>2, <2>3, <2>4
  <1>5. DirectoryTyped(dir', revocations')
    <2>1. ASSUME NEW q \in DOMAIN dir
          PROVE  /\ dir'[q] \in KeyRef /\ q \in Keyid
                 /\ [dir'[q] EXCEPT !.revoked_at = {}] = Entered(q)
                 /\ \A x \in dir'[q].revoked_at : [keyid |-> q, at |-> x] \in revocations'
      <3>1. CASE q = k
        BY <1>1, <1>2, <1>4, <3>1 DEF DirectoryTyped
      <3>2. CASE q # k
        BY <1>1, <1>2, <1>3, <3>2 DEF DirectoryTyped
      <3> QED
        BY <3>1, <3>2
    <2> QED
      BY <1>3, <2>1 DEF DirectoryTyped
  <1>6. RecordsTyped'
    <2>1. [keyid |-> k, at |-> at] \in [keyid : Keyid, at : Times]
      BY <1>2 DEF DirectoryTyped
    <2> QED
      BY <1>1, <2>1, TypeParts DEF IInv, RecordsTyped
  <1>7. TypeOK'
    BY <1>1, <1>5, <1>6, TypeParts, TypePartsNext
    DEF IInv, ClocksTyped, JobsTyped, CachesTyped, CacheTyped, clock
  <1>8. Durable => Vouched'
    BY <1>1, <1>3, VouchedStays DEF IInv
  <1>9. FloorIsBelow' /\ HeldIsAbove' /\ InvalidateTakes'
    BY <1>1 DEF IInv, FloorIsBelow, HeldIsAbove, InvalidateTakes, RefOf, clock
  <1> QED
    BY <1>7, <1>8, <1>9 DEF IInv

(* The floor is raised only where no call is about to keep anything. *)
LEMMA InvalidateKeeps ==
    ASSUME IInv, Invalidate
    PROVE  IInv'
  <1>1. /\ signers' = [r \in Refs |-> {}] /\ pubs' = [r \in Refs |-> {}]
        /\ floor' = [r \in Refs |-> IF Fetching(r) THEN floor[r] ELSE version[r]]
        /\ UNCHANGED <<dir, clock, job, records>>
    BY DEF Invalidate, Cleared
  <1>2. ClocksTyped' /\ FloorIsBelow'
    <2>1. ClocksTyped /\ FloorIsBelow
      BY TypeParts DEF IInv
    <2> QED
      BY <1>1, <2>1, BoundsAssumption DEF ClocksTyped, FloorIsBelow, Versions, clock
  <1>3. CachesTyped'
    <2>1. CacheTyped([r \in Refs |-> {}], Signer, SignerTTL)
      BY EmptyIsTyped
    <2>2. CacheTyped([r \in Refs |-> {}], PublicKeyMaterial, PubkeyTTL)
      BY EmptyIsTyped
    <2> QED
      BY <1>1, <2>1, <2>2 DEF CachesTyped, CacheTyped
  <1>4. TypeOK'
    BY <1>1, <1>2, <1>3, TypeParts, TypePartsNext DEF IInv, JobsTyped, RecordsTyped, records
  <1>5. HeldIsAbove'
    <2> SUFFICES ASSUME NEW t \in Tasks, job[t].step \in Keeping, NEW s \in job[t].held
                 PROVE  s.label >= floor'[RefOf(t)]
      BY <1>1 DEF HeldIsAbove, RefOf
    <2>1. JobsTyped /\ JobOK(job[t])
      BY TypeParts DEF IInv, JobsTyped
    <2>2. RefOf(t) \in Refs
      BY <2>1, RefOfTyped DEF JobOK, Keeping
    <2>3. Fetching(RefOf(t))
      BY DEF Fetching, Keeping
    <2> QED
      BY <1>1, <2>2, <2>3 DEF IInv, HeldIsAbove
  <1>6. InvalidateTakes' /\ (Durable => Vouched')
    BY <1>1 DEF IInv, InvalidateTakes, Vouched, records
  <1> QED
    BY <1>2, <1>4, <1>5, <1>6 DEF IInv

LEMMA RestartKeeps ==
    ASSUME IInv, Restart
    PROVE  IInv'
  <1>1. /\ job' = [t \in Tasks |-> NoJob]
        /\ signers' = [r \in Refs |-> {}] /\ pubs' = [r \in Refs |-> {}]
        /\ floor' = version
        /\ UNCHANGED <<clock, records>>
    BY DEF Restart, Cleared
  <1>2. ClocksTyped /\ FloorIsBelow /\ DirectoryTyped(dir, revocations)
    BY TypeParts DEF IInv
  <1>3. ClocksTyped' /\ FloorIsBelow'
    BY <1>1, <1>2, BoundsAssumption DEF ClocksTyped, FloorIsBelow, Versions, clock
  <1>4. JobsTyped' /\ HeldIsAbove'
    BY <1>1, NoJobTyped DEF JobsTyped, HeldIsAbove, Keeping
  <1>5. CachesTyped'
    <2>1. CacheTyped([r \in Refs |-> {}], Signer, SignerTTL)
      BY EmptyIsTyped
    <2>2. CacheTyped([r \in Refs |-> {}], PublicKeyMaterial, PubkeyTTL)
      BY EmptyIsTyped
    <2> QED
      BY <1>1, <2>1, <2>2 DEF CachesTyped, CacheTyped
  <1>6. DirectoryTyped(dir', revocations') /\ (Durable => DOMAIN dir \subseteq DOMAIN dir')
    <2>1. CASE Durable
      BY <1>1, <1>2, <2>1, KeyRefsNowExtend DEF Restart, ClocksTyped, records
    <2>2. CASE ~Durable
      BY <1>1, <1>2, <2>2, KeyRefsNowExtend, PeopleAreTyped DEF Restart, ClocksTyped, records
    <2> QED
      BY <2>1, <2>2
  <1>7. TypeOK'
    BY <1>1, <1>3, <1>4, <1>5, <1>6, TypeParts, TypePartsNext DEF IInv, RecordsTyped, records
  <1>8. InvalidateTakes'
    BY <1>1 DEF InvalidateTakes
  <1>9. Durable => Vouched'
    BY <1>1, <1>6, VouchedStays DEF IInv, records
  <1> QED
    BY <1>3, <1>4, <1>7, <1>8, <1>9 DEF IInv

(* Ageing changes no value. *)
LEMMA TickKeeps ==
    ASSUME IInv, Tick
    PROVE  IInv'
  <1>1. /\ now' \in Times
        /\ signers' = Aged(signers, SignerTTL) /\ pubs' = Aged(pubs, PubkeyTTL)
        /\ UNCHANGED <<version, dir, job, records, floor>>
    <2>1. now \in Times
      BY TypeParts DEF IInv, ClocksTyped
    <2> QED
      BY <2>1, BoundsAssumption DEF Tick, Times
  <1>2. ClocksTyped'
    BY <1>1, TypeParts DEF IInv, ClocksTyped
  <1>3. CacheTyped(signers, Signer, SignerTTL) /\ CacheTyped(pubs, PublicKeyMaterial, PubkeyTTL)
    BY TypeParts DEF IInv, CachesTyped
  <1>4. CachesTyped'
    BY <1>1, <1>3, AgedIsTyped, BoundsAssumption DEF CachesTyped, CacheTyped
  <1>5. TypeOK'
    BY <1>1, <1>2, <1>4, TypeParts, TypePartsNext DEF IInv, JobsTyped, RecordsTyped, records
  <1>6. ASSUME NEW cache, NEW values, NEW ttl, CacheTyped(cache, values, ttl),
               NEW r \in Refs, NEW e \in Aged(cache, ttl)[r]
        PROVE  \E x \in cache[r] : e.value = x.value
    <2>1. PICK x \in cache[r] : e = [x EXCEPT !.age = IF @ < ttl THEN @ + 1 ELSE @]
      BY <1>6 DEF Aged
    <2>2. x \in [value : values, age : 0 .. ttl]
      BY <1>6 DEF CacheTyped
    <2> QED
      BY <2>1, <2>2
  <1>7. InvalidateTakes'
    <2> SUFFICES ASSUME NEW r \in Refs, NEW e \in signers'[r] \cup pubs'[r]
                 PROVE  e.value.label >= floor[r]
      BY <1>1 DEF InvalidateTakes
    <2>1. \E x \in signers[r] \cup pubs[r] : e.value = x.value
      BY <1>1, <1>3, <1>6
    <2> QED
      BY <2>1 DEF IInv, InvalidateTakes
  <1>8. FloorIsBelow' /\ HeldIsAbove' /\ (Durable => Vouched')
    BY <1>1 DEF IInv, FloorIsBelow, HeldIsAbove, Vouched, RefOf, records
  <1> QED
    BY <1>5, <1>7, <1>8 DEF IInv

LEMMA InitInvariant == Init => IInv
  <1> SUFFICES ASSUME Init
               PROVE  IInv
    OBVIOUS
  <1> USE DEF Init
  <1>1. ClocksTyped /\ FloorIsBelow
    BY VersionOne DEF ClocksTyped, FloorIsBelow
  <1>2. JobsTyped /\ HeldIsAbove
    BY NoJobTyped DEF JobsTyped, HeldIsAbove, Keeping
  <1>3. CachesTyped
    <2>1. CacheTyped([r \in Refs |-> {}], Signer, SignerTTL)
      BY EmptyIsTyped
    <2>2. CacheTyped([r \in Refs |-> {}], PublicKeyMaterial, PubkeyTTL)
      BY EmptyIsTyped
    <2> QED
      BY <2>1, <2>2 DEF CachesTyped
  <1>4. DirectoryTyped(dir, revocations)
    BY <1>1, PeopleAreTyped, KeyRefsNowExtend DEF ClocksTyped
  <1>5. RecordsTyped /\ InvalidateTakes /\ Vouched
    BY DEF RecordsTyped, InvalidateTakes, Vouched
  <1> QED
    BY <1>1, <1>2, <1>3, <1>4, <1>5, TypeParts DEF IInv

LEMMA InvariantHolds == Spec => []IInv
  <1>1. IInv /\ [Next]_vars => IInv'
    <2> SUFFICES ASSUME IInv, [Next]_vars
                 PROVE  IInv'
      OBVIOUS
    <2>1. \A t \in Callers : t \in Tasks
      BY DEF Tasks
    <2>2. \A t \in Publishers : t \in Tasks
      BY DEF Tasks
    <2>3. CASE \E t \in Callers : BeginDecision(t) \/ BeginCheckpoint(t) \/ PrepareDecision(t)
      BY <2>1, <2>3, BeginKeeps, MovesKeep
    <2>4. CASE \E t \in Publishers : BeginTrust(t)
      BY <2>2, <2>4, MovesKeep
    <2>5. CASE \E t \in Tasks : Go(t) \/ ProviderFails(t)
      BY <2>5, MovesKeep, KeepSignerKeeps, KeepPublicKeyKeeps, SubmitKeeps, TrustReturnsKeeps
      DEF Go
    <2>6. CASE UNCHANGED vars
      <3>1. TypeOK'
        BY <2>6 DEF IInv, TypeOK, vars
      <3> QED
        BY <2>6, <3>1 DEF IInv, FloorIsBelow, HeldIsAbove, InvalidateTakes, Vouched, RefOf, vars
    <2> QED
      BY <2>3, <2>4, <2>5, <2>6, RotateKeeps, RevokeKeeps, InvalidateKeeps, RestartKeeps,
         TickKeeps DEF Next
  <1> QED
    BY <1>1, InitInvariant, PTL DEF Spec

-----------------------------------------------------------------------------
(* The caches, the calls and the directory are well formed, for any tasks, *)
(* references, schemes and TTLs.                                           *)
THEOREM SigningTypeOK == Spec => []TypeOK
  <1>1. IInv => TypeOK
    BY DEF IInv
  <1> QED
    BY <1>1, InvariantHolds, PTL

(* SigningService.invalidate: whatever else is under way, a cache gives out*)
(* nothing older than the last invalidate that no fetch overlapped.        *)
THEOREM InvalidateTakesHolds == Spec => []InvalidateTakes
  <1>1. IInv => InvalidateTakes
    BY DEF IInv
  <1> QED
    BY <1>1, InvariantHolds, PTL

(* A recorded decision stands, however keys are rotated, published anew    *)
(* and however often the process restarts, as long as its key is not       *)
(* revoked back to its date - if the directory survives restarts.          *)
THEOREM RotationIsSafeHolds == ASSUME Durable PROVE Spec => []RotationIsSafe
  <1>1. IInv => RotationIsSafe
    BY VouchedIsSafe DEF IInv
  <1> QED
    BY <1>1, InvariantHolds, PTL
=============================================================================
