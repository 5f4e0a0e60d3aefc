-------------------------- MODULE EvaluationProofs --------------------------
(***************************************************************************)
(* What a new decision can do to the outcome of a request, for any policy, *)
(* roster and history.  Everything rests on RecordEffect: the latest voice *)
(* of each approver is unique, so a decision moves its own approver to its *)
(* own verdict, or does nothing.                                           *)
(***************************************************************************)
EXTENDS Evaluation, FiniteSetTheorems, SequenceTheorems,
        WellFoundedInduction, TLAPS

(* Those whose voice, after the decisions ds and under policy p, is v. *)
Voicing(ds, p, v) == Voters(ds, Voices(ds, Counted(request, ds, p, Identities)), v)

(* A decided_at has a place in the order of strings. *)
LEMMA TextsAreIntegers ==
    ASSUME NEW d \in Decisions
    PROVE  /\ d.decided_at.text \in Int
           /\ d.decided_at.instant \in Int
           /\ d.verdict \in Verdicts
  <1>1. PICK t \in 0 .. MaxTime + Skew, n \in Notations : d.decided_at = Written(t, n)
    BY DEF Decisions
  <1>2. t \in Int /\ n.offset \in Int
    BY TimesAssumption
  <1>3. Written(t, n).text \in Int /\ Written(t, n).instant \in Int
    <2> DEFINE wall == t + n.offset
    <2>1. wall \in Int
      BY <1>2
    <2> HIDE DEF wall
    <2>2. wall \div 2 \in Int /\ wall % 2 \in Int
      BY <2>1
    <2> QED
      BY <1>2, <2>2 DEF Written, wall
  <1> QED
    BY <1>1, <1>3 DEF Decisions

(* engine.py's dict `latest' has one entry per approver. *)
LEMMA OneVoiceEach ==
    ASSUME NEW ds \in Seq(Decisions), NEW counted \in SUBSET DOMAIN ds,
           NEW i \in Voices(ds, counted), NEW j \in Voices(ds, counted),
           ds[i].approver = ds[j].approver
    PROVE  i = j
  <1>1. i \in counted /\ j \in counted
    BY DEF Voices
  <1>2. /\ i \in Int /\ j \in Int
        /\ ds[i] \in Decisions /\ ds[j] \in Decisions
    BY <1>1
  <1>3. ds[i].decided_at.text \in Int /\ ds[j].decided_at.text \in Int
    BY <1>2, TextsAreIntegers
  <1> QED
    BY <1>1, <1>2, <1>3 DEF Voices

(* ... so an approver's voice is for one verdict. *)
LEMMA OneVerdictEach ==
    ASSUME NEW ds \in Seq(Decisions), NEW p, NEW a, NEW v, NEW w,
           a \in Voicing(ds, p, v), a \in Voicing(ds, p, w)
    PROVE  v = w
  <1> DEFINE counted == Counted(request, ds, p, Identities)
  <1>1. counted \in SUBSET DOMAIN ds
    BY DEF Counted
  <1>2. PICK i \in Voices(ds, counted) : ds[i].verdict = v /\ ds[i].approver = a
    BY DEF Voicing, Voters
  <1>3. PICK j \in Voices(ds, counted) : ds[j].verdict = w /\ ds[j].approver = a
    BY DEF Voicing, Voters
  <1>4. i = j
    BY <1>1, <1>2, <1>3, OneVoiceEach
  <1> QED
    BY <1>2, <1>3, <1>4

(* Appending a decision: it counts or it does not, the others count as     *)
(* before.                                                                 *)
LEMMA CountedAfter ==
    ASSUME NEW ds \in Seq(Decisions), NEW d \in Decisions, NEW p
    PROVE  /\ Len(ds) + 1 \notin Counted(request, ds, p, Identities)
           /\ Append(ds, d)[Len(ds) + 1] = d
           /\ \A i \in Counted(request, ds, p, Identities) : Append(ds, d)[i] = ds[i]
           /\ \/ Counted(request, Append(ds, d), p, Identities)
                    = Counted(request, ds, p, Identities)
              \/ Counted(request, Append(ds, d), p, Identities)
                    = Counted(request, ds, p, Identities) \cup {Len(ds) + 1}
  <1> DEFINE new == Append(ds, d)
             n == Len(ds) + 1
  <1>1. /\ DOMAIN ds = 1 .. Len(ds)
        /\ DOMAIN new = 1 .. n
        /\ new[n] = d
        /\ \A i \in 1 .. Len(ds) : new[i] = ds[i]
        /\ Len(ds) \in Nat
    OBVIOUS
  <1> HIDE DEF new
  <1>2. \A i \in DOMAIN ds :
           Counts(new[i], request, p, Identities) = Counts(ds[i], request, p, Identities)
    BY <1>1
  <1> QED
    BY <1>1, <1>2 DEF Counted, new

(* A decision that is counted either becomes the voice of its approver, in *)
(* the place of whatever that voice was, or is older than it and is not    *)
(* heard at all.                                                           *)
LEMMA VoicesAfter ==
    ASSUME NEW ds \in Seq(Decisions), NEW d \in Decisions,
           NEW counted \in SUBSET DOMAIN ds
    PROVE  /\ Voices(Append(ds, d), counted) = Voices(ds, counted)
           /\ \/ Voices(Append(ds, d), counted \cup {Len(ds) + 1}) = Voices(ds, counted)
              \/ Voices(Append(ds, d), counted \cup {Len(ds) + 1})
                   = {i \in Voices(ds, counted) : ds[i].approver # d.approver}
                        \cup {Len(ds) + 1}
  <1> DEFINE new == Append(ds, d)
             n == Len(ds) + 1
             others == {i \in Voices(ds, counted) : ds[i].approver # d.approver}
  <1>1. /\ new[n] = d
        /\ \A i \in counted : new[i] = ds[i]
        /\ \A i \in counted : i \in Int /\ i < n /\ ds[i] \in Decisions
        /\ n \in Int
    OBVIOUS
  <1>2. /\ d.decided_at.text \in Int
        /\ \A i \in counted : ds[i].decided_at.text \in Int
    BY <1>1, TextsAreIntegers
  <1> HIDE DEF new, n
  <1>3. Voices(new, counted) = Voices(ds, counted)
    BY <1>1 DEF Voices
  <1>4. CASE n \in Voices(new, counted \cup {n})
    <2>1. \A i \in counted : i \in Voices(new, counted \cup {n}) <=> i \in others
      <3> SUFFICES ASSUME NEW i \in counted
                   PROVE  i \in Voices(new, counted \cup {n}) <=> i \in others
        OBVIOUS
      <3>1. CASE ds[i].approver = d.approver
        <4>1. ~ (i \in Voices(new, counted \cup {n}))
          BY <1>1, <1>2, <1>4, <3>1 DEF Voices
        <4> QED
          BY <3>1, <4>1
      <3>2. CASE ds[i].approver # d.approver
        BY <1>1, <3>2 DEF Voices
      <3> QED
        BY <3>1, <3>2
    <2>2. /\ Voices(new, counted \cup {n}) \subseteq counted \cup {n}
          /\ others \subseteq counted
      BY DEF Voices
    <2>3. Voices(new, counted \cup {n}) = others \cup {n}
      BY <1>4, <2>1, <2>2
    <2> QED
      BY <1>3, <2>3 DEF new, n
  <1>5. CASE n \notin Voices(new, counted \cup {n})
    <2>1. PICK j \in counted : /\ ds[j].approver = d.approver
                               /\ d.decided_at.text < ds[j].decided_at.text
      BY <1>1, <1>2, <1>5 DEF Voices
    <2>2. \A i \in counted : i \in Voices(new, counted \cup {n}) <=> i \in Voices(ds, counted)
      <3> SUFFICES ASSUME NEW i \in counted
                   PROVE  i \in Voices(new, counted \cup {n}) <=> i \in Voices(ds, counted)
        OBVIOUS
      <3>1. i \in Voices(new, counted \cup {n}) => i \in Voices(ds, counted)
        BY <1>1 DEF Voices
      <3>2. ASSUME i \in Voices(ds, counted), ds[i].approver = d.approver
            PROVE  d.decided_at.text < ds[i].decided_at.text
        <4>1. \/ ds[j].decided_at.text < ds[i].decided_at.text
              \/ ds[j].decided_at.text = ds[i].decided_at.text
          BY <2>1, <3>2 DEF Voices
        <4> QED
          BY <1>2, <2>1, <4>1
      <3>3. i \in Voices(ds, counted) => i \in Voices(new, counted \cup {n})
        BY <1>1, <3>2 DEF Voices
      <3> QED
        BY <3>1, <3>3
    <2>3. /\ Voices(new, counted \cup {n}) \subseteq counted
          /\ Voices(ds, counted) \subseteq counted
      BY <1>5 DEF Voices
    <2>4. Voices(new, counted \cup {n}) = Voices(ds, counted)
      BY <2>2, <2>3
    <2> QED
      BY <1>3, <2>4 DEF new, n
  <1> QED
    BY <1>4, <1>5

(* The two things a new decision can do to the sets the outcome is         *)
(* computed from.                                                          *)
Unmoved(ds, d, p) == \A v : Voicing(Append(ds, d), p, v) = Voicing(ds, p, v)

Moved(ds, d, p) ==
    \A v : Voicing(Append(ds, d), p, v) =
             IF v = d.verdict THEN Voicing(ds, p, v) \cup {d.approver}
                              ELSE Voicing(ds, p, v) \ {d.approver}

(* A decision moves its own approver to its own verdict, or does nothing.  *)
LEMMA RecordEffect ==
    ASSUME NEW ds \in Seq(Decisions), NEW d \in Decisions, NEW p
    PROVE  Unmoved(ds, d, p) \/ Moved(ds, d, p)
  <1> DEFINE new == Append(ds, d)
             n == Len(ds) + 1
             old == Counted(request, ds, p, Identities)
             counted == Counted(request, new, p, Identities)
             before == Voices(ds, old)
             others == {i \in before : ds[i].approver # d.approver}
  <1>1. /\ old \in SUBSET DOMAIN ds
        /\ before \subseteq old
    BY DEF Counted, Voices
  <1>2. /\ new[n] = d
        /\ \A i \in old : new[i] = ds[i]
        /\ n \notin old
        /\ \/ counted = old
           \/ counted = old \cup {n}
    <2>1. new[n] = d
      BY CountedAfter
    <2>2. \A i \in old : new[i] = ds[i]
      BY <1>1
    <2>3. n \notin old
      BY CountedAfter
    <2>4. \/ counted = old
          \/ counted = old \cup {n}
      BY CountedAfter
    <2> QED
      BY <2>1, <2>2, <2>3, <2>4
  <1>3. \/ Voices(new, counted) = before
        \/ Voices(new, counted) = others \cup {n}
    <2>1. /\ Voices(new, old) = before
          /\ \/ Voices(new, old \cup {n}) = before
             \/ Voices(new, old \cup {n}) = others \cup {n}
      BY <1>1, VoicesAfter
    <2> QED
      BY <1>2, <2>1
  <1>4. \A v : /\ Voicing(ds, p, v) = Voters(ds, before, v)
               /\ Voicing(new, p, v) = Voters(new, Voices(new, counted), v)
    BY DEF Voicing
  <1> HIDE DEF new, n, old, counted, before
  <1>5. \A v : Voters(new, before, v) = Voters(ds, before, v)
    BY <1>1, <1>2 DEF Voters
  <1>6. CASE Voices(new, counted) = before
    BY <1>4, <1>5, <1>6 DEF Unmoved, new
  <1>7. CASE Voices(new, counted) = others \cup {n}
    <2>1. ASSUME NEW v
          PROVE  Voters(new, others \cup {n}, v)
                   = IF v = d.verdict THEN Voters(ds, before, v) \cup {d.approver}
                                      ELSE Voters(ds, before, v) \ {d.approver}
      BY <1>1, <1>2 DEF Voters
    <2> QED
      BY <1>4, <1>7, <2>1 DEF Moved, new
  <1> QED
    BY <1>3, <1>6, <1>7

-----------------------------------------------------------------------------
(* The policy, the decisions and the clock keep their types. *)
THEOREM EvaluationTypeOK == Spec => []TypeOK
  <1>1. Init => TypeOK
    BY TimesAssumption DEF Init, TypeOK
  <1>2. TypeOK /\ [Next]_vars => TypeOK'
    <2> SUFFICES ASSUME TypeOK, [Next]_vars
                 PROVE  TypeOK'
      OBVIOUS
    <2>1. CASE Tick
      BY <2>1, TimesAssumption DEF TypeOK, Tick
    <2>2. ASSUME NEW d \in Decisions, RecordDecision(d)
          PROVE  TypeOK'
      BY <2>2 DEF TypeOK, RecordDecision
    <2>3. CASE UNCHANGED vars
      BY <2>3 DEF TypeOK, vars
    <2> QED
      BY <2>1, <2>2, <2>3 DEF Next
  <1> QED
    BY <1>1, <1>2, PTL DEF Spec

(* The last part of evaluate, from the two sets of voices on. *)
Enough(p, approvers) ==
    Cardinality(approvers) >= p.threshold /\ RolesSatisfied(approvers, p, Identities)

Vetoed(p, rejecters) == p.reject_is_terminal /\ rejecters # {}

(* evaluate looks at nothing else of the decisions.                        *)
LEMMA OutcomeFromVoices ==
    ASSUME NEW ds, NEW p \in Policies, NEW at
    PROVE  Evaluate(request, ds, p, Identities, at) =
             CASE Vetoed(p, Voicing(ds, p, "reject")) ->
                    [status |-> "rejected", satisfied_by |-> Voicing(ds, p, "reject")]
               [] ~Vetoed(p, Voicing(ds, p, "reject")) /\ Enough(p, Voicing(ds, p, "approve")) ->
                    [status |-> "approved", satisfied_by |-> Voicing(ds, p, "approve")]
               [] OTHER ->
                    [status |-> IF at > Deadline(request, p) THEN "expired" ELSE "pending",
                     satisfied_by |-> Voicing(ds, p, "approve")]
  BY DEF Evaluate, Vetoed, Enough, Voicing

(* Whoever has a voice has a decision; there are finitely many.            *)
LEMMA VoicesAreFinite ==
    ASSUME NEW ds \in Seq(Decisions), NEW p, NEW v
    PROVE  IsFiniteSet(Voicing(ds, p, v))
  <1> DEFINE voting == {k \in Voices(ds, Counted(request, ds, p, Identities)) :
                            ds[k].verdict = v}
  <1>1. voting \subseteq 1 .. Len(ds)
    BY DEF Voices, Counted
  <1>2. IsFiniteSet(1 .. Len(ds))
    BY FS_Interval
  <1>3. IsFiniteSet(voting)
    BY <1>1, <1>2, FS_Subset
  <1> HIDE DEF voting
  <1> DEFINE approvers == {ds[i].approver : i \in voting}
             f == [i \in voting |-> ds[i].approver]
  <1>4. f \in Surjection(voting, approvers)
    BY DEF Surjection
  <1>5. IsFiniteSet(approvers)
    BY <1>3, <1>4, FS_Surjection
  <1> QED
    BY <1>5 DEF Voicing, Voters, voting

(* More approvers are never too few. *)
LEMMA EnoughIsMonotone ==
    ASSUME NEW p \in Policies, NEW fewer, NEW more,
           IsFiniteSet(more), fewer \subseteq more, Enough(p, fewer)
    PROVE  Enough(p, more)
  <1>1. /\ Cardinality(fewer) \in Nat
        /\ Cardinality(more) \in Nat
        /\ Cardinality(fewer) <= Cardinality(more)
    BY FS_Subset, FS_CardinalityType
  <1>2. p.threshold \in Int
    BY PoliciesAssumption
  <1>3. Cardinality(more) >= p.threshold
    BY <1>1, <1>2 DEF Enough
  <1>4. RolesSatisfied(more, p, Identities)
    BY DEF Enough, RolesSatisfied
  <1> QED
    BY <1>3, <1>4 DEF Enough

(* Recording is appending, at one instant, under one policy. *)
LEMMA RecordedStep ==
    ASSUME TypeOK, Next, Recorded
    PROVE  /\ New \in Decisions
           /\ decisions' = Append(decisions, New)
           /\ decisions \in Seq(Decisions)
           /\ policy' = policy /\ now' = now /\ policy \in Policies
  <1>1. PICK d \in Decisions : RecordDecision(d)
    BY DEF Next, Tick, Recorded
  <1>2. decisions' = Append(decisions, d) /\ decisions \in Seq(Decisions)
    BY <1>1 DEF RecordDecision, TypeOK
  <1>3. New = d
    BY <1>2 DEF New
  <1> QED
    BY <1>1, <1>2, <1>3 DEF RecordDecision, TypeOK

(* Evaluation's TimeOnlyExpires: the voices do not depend on the clock,    *)
(* and neither does the deadline, which time only ever passes.             *)
THEOREM TimeOnlyExpiresHolds == Spec => TimeOnlyExpires
  <1>1. TypeOK /\ [Next]_vars =>
          [now' # now => \/ Status' = Status
                         \/ Status = "pending" /\ Status' = "expired"]_vars
    <2> SUFFICES ASSUME TypeOK, Tick
                 PROVE  \/ Status' = Status
                        \/ Status = "pending" /\ Status' = "expired"
      BY DEF Next, RecordDecision, vars
    <2> DEFINE rejecters == Voicing(decisions, policy, "reject")
               approvers == Voicing(decisions, policy, "approve")
    <2>1. /\ policy' = policy /\ policy \in Policies /\ decisions' = decisions
          /\ now \in Int /\ now' = now + 1
      BY TimesAssumption DEF TypeOK, Tick
    <2>2. /\ now > Deadline(request, policy) => now' > Deadline(request, policy)
      <3>1. Deadline(request, policy) \in Int
        BY <2>1, PoliciesAssumption, TimesAssumption DEF Deadline, request
      <3> QED
        BY <2>1, <3>1
    <2> DEFINE StatusAt(at) ==
                   IF Vetoed(policy, rejecters) THEN "rejected"
                   ELSE IF Enough(policy, approvers) THEN "approved"
                   ELSE IF at > Deadline(request, policy) THEN "expired" ELSE "pending"
    <2>3. \A at : Evaluate(request, decisions, policy, Identities, at).status = StatusAt(at)
      BY <2>1, OutcomeFromVoices
    <2>4. Status = StatusAt(now)
      BY <2>3 DEF Status, Result
    <2>5. Status' = Evaluate(request, decisions, policy, Identities, now').status
      BY <2>1 DEF Status, Result, request
    <2>6. Status' = StatusAt(now')
      BY <2>3, <2>5
    <2> QED
      BY <2>2, <2>4, <2>6
  <1> QED
    BY <1>1, EvaluationTypeOK, PTL DEF Spec, TimeOnlyExpires

(* Evaluation's Voice, in terms of who voices what. *)
LEMMA VoiceIsVoicing ==
    ASSUME NEW a, NEW v, v \in Voice(a)
    PROVE  a \in Voicing(decisions, policy, v)
  BY DEF Voice, Voicing, Voters, Counting

(* Evaluation's ResubmissionIdempotent: a decision for what already is its *)
(* approver's voice adds the approver where it is, and removes it from     *)
(* where it is not.                                                        *)
THEOREM ResubmissionIdempotentHolds == Spec => ResubmissionIdempotent
  <1>1. TypeOK /\ [Next]_vars =>
          [Recorded /\ New.verdict \in Voice(New.approver) => Result' = Result]_vars
    <2> SUFFICES ASSUME TypeOK, Next, Recorded, New.verdict \in Voice(New.approver)
                 PROVE  Result' = Result
      BY DEF Recorded, vars
    <2>1. /\ New \in Decisions
          /\ decisions' = Append(decisions, New)
          /\ decisions \in Seq(Decisions)
          /\ policy' = policy /\ now' = now /\ policy \in Policies
      BY RecordedStep
    <2>2. New.approver \in Voicing(decisions, policy, New.verdict)
      BY VoiceIsVoicing
    <2>3. ASSUME NEW v, v # New.verdict
          PROVE  New.approver \notin Voicing(decisions, policy, v)
      BY <2>1, <2>2, <2>3, OneVerdictEach
    <2>4. ASSUME NEW v
          PROVE  Voicing(Append(decisions, New), policy, v) = Voicing(decisions, policy, v)
      <3>1. CASE Unmoved(decisions, New, policy)
        BY <3>1 DEF Unmoved
      <3>2. CASE Moved(decisions, New, policy)
        BY <2>2, <2>3, <3>2 DEF Moved
      <3> QED
        BY <2>1, <3>1, <3>2, RecordEffect
    <2>5. Result' = Evaluate(request, Append(decisions, New), policy, Identities, now)
      BY <2>1 DEF Result, request
    <2> QED
      BY <2>1, <2>4, <2>5, OutcomeFromVoices DEF Result
  <1> QED
    BY <1>1, EvaluationTypeOK, PTL DEF Spec, ResubmissionIdempotent

(* Evaluation's OutcomeChangesHaveACause: a new approve only ever shrinks  *)
(* the rejecters and a new reject the approvers, so neither can bring      *)
(* about what is the other's.                                              *)
THEOREM OutcomeChangesHaveACauseHolds == Spec => OutcomeChangesHaveACause
  <1> DEFINE approvers == Voicing(decisions, policy, "approve")
             rejecters == Voicing(decisions, policy, "reject")
             approversNow == Voicing(Append(decisions, New), policy, "approve")
             rejectersNow == Voicing(Append(decisions, New), policy, "reject")
             Caused ==
                /\ Status' = "approved" /\ Status # "approved" =>
                      /\ New.verdict = "approve"
                      /\ New.approver \in Result'.satisfied_by
                                            \ Voters(decisions, Voices(decisions, Counting), "approve")
                /\ Status = "approved" /\ Status' # "approved" => New.verdict = "reject"
                /\ Status' = "rejected" /\ Status # "rejected" =>
                      New.verdict = "reject" /\ New.approver \in Result'.satisfied_by
                /\ Status = "rejected" /\ Status' # "rejected" =>
                      New.verdict = "approve" /\ Result.satisfied_by = {New.approver}
  <1>1. ASSUME TypeOK, Next, Recorded
        PROVE  Caused
    <2>1. /\ New \in Decisions
          /\ decisions' = Append(decisions, New)
          /\ decisions \in Seq(Decisions) /\ decisions' \in Seq(Decisions)
          /\ policy' = policy /\ now' = now /\ policy \in Policies
      BY <1>1, RecordedStep
    <2>2. Result' = Evaluate(request, Append(decisions, New), policy, Identities, now)
      BY <2>1 DEF Result, request
    <2>3. /\ Status = "rejected" <=> Vetoed(policy, rejecters)
          /\ Status = "approved" <=> ~Vetoed(policy, rejecters) /\ Enough(policy, approvers)
          /\ Status = "rejected" => Result.satisfied_by = rejecters
      BY <2>1, OutcomeFromVoices DEF Status, Result
    <2>4. /\ Status' = "rejected" <=> Vetoed(policy, rejectersNow)
          /\ Status' = "approved" <=> ~Vetoed(policy, rejectersNow) /\ Enough(policy, approversNow)
          /\ Status' = "rejected" => Result'.satisfied_by = rejectersNow
          /\ Status' = "approved" => Result'.satisfied_by = approversNow
      <3>1. Status' = Result'.status
        BY DEF Status
      <3> QED
        BY <2>1, <2>2, <3>1, OutcomeFromVoices
    <2>5. IsFiniteSet(approvers) /\ IsFiniteSet(approversNow)
      BY <2>1, VoicesAreFinite
    <2>6. Voters(decisions, Voices(decisions, Counting), "approve") = approvers
      BY DEF Voicing, Counting
    <2>7. New.approver \notin approvers \cap rejecters
      BY <2>1, OneVerdictEach
    <2> HIDE DEF approvers, rejecters, approversNow, rejectersNow
    <2>8. CASE Unmoved(decisions, New, policy)
      <3>1. approversNow = approvers /\ rejectersNow = rejecters
        BY <2>8 DEF Unmoved, approvers, rejecters, approversNow, rejectersNow
      <3> QED
        BY <2>3, <2>4, <3>1
    <2>9. CASE Moved(decisions, New, policy) /\ New.verdict = "approve"
      <3>1. /\ approversNow = approvers \cup {New.approver}
            /\ rejectersNow = rejecters \ {New.approver}
        BY <2>9 DEF Moved, approvers, rejecters, approversNow, rejectersNow
      <3>2. Enough(policy, approvers) => Enough(policy, approversNow)
        BY <2>1, <2>5, <3>1, EnoughIsMonotone
      <3>3. Vetoed(policy, rejectersNow) => Vetoed(policy, rejecters)
        BY <3>1 DEF Vetoed
      <3>4. Vetoed(policy, rejecters) /\ ~Vetoed(policy, rejectersNow)
              => rejecters = {New.approver}
        BY <3>1 DEF Vetoed
      <3>5. New.approver \in approvers => approversNow = approvers
        BY <3>1
      <3> QED
        BY <2>3, <2>4, <2>6, <2>7, <2>9, <3>1, <3>2, <3>3, <3>4, <3>5
    <2>10. CASE Moved(decisions, New, policy) /\ New.verdict = "reject"
      <3>1. /\ approversNow = approvers \ {New.approver}
            /\ rejectersNow = rejecters \cup {New.approver}
        BY <2>10 DEF Moved, approvers, rejecters, approversNow, rejectersNow
      <3>2. Enough(policy, approversNow) => Enough(policy, approvers)
        BY <2>1, <2>5, <3>1, EnoughIsMonotone
      <3>3. Vetoed(policy, rejecters) => Vetoed(policy, rejectersNow)
        BY <3>1 DEF Vetoed
      <3> QED
        BY <2>3, <2>4, <2>10, <3>1, <3>2, <3>3
    <2>11. New.verdict \in {"approve", "reject"}
      BY <2>1, TextsAreIntegers DEF Verdicts
    <2> QED
      BY <2>1, <2>8, <2>9, <2>10, <2>11, RecordEffect
  <1>2. TypeOK /\ [Next]_vars => [Recorded => Caused]_vars
    BY <1>1 DEF Recorded, vars
  <1> QED
    BY <1>2, EvaluationTypeOK, PTL DEF Spec, OutcomeChangesHaveACause

(* Two decisions of one approver with one decided_at: engine.py's stable   *)
(* sort then falls back on ledger order.                                   *)
Tied(ds) == \E i, j \in 1 .. Len(ds) :
                /\ i # j
                /\ ds[i].approver = ds[j].approver
                /\ ds[i].decided_at.text = ds[j].decided_at.text

(* Without ties, the same decisions in another order give each approver    *)
(* the same voice.                                                         *)
LEMMA VoicesInAnyOrder ==
    ASSUME NEW ds \in Seq(Decisions), ~Tied(ds), NEW p, NEW v,
           NEW f \in Bijection(1 .. Len(ds), 1 .. Len(ds))
    PROVE  Voicing([i \in 1 .. Len(ds) |-> ds[f[i]]], p, v) = Voicing(ds, p, v)
  <1> DEFINE dom == 1 .. Len(ds)
             es == [i \in dom |-> ds[f[i]]]
             counted == Counted(request, ds, p, Identities)
             countedIn == Counted(request, es, p, Identities)
             SameApprover(i, k) == ds[k].approver = ds[i].approver
  <1>1. /\ dom \subseteq Int
        /\ \A i \in dom : f[i] \in dom
        /\ \A i, j \in dom : f[i] = f[j] => i = j
        /\ \A k \in dom : \E i \in dom : f[i] = k
    BY DEF Bijection, Injection, Surjection, IsInjective
  <1>2. /\ DOMAIN ds = dom
        /\ \A k \in dom : ds[k] \in Decisions
    OBVIOUS
  <1>3. \A k \in dom : ds[k].decided_at.text \in Int
    BY <1>2, TextsAreIntegers
  <1>4. /\ DOMAIN es = dom
        /\ \A i \in dom : es[i] = ds[f[i]]
    OBVIOUS
  <1> HIDE DEF es, dom
  <1>5. counted \subseteq dom /\ countedIn = {i \in dom : f[i] \in counted}
    BY <1>1, <1>2, <1>4 DEF Counted
  <1>6. \A i, j \in dom : i # j /\ SameApprover(i, j) => ds[i].decided_at.text # ds[j].decided_at.text
    BY DEF Tied, dom
  <1> HIDE DEF counted, countedIn
  <1>7. \A k \in counted :
           k \in Voices(ds, counted) <=>
             \A m \in counted : m # k /\ SameApprover(k, m) =>
                                   ds[m].decided_at.text < ds[k].decided_at.text
    <2> SUFFICES ASSUME NEW k \in counted
                 PROVE  k \in Voices(ds, counted) <=>
                          \A m \in counted : m # k /\ SameApprover(k, m) =>
                                   ds[m].decided_at.text < ds[k].decided_at.text
      OBVIOUS
    <2>1. ASSUME NEW m \in counted, SameApprover(k, m)
          PROVE  \/ ds[m].decided_at.text < ds[k].decided_at.text
                 \/ ds[m].decided_at.text = ds[k].decided_at.text /\ m <= k
                 <=> m # k => ds[m].decided_at.text < ds[k].decided_at.text
      <3>1. /\ m \in dom /\ k \in dom /\ m \in Int /\ k \in Int
            /\ ds[m].decided_at.text \in Int /\ ds[k].decided_at.text \in Int
        BY <1>1, <1>3, <1>5
      <3>2. m # k => ds[m].decided_at.text # ds[k].decided_at.text
        BY <1>6, <2>1, <3>1
      <3> QED
        BY <3>1, <3>2
    <2>2. k \in Voices(ds, counted) <=>
            \A m \in counted : SameApprover(k, m) =>
                \/ ds[m].decided_at.text < ds[k].decided_at.text
                \/ ds[m].decided_at.text = ds[k].decided_at.text /\ m <= k
      BY DEF Voices
    <2> QED
      BY <2>1, <2>2
  <1>8. \A i \in countedIn :
           i \in Voices(es, countedIn) <=>
             \A j \in countedIn : j # i /\ SameApprover(f[i], f[j]) =>
                                   ds[f[j]].decided_at.text < ds[f[i]].decided_at.text
    <2> SUFFICES ASSUME NEW i \in countedIn
                 PROVE  i \in Voices(es, countedIn) <=>
                          \A j \in countedIn : j # i /\ SameApprover(f[i], f[j]) =>
                             ds[f[j]].decided_at.text < ds[f[i]].decided_at.text
      OBVIOUS
    <2>1. ASSUME NEW j \in countedIn, SameApprover(f[i], f[j])
          PROVE  \/ ds[f[j]].decided_at.text < ds[f[i]].decided_at.text
                 \/ ds[f[j]].decided_at.text = ds[f[i]].decided_at.text /\ j <= i
                 <=> j # i => ds[f[j]].decided_at.text < ds[f[i]].decided_at.text
      <3>1. /\ i \in dom /\ j \in dom /\ i \in Int /\ j \in Int
            /\ f[i] \in dom /\ f[j] \in dom
            /\ ds[f[i]].decided_at.text \in Int /\ ds[f[j]].decided_at.text \in Int
        BY <1>1, <1>3, <1>5
      <3>2. j # i => f[j] # f[i]
        BY <1>1, <3>1
      <3>3. f[j] # f[i] => ds[f[j]].decided_at.text # ds[f[i]].decided_at.text
        BY <1>6, <2>1, <3>1
      <3> QED
        BY <3>1, <3>2, <3>3
    <2>2. i \in Voices(es, countedIn) <=>
            \A j \in countedIn : SameApprover(f[i], f[j]) =>
                \/ ds[f[j]].decided_at.text < ds[f[i]].decided_at.text
                \/ ds[f[j]].decided_at.text = ds[f[i]].decided_at.text /\ j <= i
      BY <1>4, <1>5 DEF Voices
    <2> QED
      BY <2>1, <2>2
  <1>9. ASSUME NEW i \in countedIn
        PROVE  i \in Voices(es, countedIn) <=> f[i] \in Voices(ds, counted)
    <2>1. ASSUME i \in Voices(es, countedIn),
                 NEW m \in counted, m # f[i], SameApprover(f[i], m)
          PROVE  ds[m].decided_at.text < ds[f[i]].decided_at.text
      <3>1. PICK j \in dom : f[j] = m
        BY <1>1, <1>5
      <3> QED
        BY <1>5, <1>8, <2>1, <3>1
    <2>2. ASSUME f[i] \in Voices(ds, counted),
                 NEW j \in countedIn, j # i, SameApprover(f[i], f[j])
          PROVE  ds[f[j]].decided_at.text < ds[f[i]].decided_at.text
      BY <1>1, <1>5, <1>7, <2>2
    <2> QED
      BY <1>5, <1>7, <1>8, <2>1, <2>2
  <1>10. Voices(es, countedIn) \subseteq countedIn /\ Voices(ds, counted) \subseteq counted
    BY DEF Voices
  <1>11. Voters(es, Voices(es, countedIn), v) = Voters(ds, Voices(ds, counted), v)
    <2>1. ASSUME NEW a \in Voters(es, Voices(es, countedIn), v)
          PROVE  a \in Voters(ds, Voices(ds, counted), v)
      <3>1. PICK i \in Voices(es, countedIn) : es[i].verdict = v /\ es[i].approver = a
        BY <2>1 DEF Voters
      <3> QED
        BY <1>4, <1>5, <1>9, <1>10, <3>1 DEF Voters
    <2>2. ASSUME NEW a \in Voters(ds, Voices(ds, counted), v)
          PROVE  a \in Voters(es, Voices(es, countedIn), v)
      <3>1. PICK k \in Voices(ds, counted) : ds[k].verdict = v /\ ds[k].approver = a
        BY <2>2 DEF Voters
      <3>2. PICK i \in dom : f[i] = k
        BY <1>1, <1>5, <1>10
      <3> QED
        BY <1>4, <1>5, <1>9, <1>10, <3>1, <3>2 DEF Voters
    <2> QED
      BY <2>1, <2>2
  <1> QED
    BY <1>11 DEF Voicing, es, dom, counted, countedIn

(* Evaluation's OrderOnlyBreaksTies: a permutation moves the positions of  *)
(* the voices and nothing else.                                            *)
THEOREM OrderOnlyBreaksTiesHolds == Spec => []OrderOnlyBreaksTies
  <1>1. ASSUME TypeOK
        PROVE  OrderOnlyBreaksTies
    <2> DEFINE n == Len(decisions)
    <2> SUFFICES ASSUME ~Tied(decisions), NEW f \in [1 .. n -> 1 .. n],
                        \A i, j \in 1 .. n : f[i] = f[j] => i = j
                 PROVE  Evaluate(request, [i \in 1 .. n |-> decisions[f[i]]],
                                 policy, Identities, now) = Result
      BY DEF OrderOnlyBreaksTies, Tied
    <2>1. /\ decisions \in Seq(Decisions) /\ policy \in Policies
          /\ n \in Nat
      BY <1>1 DEF TypeOK
    <2>2. f \in Injection(1 .. n, 1 .. n)
      BY DEF Injection, IsInjective
    <2>3. IsFiniteSet(1 .. n)
      BY <2>1, FS_Interval
    <2>4. f \in Surjection(1 .. n, 1 .. n)
      BY <2>2, <2>3, FS_Injection
    <2>5. f \in Bijection(1 .. n, 1 .. n)
      BY <2>2, <2>4 DEF Bijection
    <2>6. \A v : Voicing([i \in 1 .. n |-> decisions[f[i]]], policy, v)
                   = Voicing(decisions, policy, v)
      BY <2>1, <2>5, VoicesInAnyOrder
    <2> DEFINE es == [i \in 1 .. n |-> decisions[f[i]]]
    <2> HIDE DEF es
    <2>7. Evaluate(request, es, policy, Identities, now) = Result
      <3>1. /\ Voicing(es, policy, "approve") = Voicing(decisions, policy, "approve")
            /\ Voicing(es, policy, "reject") = Voicing(decisions, policy, "reject")
        BY <2>6 DEF es
      <3>2. Evaluate(request, es, policy, Identities, now)
              = Evaluate(request, decisions, policy, Identities, now)
        BY <2>1, <3>1, OutcomeFromVoices
      <3> QED
        BY <3>2 DEF Result
    <2> QED
      BY <2>7 DEF es
  <1> QED
    BY <1>1, EvaluationTypeOK, PTL

-----------------------------------------------------------------------------
(***************************************************************************)
(* The loop.  Its dict holds, for each approver, the voice among what has  *)
(* gone by.  The induction of the library takes an operator as a           *)
(* parameter, which none of the provers can instantiate: an induction over *)
(* what has gone by is the search for a smallest counterexample.           *)
(***************************************************************************)

(* Some numbers have a least one. *)
LEMMA NumbersHaveALeast ==
    ASSUME NEW T \in SUBSET Nat, T # {}
    PROVE  \E x \in T : \A y \in T : x <= y
  <1>1. IsWellFoundedOn(OpToRel(<, Nat), Nat)
    BY NatLessThanWellFounded
  <1>2. PICK x \in T : \A y \in T : ~(<<y, x>> \in OpToRel(<, Nat))
    BY <1>1, WFMin
  <1>3. \A y \in T : y < x => <<y, x>> \in OpToRel(<, Nat)
    BY DEF OpToRel
  <1>4. \A y \in T : ~(y < x)
    BY <1>2, <1>3
  <1> QED
    BY <1>4

(* The positions the loop goes through, finitely many of them. *)
LEMMA PositionsOfLoop ==
    ASSUME TypeOK
    PROVE  /\ Counting \subseteq 1 .. Len(decisions)
           /\ Len(decisions) \in Nat
           /\ IsFiniteSet(Counting)
           /\ \A i \in Counting : /\ i \in Nat /\ i # 0
                                  /\ decisions[i].approver \in Approvers
                                  /\ decisions[i].decided_at.text \in Int
  <1>1. decisions \in Seq(Decisions) /\ Len(decisions) \in Nat
    BY DEF TypeOK
  <1>2. Counting \subseteq 1 .. Len(decisions)
    BY <1>1 DEF Counting, Counted
  <1>3. IsFiniteSet(Counting)
    <2>1. IsFiniteSet(1 .. Len(decisions))
      BY <1>1, FS_Interval
    <2> QED
      BY <1>2, <2>1, FS_Subset
  <1>4. \A i \in Counting : /\ decisions[i] \in Decisions
                            /\ i \in Nat /\ i # 0
    BY <1>1, <1>2
  <1>5. \A i \in Counting : decisions[i].approver \in Approvers
    BY <1>4 DEF Decisions
  <1> QED
    BY <1>1, <1>2, <1>3, <1>4, <1>5, TextsAreIntegers

(* Sorting is possible: whatever has gone by, one of it came last. *)
LEMMA SomeComesLast ==
    ASSUME TypeOK, NEW done \in SUBSET Counting, done # {}
    PROVE  \E i \in done : \A j \in done \ {i} : SortsBefore(j, i)
  <1> DEFINE HasLast(s) == \E i \in s : \A j \in s \ {i} : SortsBefore(j, i)
             Lacking(m) == \E s \in SUBSET Counting :
                               s # {} /\ s \subseteq 1 .. m /\ ~HasLast(s)
             T == {m \in Nat : Lacking(m)}
  <1>1. SUFFICES ASSUME ~HasLast(done)
                 PROVE  FALSE
    OBVIOUS
  <1>2. Len(decisions) \in T
    BY <1>1, PositionsOfLoop
  <1>3. PICK m \in T : \A y \in T : m <= y
    <2> HIDE DEF T
    <2>1. T \in SUBSET Nat
      BY DEF T
    <2> QED
      BY <1>2, <2>1, NumbersHaveALeast
  <1>4. PICK s \in SUBSET Counting : s # {} /\ s \subseteq 1 .. m /\ ~HasLast(s)
    BY <1>3
  <1>5. m \in Nat /\ m # 0
    <2>1. m \in Nat
      OBVIOUS
    <2>2. 1 .. 0 = {}
      OBVIOUS
    <2>3. m # 0
      BY <1>4, <2>2
    <2> QED
      BY <2>1, <2>3
  <1>6. \A r \in SUBSET Counting : r # {} /\ r \subseteq 1 .. m - 1 => HasLast(r)
    <2>1. m - 1 \in Nat /\ m - 1 \notin T
      BY <1>3, <1>5
    <2> QED
      BY <2>1
  <1>7. m \in s
    <2>1. m \notin s => s \subseteq 1 .. m - 1
      BY <1>4, <1>5
    <2> QED
      BY <1>4, <1>6, <2>1
  <1>8. s # {m}
    BY <1>4, <1>7
  <1>9. HasLast(s \ {m})
    <2>1. s \ {m} \subseteq 1 .. m - 1 /\ s \ {m} # {}
      BY <1>4, <1>5, <1>7, <1>8
    <2> QED
      BY <1>4, <1>6, <2>1
  <1>10. PICK l \in s \ {m} : \A j \in (s \ {m}) \ {l} : SortsBefore(j, l)
    BY <1>9
  <1>11. \A i \in s : i \in Nat /\ decisions[i].decided_at.text \in Int
    BY <1>4, PositionsOfLoop
  <1>12. CASE SortsBefore(l, m)
    <2>1. \A j \in s \ {m} : SortsBefore(j, m)
      BY <1>7, <1>10, <1>11, <1>12 DEF SortsBefore
    <2> QED
      BY <1>4, <1>7, <2>1
  <1>13. CASE ~SortsBefore(l, m)
    <2>1. /\ m \in Int /\ decisions[m].decided_at.text \in Int
          /\ l \in Int /\ decisions[l].decided_at.text \in Int
          /\ l # m
      <3> HIDE DEF T
      <3>1. l \in s /\ l # m
        OBVIOUS
      <3>2. /\ m \in Nat /\ decisions[m].decided_at.text \in Int
            /\ l \in Nat /\ decisions[l].decided_at.text \in Int
        BY <1>7, <1>11, <3>1
      <3> QED
        BY <3>1, <3>2
    <2>2. SortsBefore(m, l)
      <3> HIDE DEF T
      <3> QED
        BY <1>13, <2>1 DEF SortsBefore
    <2>3. \A j \in s \ {l} : SortsBefore(j, l)
      BY <1>10, <2>2
    <2> QED
      BY <1>4, <1>10, <2>3
  <1> QED
    BY <1>12, <1>13

(* What comes last takes its approver's voice and no other's. *)
LEMMA LastIsHeard ==
    ASSUME TypeOK, NEW done \in SUBSET Counting, NEW last \in done,
           \A j \in done \ {last} : SortsBefore(j, last)
    PROVE  Voices(decisions, done) =
             {k \in Voices(decisions, done \ {last}) :
                 decisions[k].approver # decisions[last].approver} \cup {last}
  <1>1. \A i \in done : i \in Nat /\ decisions[i].decided_at.text \in Int
    BY PositionsOfLoop
  <1>2. last \in Voices(decisions, done)
    BY <1>1 DEF Voices, SortsBefore
  <1>3. ASSUME NEW k \in done, k # last
        PROVE  k \in Voices(decisions, done)
                 <=> /\ k \in Voices(decisions, done \ {last})
                     /\ decisions[k].approver # decisions[last].approver
    <2>1. CASE decisions[k].approver = decisions[last].approver
      BY <1>1, <1>3, <2>1 DEF Voices, SortsBefore
    <2>2. CASE decisions[k].approver # decisions[last].approver
      BY <1>3, <2>2 DEF Voices
    <2> QED
      BY <2>1, <2>2
  <1>4. /\ Voices(decisions, done) \subseteq done
        /\ Voices(decisions, done \ {last}) \subseteq done \ {last}
    BY DEF Voices
  <1> QED
    BY <1>2, <1>3, <1>4

(* One round of the loop, given what the others leave in the dict. *)
LastOf(done) == CHOOSE i \in done : \A j \in done \ {i} : SortsBefore(j, i)

Overwritten(dicts, done) ==
    IF done = {} THEN [a \in Approvers |-> 0]
    ELSE [dicts[done \ {LastOf(done)}] EXCEPT
              ![decisions[LastOf(done)].approver] = LastOf(done)]

(* The dict that has everybody's voice, of what has gone by. *)
VoicesBy(done, a) == {i \in Voices(decisions, done) : decisions[i].approver = a}

Entry(voices) == IF voices = {} THEN 0 ELSE CHOOSE i \in voices : TRUE

Heard(done) == [a \in Approvers |-> Entry(VoicesBy(done, a))]

(* A round of the loop brings it up to date. *)
LEMMA RoundHears ==
    ASSUME TypeOK, NEW done \in SUBSET Counting, NEW dicts,
           done # {} => dicts[done \ {LastOf(done)}] = Heard(done \ {LastOf(done)})
    PROVE  Overwritten(dicts, done) = Heard(done)
  <1>1. CASE done = {}
    <2>1. \A a : VoicesBy(done, a) = {}
      BY <1>1 DEF VoicesBy, Voices
    <2> QED
      BY <1>1, <2>1 DEF Overwritten, Heard, Entry
  <1>2. CASE done # {}
    <2> DEFINE last == LastOf(done)
               rest == done \ {last}
    <2>1. last \in done /\ \A j \in done \ {last} : SortsBefore(j, last)
      BY <1>2, SomeComesLast DEF LastOf
    <2>2. Overwritten(dicts, done) =
            [Heard(rest) EXCEPT ![decisions[last].approver] = last]
      BY <1>2 DEF Overwritten
    <2> HIDE DEF last
    <2>3. decisions[last].approver \in Approvers
      BY <2>1, PositionsOfLoop
    <2>4. Voices(decisions, done) =
             {k \in Voices(decisions, rest) :
                 decisions[k].approver # decisions[last].approver} \cup {last}
      BY <2>1, LastIsHeard
    <2>5. VoicesBy(done, decisions[last].approver) = {last}
      BY <2>4 DEF VoicesBy
    <2>6. \A a \in Approvers \ {decisions[last].approver} :
              VoicesBy(done, a) = VoicesBy(rest, a)
      BY <2>4 DEF VoicesBy
    <2>7. Heard(done) = [Heard(rest) EXCEPT ![decisions[last].approver] = last]
      <3>1. Heard(done)[decisions[last].approver] = last
        BY <2>3, <2>5 DEF Heard, Entry
      <3>2. \A a \in Approvers \ {decisions[last].approver} :
                Heard(done)[a] = Heard(rest)[a]
        BY <2>6 DEF Heard
      <3>3. /\ Heard(done) = [a \in Approvers |-> Heard(done)[a]]
            /\ Heard(rest) = [a \in Approvers |-> Heard(rest)[a]]
        BY DEF Heard
      <3> HIDE DEF rest
      <3> QED
        BY <2>3, <3>1, <3>2, <3>3
    <2> QED
      BY <2>2, <2>7
  <1> QED
    BY <1>1, <1>2

(* The recursion has a solution, and it has no other.                      *)
LEMMA LoopHears ==
    ASSUME TypeOK, NEW done \in SUBSET Counting
    PROVE  Latest[done] = Heard(done)
  <1> DEFINE Solves(f) == f = [d \in SUBSET Counting |-> Overwritten(f, d)]
             heard == [d \in SUBSET Counting |-> Heard(d)]
  <1>1. \A d \in SUBSET Counting : d # {} => d \ {LastOf(d)} \in SUBSET Counting
    OBVIOUS
  <1>2. Solves(heard)
    <2>1. \A d \in SUBSET Counting : Overwritten(heard, d) = Heard(d)
      BY <1>1, RoundHears
    <2> QED
      BY <2>1
  <1>3. Latest = CHOOSE f : Solves(f)
    BY DEF Latest, Overwritten, LastOf
  <1>4. Solves(Latest)
    <2> HIDE DEF Solves, heard
    <2> QED
      BY <1>2, <1>3
  <1>5. \A d \in SUBSET Counting : Latest[d] = Overwritten(Latest, d)
    BY <1>4
  <1> DEFINE Wrong == {d \in SUBSET Counting : Latest[d] # Heard(d)}
             T == {Cardinality(d) : d \in Wrong}
  <1>6. \A d \in Wrong : Cardinality(d) \in Nat /\ IsFiniteSet(d)
    BY PositionsOfLoop, FS_Subset, FS_CardinalityType
  <1>7. SUFFICES ASSUME Wrong # {}
                 PROVE  FALSE
    OBVIOUS
  <1>8. PICK d \in Wrong : \A e \in Wrong : Cardinality(d) <= Cardinality(e)
    <2> HIDE DEF Wrong
    <2>1. T \in SUBSET Nat /\ T # {}
      BY <1>6, <1>7
    <2>2. PICK x \in T : \A y \in T : x <= y
      <3> HIDE DEF T
      <3> QED
        BY <2>1, NumbersHaveALeast
    <2> QED
      BY <2>2
  <1>9. d # {} => Latest[d \ {LastOf(d)}] = Heard(d \ {LastOf(d)})
    <2> SUFFICES ASSUME d # {}
                 PROVE  Latest[d \ {LastOf(d)}] = Heard(d \ {LastOf(d)})
      OBVIOUS
    <2>1. LastOf(d) \in d
      BY SomeComesLast DEF LastOf
    <2>2. Cardinality(d \ {LastOf(d)}) = Cardinality(d) - 1
      BY <1>6, <2>1, FS_RemoveElement
    <2>3. d \ {LastOf(d)} \notin Wrong
      BY <1>6, <1>8, <2>2
    <2> QED
      BY <2>3
  <1>10. Overwritten(Latest, d) = Heard(d)
    BY <1>9, RoundHears
  <1> QED
    BY <1>5, <1>8, <1>10

(* What Policy says of voices in one sentence is what the loop of evaluate *)
(* leaves in its dict, for any decisions, policy and roster.               *)
THEOREM VoicesAreTheLoopsHolds == Spec => []VoicesAreTheLoops
  <1>1. TypeOK => VoicesAreTheLoops
    <2> SUFFICES ASSUME TypeOK
                 PROVE  Voices(decisions, Counting) = {Latest[Counting][a] : a \in Approvers} \ {0}
      BY DEF VoicesAreTheLoops
    <2>1. Latest[Counting] = Heard(Counting)
      BY LoopHears
    <2>2. /\ decisions \in Seq(Decisions)
          /\ Counting \in SUBSET DOMAIN decisions
      BY PositionsOfLoop DEF TypeOK
    <2>3. \A i \in Voices(decisions, Counting) :
             /\ i # 0
             /\ decisions[i].approver \in Approvers
             /\ Heard(Counting)[decisions[i].approver] = i
      <3> SUFFICES ASSUME NEW i \in Voices(decisions, Counting)
                   PROVE  /\ i # 0
                          /\ decisions[i].approver \in Approvers
                          /\ Heard(Counting)[decisions[i].approver] = i
        OBVIOUS
      <3>1. i \in Counting
        BY DEF Voices
      <3>2. VoicesBy(Counting, decisions[i].approver) = {i}
        BY <2>2, OneVoiceEach DEF VoicesBy
      <3> QED
        BY <3>1, <3>2, PositionsOfLoop DEF Heard, Entry
    <2>4. \A a \in Approvers :
             Heard(Counting)[a] # 0 => Heard(Counting)[a] \in Voices(decisions, Counting)
      BY DEF Heard, Entry, VoicesBy
    <2> QED
      BY <2>1, <2>3, <2>4
  <1> QED
    BY <1>1, EvaluationTypeOK, PTL
=============================================================================
