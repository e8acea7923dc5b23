-------------------------- MODULE Admission_proofs --------------------------
(***************************************************************************)
(* The ages of what the two caches hold bound the age of what is decided   *)
(* from them.  An entry of the policy cache is a policy its origin had     *)
(* within Lag and the age of the entry; a verdict rests on a policy that   *)
(* was no older than PolicyAge when the key was checked, and so does a     *)
(* refusal that still waits for the audit log.                             *)
(***************************************************************************)
EXTENDS Admission, FiniteSetTheorems, TLAPS

\* had(o, p, a): the origin had the policy within the last a seconds
had(o, p, a) == p \in PoliciesOf[o] /\ last[o][p] <= a

\* grounds of a verdict on k that is a seconds old
Grounds(k, verdict, a) ==
    \E o \in Origin : \E p \in PoliciesOf[o] :
       /\ last[o][p] <= PolicyAge + a
       /\ p.state = "enabled" /\ p.key # None
       /\ verdict = "accepted" <=> p.key = k

StoredOK ==
    /\ stored = [o \in Origin |-> stored[o]]
    /\ \A o \in Origin : stored[o] \in PoliciesOf[o]

LastOK ==
    /\ last = [o \in Origin |-> last[o]]
    /\ \A o \in Origin : last[o] \in [PoliciesOf[o] -> Nat]

EntryOK(o) ==
    policies[o] # None =>
       /\ policies[o] \in EntryType
       /\ policies[o].policy \in PoliciesOf[o]
       /\ policies[o].policy.state = "enabled"
       /\ policies[o].age < PolicyTtl =>
             last[o][policies[o].policy] <= Lag + policies[o].age

PoliciesOK ==
    /\ DOMAIN policies = Origin /\ policies = [o \in Origin |-> policies[o]]
    /\ \A o \in Origin : EntryOK(o)

VerdictOK(k) ==
    verified[k] # None =>
       /\ verified[k] \in VerdictType
       /\ verified[k].age < KeyTtl => Grounds(k, verified[k].verdict, verified[k].age)

VerifiedOK ==
    /\ verified = [k \in Key |-> verified[k]]
    /\ \A k \in Key : VerdictOK(k)

RequestOK(h) ==
    \/ request[h] = Idle
    \/ \E o \in Origin, k \in Key, w \in 0 .. ReadTime : request[h] = Reading(o, k, w)
    \/ \E k \in Key, w \in 0 .. KeyTtl :
          /\ request[h] = Logging(k, w)
          /\ w < KeyTtl => Grounds(k, "refused", w)

RequestsOK ==
    /\ request = [h \in Handler |-> request[h]]
    /\ \A h \in Handler : RequestOK(h)

AnswerOK ==
    /\ answer \in AnswerType \cup {None}
    /\ AdmissionIsRecent /\ RevokedKeyIsRefused
    /\ NewKeyIsAccepted /\ EnabledOriginIsServed

IInv == StoredOK /\ LastOK /\ PoliciesOK /\ VerifiedOK /\ RequestsOK /\ AnswerOK

-----------------------------------------------------------------------------
\* The two ages are numbers, and the age of a policy covers a cached one and
\* one just read.
LEMMA Ages ==
    /\ PolicyAge \in Nat /\ KeyAge \in Nat /\ Horizon \in Nat
    /\ PolicyAge >= Lag + ReadTime
    /\ PolicyAge >= Lag + PolicyTtl - 1
    /\ KeyAge = PolicyAge + KeyTtl - 1
    /\ KeyAge >= PolicyAge
    /\ PolicyTtl \in Nat /\ KeyTtl \in Nat /\ Lag \in Nat /\ ReadTime \in Nat
    /\ PolicyTtl > 0 /\ KeyTtl > 0
BY TimesAssumption DEF PolicyAge, KeyAge, Horizon

\* No answer, nothing to hold.
LEMMA NoAnswer == ASSUME answer' = None PROVE AnswerOK'
BY DEF AnswerOK, AdmissionIsRecent, RevokedKeyIsRefused, NewKeyIsAccepted,
       EnabledOriginIsServed, Answered

\* A verdict rests on a policy of the origin that is asked: the client is in
\* the policies of one origin only.
LEMMA OneOrigin ==
    ASSUME NEW o \in Origin, NEW q \in Origin,
           NEW p \in PoliciesOf[o], NEW r \in PoliciesOf[q],
           p.key # None, r.key # None
    PROVE  o = q
BY ClientAssumption

\* What a policy in hand, recent enough, leads to: the decision is right for a
\* policy the origin had, and what is cached or logged has its grounds.
LEMMA PolicyUsed ==
    ASSUME StoredOK, LastOK, VerifiedOK, RequestsOK,
           NEW h \in Handler, NEW o \in Origin, NEW k \in Key,
           NEW p \in PoliciesOf[o],
           last[o][p] <= PolicyAge,
           p.state # "enabled" => last[o][p] <= Lag + ReadTime,
           use_policy(h, o, k, p),
           UNCHANGED last
    PROVE  VerifiedOK' /\ RequestsOK' /\ AnswerOK'
<1> USE Ages
<1>t. p \in Policy /\ last[o][p] \in Nat
  BY PolicyAssumption DEF LastOK
<1>0. Idle = [phase |-> "idle"]
  BY DEF Idle
<1>g. \A a \in Key : \A v, n : Grounds(a, v, n) => Grounds(a, v, n)'
  BY DEF Grounds
<1>i. ASSUME request' = [request EXCEPT ![h] = Idle] PROVE RequestsOK'
  BY <1>i, <1>g DEF RequestsOK, RequestOK
<1>v. ASSUME UNCHANGED verified PROVE VerifiedOK'
  BY <1>v, <1>g DEF VerifiedOK, VerdictOK
<1>1. CASE p.state # "enabled"
  <2>1. /\ answer' = [origin |-> o, key |-> k, what |-> p.state]
        /\ request' = [request EXCEPT ![h] = Idle]
        /\ UNCHANGED verified
    BY <1>1 DEF use_policy, Decide, Await
  <2>2. p.state \in {"disabled", "absent"}
    BY <1>t, <1>1 DEF Policy
  <2>3. AnswerOK'
    <3>1. answer' \in AnswerType
      BY <2>1, <2>2 DEF AnswerType
    <3>2. Had(o, NotEnabled, Lag + ReadTime)'
      BY <1>1, <1>t DEF Had, NotEnabled
    <3> QED
      BY <2>1, <2>2, <3>1, <3>2 DEF AnswerOK, AdmissionIsRecent, RevokedKeyIsRefused,
         NewKeyIsAccepted, EnabledOriginIsServed, Answered
  <2> QED
    BY <2>1, <2>3, <1>i, <1>v
<1>2. CASE p.state = "enabled" /\ p.key = None
  <2>1. /\ answer' = [origin |-> o, key |-> k, what |-> "unknown"]
        /\ request' = [request EXCEPT ![h] = Idle]
        /\ UNCHANGED verified
    BY <1>2 DEF use_policy, authenticate, Decide, Await
  <2>2. AnswerOK'
    BY <2>1 DEF AnswerOK, AnswerType, AdmissionIsRecent, RevokedKeyIsRefused,
         NewKeyIsAccepted, EnabledOriginIsServed, Answered
  <2> QED
    BY <2>1, <2>2, <1>i, <1>v
<1>3. CASE p.state = "enabled" /\ p.key # None
  <2>1. verify_api_key_cached(h, o, k, p)
    BY <1>3 DEF use_policy, authenticate
  <2>2. Had(o, WithClient, PolicyAge)'
    BY <1>3, <1>t DEF Had, WithClient
  <2>3. CASE FreshKey(k)
    <3>1. /\ answer' = [origin |-> o, key |-> k, what |-> verified[k].verdict]
          /\ request' = [request EXCEPT ![h] = Idle]
          /\ UNCHANGED verified
      BY <2>1, <2>3 DEF verify_api_key_cached, Decide, Await
    <3>2. /\ verified[k] \in VerdictType
          /\ Grounds(k, verified[k].verdict, verified[k].age)
          /\ verified[k].age \in Nat /\ verified[k].age <= KeyTtl - 1
          /\ verified[k].verdict \in {"accepted", "refused"}
      BY <2>3 DEF VerifiedOK, VerdictOK, FreshKey, VerdictType
    <3>3. PICK q \in Origin : \E r \in PoliciesOf[q] :
             /\ last[q][r] <= PolicyAge + verified[k].age
             /\ r.state = "enabled" /\ r.key # None
             /\ verified[k].verdict = "accepted" <=> r.key = k
      BY <3>2 DEF Grounds
    <3>4. q = o
      BY <3>3, <1>3, OneOrigin
    <3>4a. PICK r \in PoliciesOf[o] :
             /\ last[o][r] <= PolicyAge + verified[k].age
             /\ r.state = "enabled" /\ r.key # None
             /\ verified[k].verdict = "accepted" <=> r.key = k
      BY <3>3, <3>4
    <3>5. r \in Policy /\ last[o][r] \in Nat /\ last[o][r] <= KeyAge
      BY <3>2, <3>4a, PolicyAssumption DEF LastOK
    <3>6. IF r.key = k THEN Had(o, WithKey(k), KeyAge)'
          ELSE Had(o, WithOtherKey(k), KeyAge)'
      BY <3>4a, <3>5 DEF Had, WithKey, WithOtherKey
    <3>7. AnswerOK'
      BY <3>1, <3>2, <3>4a, <3>6, <2>2 DEF AnswerOK, AnswerType, AdmissionIsRecent,
         RevokedKeyIsRefused, NewKeyIsAccepted, EnabledOriginIsServed, Answered
    <3> QED
      BY <3>1, <3>7, <1>i, <1>v
  <2>4. CASE ~FreshKey(k) /\ p.key = k
    <3>1. /\ answer' = [origin |-> o, key |-> k, what |-> "accepted"]
          /\ request' = [request EXCEPT ![h] = Idle]
          /\ verified' = [verified EXCEPT ![k] = [verdict |-> "accepted", age |-> 0]]
      BY <2>1, <2>4 DEF verify_api_key_cached, Decide, Await, Remember
    <3>2. Had(o, WithKey(k), KeyAge)'
      BY <1>3, <1>t, <2>4 DEF Had, WithKey
    <3>3. AnswerOK'
      BY <3>1, <3>2, <2>2 DEF AnswerOK, AnswerType, AdmissionIsRecent,
         RevokedKeyIsRefused, NewKeyIsAccepted, EnabledOriginIsServed, Answered
    <3>4. Grounds(k, "accepted", 0)'
      BY <1>3, <1>t, <2>4 DEF Grounds
    <3>5. VerifiedOK'
      BY <3>1, <3>4, <1>g DEF VerifiedOK, VerdictOK, VerdictType
    <3> QED
      BY <3>1, <3>3, <3>5, <1>i
  <2>5. CASE ~FreshKey(k) /\ p.key # k
    <3>1. /\ answer' = [origin |-> o, key |-> k, what |-> "refused"]
          /\ request' = [request EXCEPT ![h] = Logging(k, 0)]
          /\ UNCHANGED verified
      BY <2>1, <2>5 DEF verify_api_key_cached, Decide, Await
    <3>2. Had(o, WithOtherKey(k), KeyAge)'
      BY <1>3, <1>t, <2>5 DEF Had, WithOtherKey
    <3>3. AnswerOK'
      BY <3>1, <3>2 DEF AnswerOK, AnswerType, AdmissionIsRecent,
         RevokedKeyIsRefused, NewKeyIsAccepted, EnabledOriginIsServed, Answered
    <3>4. Grounds(k, "refused", 0)'
      BY <1>3, <1>t, <2>5 DEF Grounds
    <3>5. RequestsOK'
      BY <3>1, <3>4, <1>g DEF RequestsOK, RequestOK
    <3> QED
      BY <3>1, <3>3, <3>5, <1>v
  <2> QED
    BY <2>3, <2>4, <2>5
<1> QED
  BY <1>1, <1>2, <1>3

-----------------------------------------------------------------------------
LEMMA InitOK == Init => IInv
<1> SUFFICES ASSUME Init PROVE IInv
  OBVIOUS
<1>1. StoredOK /\ LastOK
  BY Ages DEF Init, StoredOK, LastOK
<1>2. PoliciesOK /\ VerifiedOK /\ RequestsOK
  BY DEF Init, PoliciesOK, EntryOK, VerifiedOK, VerdictOK, RequestsOK, RequestOK
<1>3. AnswerOK
  BY DEF Init, AnswerOK, AdmissionIsRecent, RevokedKeyIsRefused, NewKeyIsAccepted,
         EnabledOriginIsServed, Answered
<1> QED
  BY <1>1, <1>2, <1>3 DEF IInv

LEMMA CreateOK ==
    ASSUME IInv, NEW h \in Handler, NEW o \in Origin, NEW k \in Key,
           create_challenge(h, o, k)
    PROVE  IInv'
<1> USE Ages
<1>1. StoredOK' /\ LastOK' /\ PoliciesOK' /\ UNCHANGED last
  BY DEF IInv, create_challenge, StoredOK, LastOK, PoliciesOK, EntryOK
<1>2. CASE FreshPolicy(o)
  <2>1. use_policy(h, o, k, policies[o].policy)
    BY <1>2 DEF create_challenge
  <2>2. /\ policies[o] \in EntryType
        /\ policies[o].policy \in PoliciesOf[o]
        /\ policies[o].policy.state = "enabled"
        /\ policies[o].age < PolicyTtl
        /\ last[o][policies[o].policy] <= Lag + policies[o].age
    BY <1>2 DEF IInv, PoliciesOK, EntryOK, FreshPolicy
  <2>3. last[o][policies[o].policy] <= PolicyAge
    BY <2>2 DEF IInv, LastOK, EntryType
  <2> QED
    BY <1>1, <2>1, <2>2, <2>3, PolicyUsed DEF IInv
<1>3. CASE ~FreshPolicy(o)
  <2>1. /\ request' = [request EXCEPT ![h] = Reading(o, k, 0)]
        /\ answer' = None
        /\ UNCHANGED <<verified, last>>
    BY <1>3 DEF create_challenge, Await
  <2>2. \A a \in Key : \A v, n : Grounds(a, v, n) => Grounds(a, v, n)'
    BY <2>1 DEF Grounds
  <2>3. VerifiedOK'
    BY <2>1, <2>2 DEF IInv, VerifiedOK, VerdictOK
  <2>4. RequestsOK'
    BY <2>1, <2>2 DEF IInv, RequestsOK, RequestOK
  <2> QED
    BY <1>1, <2>1, <2>3, <2>4, NoAnswer DEF IInv
<1> QED
  BY <1>2, <1>3

LEMMA PolicyReadOK ==
    ASSUME IInv, NEW h \in Handler, PolicyRead(h)
    PROVE  IInv'
<1> USE Ages
<1>1. UNCHANGED <<stored, last>>
  BY DEF PolicyRead
<1>2. PICK o \in Origin, k \in Key, w \in 0 .. ReadTime : request[h] = Reading(o, k, w)
  BY DEF IInv, RequestsOK, RequestOK, PolicyRead, Idle, Logging
<1>3. PICK p \in PoliciesOf[o] :
         /\ last[o][p] <= Lag + w
         /\ policies' = AfterRead(o, p, w)
         /\ use_policy(h, o, k, p)
  BY <1>2 DEF PolicyRead, Readable, Reading
<1>4. last[o][p] \in Nat /\ w \in Nat /\ w <= ReadTime /\ p \in Policy
  BY PolicyAssumption DEF IInv, LastOK
<1>5. last[o][p] <= PolicyAge /\ last[o][p] <= Lag + ReadTime
  BY <1>3, <1>4
<1>6. VerifiedOK' /\ RequestsOK' /\ AnswerOK'
  BY <1>1, <1>3, <1>5, PolicyUsed DEF IInv
<1>7. StoredOK' /\ LastOK'
  BY <1>1 DEF IInv, StoredOK, LastOK
<1>8. PoliciesOK'
  <2>1. /\ DOMAIN MakeRoom = Origin
        /\ MakeRoom = [q \in Origin |-> MakeRoom[q]]
        /\ \A q \in Origin : MakeRoom[q] = policies[q] \/ MakeRoom[q] = None
    BY DEF IInv, PoliciesOK, MakeRoom
  <2>2. CASE p.state = "enabled"
    <3>1. policies' = [MakeRoom EXCEPT ![o] = [policy |-> p, age |-> w]]
      BY <1>3, <2>2 DEF AfterRead, CacheEntry
    <3>2. EntryOK(o)'
      BY <1>1, <1>3, <1>4, <2>1, <2>2, <3>1 DEF EntryOK, EntryType
    <3>3. \A q \in Origin \ {o} : EntryOK(q)'
      BY <1>1, <2>1, <3>1 DEF IInv, PoliciesOK, EntryOK
    <3> QED
      BY <2>1, <3>1, <3>2, <3>3 DEF PoliciesOK
  <2>3. CASE p.state = "disabled"
    <3>1. policies' = [policies EXCEPT ![o] = None]
      BY <1>3, <2>3 DEF AfterRead
    <3> QED
      BY <1>1, <3>1 DEF IInv, PoliciesOK, EntryOK
  <2>4. CASE p.state = "absent"
    <3>1. policies' = policies
      BY <1>3, <2>4 DEF AfterRead
    <3> QED
      BY <1>1, <3>1 DEF IInv, PoliciesOK, EntryOK
  <2> QED
    BY <1>4, <2>2, <2>3, <2>4 DEF Policy
<1> QED
  BY <1>6, <1>7, <1>8 DEF IInv

LEMMA ReadFailsOK ==
    ASSUME IInv, NEW h \in Handler, ReadFails(h)
    PROVE  IInv'
<1>1. /\ request' = [request EXCEPT ![h] = Idle]
      /\ answer' = None
      /\ UNCHANGED <<stored, last, policies, verified>>
  BY DEF ReadFails, Await
<1>2. \A a \in Key : \A v, n : Grounds(a, v, n) => Grounds(a, v, n)'
  BY <1>1 DEF Grounds
<1>3. StoredOK' /\ LastOK' /\ PoliciesOK'
  BY <1>1 DEF IInv, StoredOK, LastOK, PoliciesOK, EntryOK
<1>4. VerifiedOK'
  BY <1>1, <1>2 DEF IInv, VerifiedOK, VerdictOK
<1>5. RequestsOK'
  BY <1>1, <1>2 DEF IInv, RequestsOK, RequestOK
<1> QED
  BY <1>1, <1>3, <1>4, <1>5, NoAnswer DEF IInv

LEMMA MismatchLoggedOK ==
    ASSUME IInv, NEW h \in Handler, MismatchLogged(h)
    PROVE  IInv'
<1> USE Ages
<1>1. PICK k \in Key, w \in 0 .. KeyTtl :
         /\ request[h] = Logging(k, w)
         /\ w < KeyTtl => Grounds(k, "refused", w)
  BY DEF IInv, RequestsOK, RequestOK, MismatchLogged, Idle, Reading
<1>2. /\ request' = [request EXCEPT ![h] = Idle]
      /\ verified' = [verified EXCEPT ![k] = [verdict |-> "refused", age |-> w]]
      /\ answer' = None
      /\ UNCHANGED <<stored, last, policies>>
  BY <1>1 DEF MismatchLogged, Await, RememberRefusal, Remember, Logging
<1>3. \A a \in Key : \A v, n : Grounds(a, v, n) => Grounds(a, v, n)'
  BY <1>2 DEF Grounds
<1>4. StoredOK' /\ LastOK' /\ PoliciesOK'
  BY <1>2 DEF IInv, StoredOK, LastOK, PoliciesOK, EntryOK
<1>5. VerdictOK(k)'
  BY <1>1, <1>2, <1>3 DEF IInv, VerifiedOK, VerdictOK, VerdictType
<1>6. VerifiedOK'
  BY <1>2, <1>3, <1>5 DEF IInv, VerifiedOK, VerdictOK
<1>7. RequestsOK'
  BY <1>2, <1>3 DEF IInv, RequestsOK, RequestOK
<1> QED
  BY <1>2, <1>4, <1>6, <1>7, NoAnswer DEF IInv

LEMMA WritePolicyOK ==
    ASSUME IInv, NEW o \in Origin, NEW p \in PoliciesOf[o], WritePolicy(o, p)
    PROVE  IInv'
<1> USE Ages
<1>1. /\ stored' = [stored EXCEPT ![o] = p]
      /\ last' = [last EXCEPT ![o] = [last[o] EXCEPT ![p] = 0]]
      /\ answer' = None
      /\ UNCHANGED <<policies, verified, request>>
  BY DEF WritePolicy
<1>2. StoredOK' /\ LastOK'
  BY <1>1 DEF IInv, StoredOK, LastOK
<1>3. \A q \in Origin : \A r \in PoliciesOf[q] : last'[q][r] <= last[q][r]
  BY <1>1 DEF IInv, LastOK
<1>4. \A q \in Origin : \A r \in PoliciesOf[q] : last'[q][r] \in Nat /\ last[q][r] \in Nat
  BY <1>2 DEF IInv, LastOK
<1>5. \A a \in Key : \A v : \A n \in Nat : Grounds(a, v, n) => Grounds(a, v, n)'
  BY <1>3, <1>4 DEF Grounds
<1>6. PoliciesOK'
  BY <1>1, <1>3, <1>4 DEF IInv, PoliciesOK, EntryOK, EntryType
<1>7. VerifiedOK'
  BY <1>1, <1>5 DEF IInv, VerifiedOK, VerdictOK, VerdictType
<1>8. RequestsOK'
  BY <1>1, <1>5 DEF IInv, RequestsOK, RequestOK
<1> QED
  BY <1>1, <1>2, <1>6, <1>7, <1>8, NoAnswer DEF IInv

LEMMA TickOK == ASSUME IInv, Tick PROVE IInv'
<1> USE Ages
<1>1. \A q \in Origin : \A r \in PoliciesOf[q] :
         /\ last[q][r] \in Nat /\ last'[q][r] \in Nat
         /\ last'[q][r] <= last[q][r] + 1
  BY DEF IInv, LastOK, Tick, UpTo
<1>2. StoredOK' /\ LastOK'
  BY <1>1 DEF IInv, StoredOK, LastOK, Tick
<1>3. \A a \in Key : \A v : \A n \in Nat : Grounds(a, v, n) => Grounds(a, v, n + 1)'
  <2> SUFFICES ASSUME NEW a \in Key, NEW v, NEW n \in Nat, Grounds(a, v, n)
               PROVE  Grounds(a, v, n + 1)'
    OBVIOUS
  <2>1. PICK q \in Origin : \E r \in PoliciesOf[q] :
           /\ last[q][r] <= PolicyAge + n
           /\ r.state = "enabled" /\ r.key # None
           /\ v = "accepted" <=> r.key = a
    BY DEF Grounds
  <2>2. PICK r \in PoliciesOf[q] :
           /\ last[q][r] <= PolicyAge + n
           /\ r.state = "enabled" /\ r.key # None
           /\ v = "accepted" <=> r.key = a
    BY <2>1
  <2>3. last'[q][r] <= PolicyAge + (n + 1)
    BY <1>1, <2>2
  <2> QED
    BY <2>2, <2>3 DEF Grounds
<1>4. PoliciesOK'
  <2>1. policies' = [q \in Origin |-> AgedEntry(policies[q], PolicyTtl)]
    BY DEF Tick
  <2>2. ASSUME NEW q \in Origin PROVE EntryOK(q)'
    <3>1. CASE policies[q] = None
      BY <2>1, <3>1 DEF AgedEntry, EntryOK
    <3>2. CASE policies[q] # None
      <4>1. /\ policies'[q] = [policies[q] EXCEPT !.age = UpTo(PolicyTtl, @)]
            /\ policies[q] \in EntryType
            /\ policies[q].policy \in PoliciesOf[q]
            /\ policies[q].policy.state = "enabled"
            /\ policies[q].age < PolicyTtl =>
                  last[q][policies[q].policy] <= Lag + policies[q].age
        BY <2>1, <3>2 DEF IInv, PoliciesOK, EntryOK, AgedEntry
      <4>2. /\ policies'[q].policy = policies[q].policy
            /\ policies'[q].age = UpTo(PolicyTtl, policies[q].age)
            /\ policies'[q] \in EntryType
            /\ policies[q].age \in Nat
        BY <4>1 DEF EntryType, UpTo
      <4> QED
        BY <1>1, <4>1, <4>2 DEF EntryOK, UpTo
    <3> QED
      BY <3>1, <3>2
  <2> QED
    BY <2>1, <2>2 DEF PoliciesOK
<1>5. VerifiedOK'
  <2>1. verified' = [k \in Key |-> AgedEntry(verified[k], KeyTtl)]
    BY DEF Tick
  <2>2. ASSUME NEW k \in Key PROVE VerdictOK(k)'
    <3>1. CASE verified[k] = None
      BY <2>1, <3>1 DEF AgedEntry, VerdictOK
    <3>2. CASE verified[k] # None
      <4>1. /\ verified'[k] = [verified[k] EXCEPT !.age = UpTo(KeyTtl, @)]
            /\ verified[k] \in VerdictType
            /\ verified[k].age < KeyTtl => Grounds(k, verified[k].verdict, verified[k].age)
        BY <2>1, <3>2 DEF IInv, VerifiedOK, VerdictOK, AgedEntry
      <4>2. /\ verified'[k].verdict = verified[k].verdict
            /\ verified'[k].age = UpTo(KeyTtl, verified[k].age)
            /\ verified'[k] \in VerdictType
            /\ verified[k].age \in Nat
        BY <4>1 DEF VerdictType, UpTo
      <4>3. CASE verified[k].age < KeyTtl
        <5>1. PICK v \in {"accepted", "refused"}, a \in Nat :
                 verified[k].verdict = v /\ verified[k].age = a
          BY <4>1 DEF VerdictType
        <5>2. Grounds(k, v, a + 1)'
          BY <1>3, <4>1, <4>3, <5>1
        <5>3. verified'[k].verdict = v /\ verified'[k].age = a + 1
          BY <4>2, <4>3, <5>1 DEF UpTo
        <5>4. verified'[k] \in VerdictType /\ Grounds(k, verified[k].verdict, verified[k].age)'
          BY <4>2, <5>2, <5>3 DEF Grounds
        <5> QED
          BY <5>4 DEF VerdictOK
      <4>4. CASE ~(verified[k].age < KeyTtl)
        BY <4>2, <4>4 DEF VerdictOK, UpTo
      <4> QED
        BY <4>3, <4>4
    <3> QED
      BY <3>1, <3>2
  <2> QED
    BY <2>1, <2>2 DEF VerifiedOK
<1>6. RequestsOK'
  <2>1. request' = [h \in Handler |-> AgedRequest(h)]
    BY DEF Tick
  <2>2. ASSUME NEW h \in Handler PROVE RequestOK(h)'
    <3>1. CASE request[h] = Idle
      BY <2>1, <3>1 DEF AgedRequest, RequestOK, Idle
    <3>2. ASSUME NEW o \in Origin, NEW k \in Key, NEW w \in 0 .. ReadTime,
                 request[h] = Reading(o, k, w)
          PROVE  RequestOK(h)'
      <4>1. CASE w >= ReadTime
        BY <2>1, <3>2, <4>1 DEF AgedRequest, RequestOK, TimedOut, Reading
      <4>2. CASE ~(w >= ReadTime)
        <5>1. request'[h] = Reading(o, k, w + 1)
          BY <2>1, <3>2, <4>2 DEF AgedRequest, TimedOut, Reading
        <5>2. w + 1 \in 0 .. ReadTime
          BY <4>2
        <5> QED
          BY <5>1, <5>2 DEF RequestOK
      <4> QED
        BY <4>1, <4>2
    <3>3. ASSUME NEW k \in Key, NEW w \in 0 .. KeyTtl,
                 request[h] = Logging(k, w),
                 w < KeyTtl => Grounds(k, "refused", w)
          PROVE  RequestOK(h)'
      <4>1. request'[h] = Logging(k, UpTo(KeyTtl, w))
        BY <2>1, <3>3 DEF AgedRequest, Logging
      <4>2. CASE w < KeyTtl
        <5>1. UpTo(KeyTtl, w) = w + 1 /\ w + 1 \in 0 .. KeyTtl
          BY <4>2 DEF UpTo
        <5>2. Grounds(k, "refused", w + 1)'
          BY <1>3, <3>3, <4>2
        <5> QED
          BY <4>1, <5>1, <5>2 DEF RequestOK
      <4>3. CASE ~(w < KeyTtl)
        BY <4>1, <4>3 DEF RequestOK, UpTo
      <4> QED
        BY <4>2, <4>3
    <3> QED
      BY <3>1, <3>2, <3>3 DEF IInv, RequestsOK, RequestOK
  <2> QED
    BY <2>1, <2>2 DEF RequestsOK
<1>7. answer' = None
  BY DEF Tick
<1> QED
  BY <1>2, <1>4, <1>5, <1>6, <1>7, NoAnswer DEF IInv

LEMMA StutterOK == ASSUME IInv, UNCHANGED vars PROVE IInv'
<1>1. /\ stored' = stored /\ last' = last /\ policies' = policies
      /\ verified' = verified /\ request' = request /\ answer' = answer
  BY DEF vars
<1>2. \A a \in Key : \A v, n : Grounds(a, v, n) => Grounds(a, v, n)'
  BY <1>1 DEF Grounds
<1>3. StoredOK' /\ LastOK' /\ PoliciesOK'
  BY <1>1 DEF IInv, StoredOK, LastOK, PoliciesOK, EntryOK
<1>4. VerifiedOK' /\ RequestsOK'
  BY <1>1, <1>2 DEF IInv, VerifiedOK, VerdictOK, RequestsOK, RequestOK
<1>5. AnswerOK'
  BY <1>1 DEF IInv, AnswerOK, AdmissionIsRecent, RevokedKeyIsRefused, NewKeyIsAccepted,
         EnabledOriginIsServed, Answered, Had
<1> QED
  BY <1>3, <1>4, <1>5 DEF IInv

LEMMA Inductive == Spec => []IInv
<1>1. Init => IInv
  BY InitOK
<1>2. IInv /\ [Next]_vars => IInv'
  <2> SUFFICES ASSUME IInv, [Next]_vars PROVE IInv'
    OBVIOUS
  <2>1. CASE UNCHANGED vars
    BY <2>1, StutterOK
  <2>2. CASE \E h \in Handler, o \in Origin, k \in Key : create_challenge(h, o, k)
    BY <2>2, CreateOK
  <2>3. CASE \E h \in Handler : PolicyRead(h) \/ ReadFails(h) \/ MismatchLogged(h)
    BY <2>3, PolicyReadOK, ReadFailsOK, MismatchLoggedOK
  <2>4. CASE \E o \in Origin : \E p \in PoliciesOf[o] : WritePolicy(o, p)
    BY <2>4, WritePolicyOK
  <2>5. CASE Tick
    BY <2>5, TickOK
  <2> QED
    BY <2>1, <2>2, <2>3, <2>4, <2>5 DEF Next
<1> QED
  BY <1>1, <1>2, PTL DEF Spec

-----------------------------------------------------------------------------
\* Every variable keeps its type, a read never waits longer than its timeout.
THEOREM AdmissionTypeCorrect == Spec => []TypeOK
<1>1. IInv => TypeOK
  BY DEF IInv, StoredOK, LastOK, PoliciesOK, EntryOK, VerifiedOK, VerdictOK,
         RequestsOK, RequestOK, AnswerOK, TypeOK
<1> QED
  BY <1>1, Inductive, PTL

\* A client that was turned off is accepted no later than PolicyAge after.
THEOREM AdmissionsAreRecent == Spec => []AdmissionIsRecent
<1>1. IInv => AdmissionIsRecent
  BY DEF IInv, AnswerOK
<1> QED
  BY <1>1, Inductive, PTL

\* A key that was replaced is accepted no later than KeyAge after.
THEOREM RevokedKeysAreRefused == Spec => []RevokedKeyIsRefused
<1>1. IInv => RevokedKeyIsRefused
  BY DEF IInv, AnswerOK
<1> QED
  BY <1>1, Inductive, PTL

\* A key that is new is refused no later than KeyAge after.
THEOREM NewKeysAreAccepted == Spec => []NewKeyIsAccepted
<1>1. IInv => NewKeyIsAccepted
  BY DEF IInv, AnswerOK
<1> QED
  BY <1>1, Inductive, PTL

\* Only what KV answered, and not a cache, says that an origin is not enabled.
THEOREM EnabledOriginsAreServed == Spec => []EnabledOriginIsServed
<1>1. IInv => EnabledOriginIsServed
  BY DEF IInv, AnswerOK
<1> QED
  BY <1>1, Inductive, PTL

-----------------------------------------------------------------------------
(* The limit of the policy cache *)

Bounded == IsFiniteSet(Cached(policies)) /\ CacheIsBounded

\* Eviction leaves room for one more entry.
LEMMA RoomIsMade ==
    ASSUME Bounded
    PROVE  IsFiniteSet(Cached(MakeRoom)) /\ Cardinality(Cached(MakeRoom)) < MaxEntries
<1> DEFINE young == [o \in Origin |->
                      IF policies[o] # None /\ 2 * policies[o].age < PolicyTtl
                      THEN policies[o] ELSE None]
<1> DEFINE none == [o \in Origin |-> None]
<1>1. MakeRoom = IF Cardinality(Cached(policies)) < MaxEntries THEN policies
                 ELSE IF Cardinality(Cached(young)) < MaxEntries THEN young ELSE none
  BY DEF MakeRoom
<1>2. IsFiniteSet(Cached(young))
  BY OriginAssumption, FS_Subset DEF Cached
<1>3. Cached(none) = {}
  BY DEF Cached
<1>4. IsFiniteSet({}) /\ Cardinality({}) = 0
  BY FS_EmptySet
<1>5. 0 < MaxEntries
  BY TimesAssumption
<1> HIDE DEF young, none
<1> QED
  BY <1>1, <1>2, <1>3, <1>4, <1>5 DEF Bounded

LEMMA NoMoreEntries ==
    ASSUME Bounded, Cached(policies') \subseteq Cached(policies)
    PROVE  Bounded'
<1>1. IsFiniteSet(Cached(policies')) /\ Cardinality(Cached(policies')) <= Cardinality(Cached(policies))
  BY FS_Subset DEF Bounded
<1>2. /\ Cardinality(Cached(policies)) \in Nat /\ Cardinality(Cached(policies')) \in Nat
      /\ MaxEntries \in Nat
  BY <1>1, FS_CardinalityType, TimesAssumption DEF Bounded
<1>3. Cached(policies)' = Cached(policies')
  BY DEF Cached
<1> QED
  BY <1>1, <1>2, <1>3 DEF Bounded, CacheIsBounded

\* One entry more than what eviction left is within the limit.
LEMMA OneMoreEntry ==
    ASSUME Bounded, NEW o \in Origin, NEW e,
           policies' = [MakeRoom EXCEPT ![o] = e]
    PROVE  Bounded'
<1> DEFINE C == Cached(MakeRoom)
<1>1. IsFiniteSet(C) /\ Cardinality(C) < MaxEntries
  BY RoomIsMade
<1>2. Cached(policies)' \subseteq C \cup {o}
  BY DEF Cached
<1>3. IsFiniteSet(C \cup {o}) /\ Cardinality(C \cup {o}) \in Nat /\ Cardinality(C) \in Nat
      /\ Cardinality(C \cup {o}) <= Cardinality(C) + 1
  <2>1. Cardinality(C) \in Nat /\ IsFiniteSet(C \cup {o})
    BY <1>1, FS_CardinalityType, FS_AddElement
  <2>2. Cardinality(C \cup {o}) = IF o \in C THEN Cardinality(C) ELSE Cardinality(C) + 1
    BY <1>1, FS_AddElement
  <2> HIDE DEF C
  <2> QED
    BY <2>1, <2>2
<1> HIDE DEF C
<1>4. /\ IsFiniteSet(Cached(policies)')
      /\ Cardinality(Cached(policies)') <= Cardinality(C \cup {o})
      /\ Cardinality(Cached(policies)') \in Nat
  BY <1>2, <1>3, FS_Subset, FS_CardinalityType
<1>5. MaxEntries \in Nat
  BY TimesAssumption
<1> QED
  BY <1>1, <1>3, <1>4, <1>5 DEF Bounded, CacheIsBounded

\* However many origins are looked up, the cache keeps its limit.
THEOREM CachesAreBounded == Spec => []CacheIsBounded
<1>1. Init => Bounded
  <2> SUFFICES ASSUME Init PROVE Bounded
    OBVIOUS
  <2>1. Cached(policies) = {}
    BY DEF Init, Cached
  <2>2. IsFiniteSet({}) /\ Cardinality({}) = 0
    BY FS_EmptySet
  <2> QED
    BY <2>1, <2>2, TimesAssumption DEF Bounded, CacheIsBounded
<1>2. IInv /\ Bounded /\ [Next]_vars => Bounded'
  <2> SUFFICES ASSUME IInv, Bounded, [Next]_vars PROVE Bounded'
    OBVIOUS
  <2>1. CASE UNCHANGED policies
    BY <2>1, NoMoreEntries
  <2>2. ASSUME NEW h \in Handler, PolicyRead(h) PROVE Bounded'
    <3>1. PICK o \in Origin, k \in Key, w \in 0 .. ReadTime : request[h] = Reading(o, k, w)
      BY <2>2 DEF IInv, RequestsOK, RequestOK, PolicyRead, Idle, Logging
    <3>2. PICK p \in PoliciesOf[o] : policies' = AfterRead(o, p, w)
      BY <2>2, <3>1 DEF PolicyRead, Readable, Reading
    <3>3. p.state \in {"enabled", "disabled", "absent"}
      BY PolicyAssumption DEF Policy
    <3>4. CASE p.state = "enabled"
      BY <3>2, <3>4, OneMoreEntry DEF AfterRead
    <3>5. CASE p.state # "enabled"
      <4>1. policies' = [policies EXCEPT ![o] = None] \/ policies' = policies
        BY <3>2, <3>3, <3>5 DEF AfterRead
      <4>2. Cached(policies') \subseteq Cached(policies)
        BY <4>1 DEF Cached, IInv, PoliciesOK
      <4> QED
        BY <4>2, NoMoreEntries
    <3> QED
      BY <3>4, <3>5
  <2>3. CASE Tick
    <3>1. \A o \in Origin : policies[o] = None => policies'[o] = None
      BY <2>3 DEF Tick, AgedEntry
    <3>2. Cached(policies') \subseteq Cached(policies)
      BY <3>1 DEF Cached
    <3> QED
      BY <3>2, NoMoreEntries
  <2> QED
    BY <2>1, <2>2, <2>3 DEF Next, vars, create_challenge, ReadFails, MismatchLogged, WritePolicy
<1>3. Bounded => CacheIsBounded
  BY DEF Bounded
<1> QED
  BY <1>1, <1>2, <1>3, Inductive, PTL DEF Spec
=============================================================================
