------------------------- MODULE ChallengeDO_proofs -------------------------
(***************************************************************************)
(* Proofs about ChallengeDO, for every set of requests, expiry, bound on   *)
(* the clock and number of attempts.                                       *)
(***************************************************************************)
EXTENDS ChallengeDO, TLAPS

(* A record as the callers and the object write it: wiped and stamped as   *)
(* its state demands.                                                      *)
Good(c) ==
    /\ c \in CachedChallenge
    /\ c.submit_secret = "Held" => c.state = "Pending"
    /\ EvidenceBearing(c)
          => c.proof_submitted = "Yes" /\ c.proof_verified_at = "Some"
    /\ (c.verified_at = "Some") <=> (c.state = "Verified")

(* Every record the store's callers send is one.                           *)
LEMMA CallerRecordsGood == \A c \in CallerRecords : Good(c)
BY DEF CallerRecords, FreshChallenge, ExpiredChallenge, FailedChallenge,
       ProofOkChallenge, VerifiedChallenge, Challenge, CachedChallenge,
       ChallengeState, EvidenceBearing, Good

(* Merge keeps what the two records it mixes have, when the transition     *)
(* between them is valid.                                                  *)
LEMMA MergeGood ==
    ASSUME NEW s, NEW u, Good(s), Good(u), is_valid_transition(s.state, u.state)
    PROVE  Good(Merge(s, u)) /\ Merge(s, u).state = u.state
BY DEF Merge, CachedChallenge, ChallengeState, is_valid_transition, Good, EvidenceBearing

-----------------------------------------------------------------------------
(* The inductive invariant: the state is well typed, and every record, the *)
(* stored one and those a sleeping handler will write, is a good one.      *)
IInv ==
    /\ TypeOK
    /\ rec # NoRecord => Good(rec)
    /\ \A r \in Req : Ongoing(r) => Good(op[r].val)

LEMMA IInvStrong == IInv => SecretOnlyWhilePending /\ EvidenceMatchesState
BY DEF IInv, SecretOnlyWhilePending, EvidenceMatchesState, Records, Good

(* A handler that answers and leaves the stored record a good one, or      *)
(* removes it, keeps the invariant.                                        *)
LEMMA AnswerKeeps ==
    ASSUME IInv, NEW r \in Req, NEW a \in Replies, Answer(r, a),
           rec' = NoRecord \/ rec' = rec \/ Good(rec'),
           codeMap' \in BOOLEAN, UNCHANGED now
    PROVE  IInv'
<1>1. op' \in [Req -> OpStates]
  BY DEF IInv, TypeOK, Answer, OpStates
<1>2. TypeOK'
  BY <1>1 DEF IInv, TypeOK, Good
<1>3. \A q \in Req : Ongoing(q)' => Good(op'[q].val)
  BY DEF IInv, TypeOK, Answer, Done, Ongoing, Sleeping
<1> QED BY <1>2, <1>3 DEF IInv

(* So does a failed attempt to write a good record: the handler sleeps     *)
(* with it, or gives up.                                                   *)
LEMMA PutFailsKeeps ==
    ASSUME IInv, NEW r \in Req, NEW p \in Sleeping, NEW v, Good(v),
           NEW n \in 1..PutMaxAttempts, PutFails(r, p, v, n),
           rec' = rec \/ Good(rec'), codeMap' = codeMap, UNCHANGED now
    PROVE  IInv'
<1>1. CASE n < PutMaxAttempts
  <2>1. op' = [op EXCEPT ![r] = Asleep(p, v, n)]
    BY <1>1 DEF PutFails
  <2>2. Asleep(p, v, n) \in OpStates
    <3>1. n \in 1..(PutMaxAttempts - 1)
      BY <1>1, BoundAssumption
    <3> QED BY <3>1 DEF Asleep, OpStates, Good
  <2>3. TypeOK'
    BY <2>1, <2>2 DEF IInv, TypeOK, Good
  <2>4. \A q \in Req : Ongoing(q)' => Good(op'[q].val)
    <3> SUFFICES ASSUME NEW q \in Req, Ongoing(q)'
                 PROVE  Good(op'[q].val)
      OBVIOUS
    <3>1. CASE q = r
      BY <1>1, <2>1, <3>1 DEF IInv, TypeOK, Asleep
    <3>2. CASE q # r
      BY <2>1, <3>2 DEF IInv, TypeOK, Ongoing
    <3> QED BY <3>1, <3>2
  <2> QED BY <2>3, <2>4 DEF IInv
<1>2. CASE ~(n < PutMaxAttempts)
  <2>1. Answer(r, "unavailable")
    BY <1>2 DEF PutFails
  <2> QED BY <2>1, AnswerKeeps DEF IInv, TypeOK, Replies
<1> QED BY <1>1, <1>2

(* One attempt of each of the three writes keeps the invariant.            *)
LEMMA PutMappingKeeps ==
    ASSUME IInv, NEW r \in Req, NEW v, Good(v), NEW n \in 1..PutMaxAttempts,
           PutMapping(r, v, n), rec' = rec \/ Good(rec'), UNCHANGED now
    PROVE  IInv'
<1>1. CASE PutFails(r, "create_mapping", v, n) /\ UNCHANGED codeMap
  BY <1>1, PutFailsKeeps DEF Sleeping
<1>2. CASE Answer(r, "created") /\ codeMap' = TRUE
  BY <1>2, AnswerKeeps DEF Replies
<1> QED BY <1>1, <1>2 DEF PutMapping

LEMMA PutNewRecordKeeps ==
    ASSUME IInv, NEW r \in Req, NEW v, Good(v), NEW n \in 1..PutMaxAttempts,
           PutNewRecord(r, v, n), UNCHANGED now
    PROVE  IInv'
<1>1. CASE PutFails(r, "create_record", v, n) /\ UNCHANGED <<rec, codeMap>>
  BY <1>1, PutFailsKeeps DEF Sleeping
<1>2. CASE rec' = v /\ PutMapping(r, v, 1)
  <2>1. 1 \in 1..PutMaxAttempts
    BY BoundAssumption
  <2> QED BY <1>2, <2>1, PutMappingKeeps
<1> QED BY <1>1, <1>2 DEF PutNewRecord

LEMMA PutUpdateKeeps ==
    ASSUME IInv, NEW r \in Req, NEW v, Good(v), NEW n \in 1..PutMaxAttempts,
           PutUpdate(r, v, n), UNCHANGED now
    PROVE  IInv'
<1>1. CASE PutFails(r, "update_record", v, n) /\ UNCHANGED <<rec, codeMap>>
  BY <1>1, PutFailsKeeps DEF Sleeping
<1>2. CASE rec' = v /\ Answer(r, "updated") /\ UNCHANGED codeMap
  BY <1>2, AnswerKeeps DEF Replies, IInv, TypeOK
<1> QED BY <1>1, <1>2 DEF PutUpdate

LEMMA DeleteKeysKeeps ==
    ASSUME IInv, NEW r \in Req, NEW a \in Replies, DeleteKeys(r, a), UNCHANGED now
    PROVE  IInv'
BY AnswerKeeps DEF DeleteKeys, Replies, IInv, TypeOK

LEMMA ReadOrExpireKeeps ==
    ASSUME IInv, NEW r \in Req, ReadOrExpire(r), UNCHANGED now
    PROVE  IInv'
BY AnswerKeeps, DeleteKeysKeeps DEF ReadOrExpire, Replies, IInv, TypeOK

-----------------------------------------------------------------------------
(* The invariant holds initially.                                          *)
LEMMA InitKeeps == Init => IInv
<1> SUFFICES ASSUME Init PROVE IInv
  OBVIOUS
<1>1. TypeOK
  BY DEF Init, TypeOK, OpStates
<1>2. \A r \in Req : ~Ongoing(r)
  BY DEF Init, Ongoing, Idle, Sleeping
<1> QED BY <1>1, <1>2 DEF Init, IInv

(* One lemma per action.                                                   *)
LEMMA RetryPutKeeps ==
    ASSUME IInv, NEW r \in Req, RetryPut(r)
    PROVE  IInv'
<1> DEFINE v == op[r].val
           n == op[r].tries + 1
<1>1. Ongoing(r) /\ UNCHANGED now
  BY DEF RetryPut
<1>2. Good(v) /\ n \in 1..PutMaxAttempts
  BY <1>1, BoundAssumption DEF IInv, TypeOK, OpStates, Ongoing, Sleeping, Idle, Done
<1>3. CASE PutNewRecord(r, v, n)
  BY <1>1, <1>2, <1>3, PutNewRecordKeeps
<1>4. CASE PutMapping(r, v, n) /\ UNCHANGED rec
  BY <1>1, <1>2, <1>4, PutMappingKeeps
<1>5. CASE PutUpdate(r, v, n)
  BY <1>1, <1>2, <1>5, PutUpdateKeeps
<1> QED BY <1>3, <1>4, <1>5 DEF RetryPut

LEMMA CreateKeeps ==
    ASSUME IInv, NEW r \in Req, NEW c \in CallerRecords, create_challenge(r, c)
    PROVE  IInv'
<1>1. Good(c) /\ 1 \in 1..PutMaxAttempts
  BY CallerRecordsGood, BoundAssumption
<1>2. CASE Answer(r, "created") /\ UNCHANGED <<rec, codeMap>>
  BY <1>2, AnswerKeeps DEF create_challenge, Replies, IInv, TypeOK
<1>3. CASE PutNewRecord(r, c, 1)
  BY <1>1, <1>3, PutNewRecordKeeps DEF create_challenge
<1> QED BY <1>2, <1>3 DEF create_challenge

LEMMA GetKeeps ==
    ASSUME IInv, NEW r \in Req, get_challenge(r) \/ get_challenge_by_code(r)
    PROVE  IInv'
BY ReadOrExpireKeeps, AnswerKeeps
   DEF get_challenge, get_challenge_by_code, Replies, IInv, TypeOK

LEMMA UpdateKeeps ==
    ASSUME IInv, NEW r \in Req, NEW u \in CallerRecords, update_challenge(r, u)
    PROVE  IInv'
<1>1. PICK seen \in Seen :
         \/ \E a \in Replies : Answer(r, a) /\ UNCHANGED <<rec, codeMap>>
         \/ /\ seen # NoRecord
            /\ is_valid_transition(seen.state, u.state)
            /\ PutUpdate(r, Merge(seen, u), 1)
  BY DEF update_challenge, Replies
<1>2. UNCHANGED now
  BY DEF update_challenge
<1>3. CASE \E a \in Replies : Answer(r, a) /\ UNCHANGED <<rec, codeMap>>
  BY <1>2, <1>3, AnswerKeeps DEF IInv, TypeOK
<1>4. CASE /\ seen # NoRecord
           /\ is_valid_transition(seen.state, u.state)
           /\ PutUpdate(r, Merge(seen, u), 1)
  <2>1. Good(seen)
    BY <1>4 DEF Seen, IInv
  <2>2. Good(Merge(seen, u))
    BY <1>4, <2>1, CallerRecordsGood, MergeGood
  <2> QED BY <1>2, <1>4, <2>2, PutUpdateKeeps, BoundAssumption
<1> QED BY <1>1, <1>3, <1>4

LEMMA DeleteKeeps ==
    ASSUME IInv, NEW r \in Req, delete_challenge(r)
    PROVE  IInv'
BY AnswerKeeps, DeleteKeysKeeps DEF delete_challenge, Replies, IInv, TypeOK

LEMMA TickKeeps == IInv /\ Tick => IInv'
BY DEF IInv, TypeOK, Tick, Ongoing, Good

LEMMA EvictKeeps == IInv /\ Evict => IInv'
<1> SUFFICES ASSUME IInv, Evict PROVE IInv'
  OBVIOUS
<1>1. op' \in [Req -> OpStates]
  BY DEF Evict, IInv, TypeOK, OpStates, Replies
<1>2. \A q \in Req : ~Ongoing(q)'
  BY DEF Evict, Ongoing, Done, Sleeping
<1> QED BY <1>1, <1>2 DEF IInv, TypeOK, Evict, Good

LEMMA NextKeeps == IInv /\ [Next]_doVars => IInv'
<1> SUFFICES ASSUME IInv, [Next]_doVars PROVE IInv'
  OBVIOUS
<1>1. ASSUME NEW r \in Req, Handle(r) PROVE IInv'
  BY <1>1, CreateKeeps, GetKeeps, UpdateKeeps, DeleteKeeps DEF Handle
<1>2. CASE UNCHANGED doVars
  BY <1>2 DEF doVars, IInv, TypeOK, Ongoing, Good
<1> QED BY <1>1, <1>2, RetryPutKeeps, TickKeeps, EvictKeeps DEF Next

(* The inductive invariant holds in every reachable state.                 *)
THEOREM Invariance == Spec => []IInv
<1> QED BY InitKeeps, NextKeeps, PTL DEF Spec

(* Every reachable state is well typed.                                    *)
THEOREM TypeCorrect == Spec => []TypeOK
<1>1. IInv => TypeOK
  BY DEF IInv
<1> QED BY <1>1, Invariance, PTL

(* The submit secret outlives the Pending state nowhere: not in storage,   *)
(* not in a write that waits for its next attempt, whichever storage       *)
(* operations fail.                                                        *)
THEOREM SecretWiped == Spec => []SecretOnlyWhilePending
<1> QED BY IInvStrong, Invariance, PTL

(* A record that claims a proof or a redemption carries its timestamps.    *)
THEOREM EvidenceComplete == Spec => []EvidenceMatchesState
<1> QED BY IInvStrong, Invariance, PTL

-----------------------------------------------------------------------------
(* Who removes a record: get_challenge past the expiry, or                 *)
(* delete_challenge when the record carries no evidence.                   *)
LEMMA RemovalStep ==
    ASSUME IInv, [Next]_doVars, rec # NoRecord, rec' = NoRecord
    PROVE  now >= ExpiresAt \/ ~EvidenceBearing(rec)
<1> USE DEF IInv, TypeOK
<1>1. \A v : Good(v) => v # NoRecord
  BY RecordAssumption DEF Good
<1>2. ASSUME NEW r \in Req, NEW c \in CallerRecords, create_challenge(r, c)
      PROVE  FALSE
  BY <1>1, <1>2, CallerRecordsGood DEF create_challenge, PutNewRecord
<1>3. ASSUME NEW r \in Req, ReadOrExpire(r)
      PROVE  now >= ExpiresAt
  BY <1>3, BoundAssumption DEF ReadOrExpire
<1>4. ASSUME NEW r \in Req, NEW u \in CallerRecords, update_challenge(r, u)
      PROVE  FALSE
  <2>1. PICK seen \in Seen : /\ seen # NoRecord
                             /\ is_valid_transition(seen.state, u.state)
                             /\ rec' = Merge(seen, u)
    BY <1>4 DEF update_challenge, PutUpdate
  <2>2. Good(seen)
    BY <2>1 DEF Seen, IInv
  <2> QED BY <1>1, <2>1, <2>2, CallerRecordsGood, MergeGood
<1>5. ASSUME NEW r \in Req, delete_challenge(r)
      PROVE  ~EvidenceBearing(rec)
  BY <1>5 DEF delete_challenge, Deletable, Seen
<1>6. ASSUME NEW r \in Req, RetryPut(r)
      PROVE  FALSE
  BY <1>1, <1>6 DEF RetryPut, PutNewRecord, PutUpdate
<1>7. ~Tick /\ ~Evict /\ ~UNCHANGED doVars
  BY DEF Tick, Evict, doVars
<1> QED BY <1>2, <1>3, <1>4, <1>5, <1>6, <1>7
        DEF Next, Handle, get_challenge, get_challenge_by_code

(* A record that bears evidence of a proof is removed only once expired.   *)
THEOREM EvidenceOutlives == Spec => EvidenceOutlivesRequests
<1>1. IInv /\ [Next]_doVars =>
         [(rec # NoRecord /\ EvidenceBearing(rec) /\ rec' = NoRecord)
             => now >= ExpiresAt]_doVars
  BY RemovalStep
<1> QED BY <1>1, Invariance, PTL DEF Spec, EvidenceOutlivesRequests

-----------------------------------------------------------------------------
(* With storage that writes without fail no handler ever sleeps and every  *)
(* record has its code; with storage that reads without fail as well the   *)
(* object implements the lifecycle.                                        *)
Awake ==
    /\ IInv
    /\ \A r \in Req : ~Ongoing(r)
    /\ rec # NoRecord => codeMap

PutsSucceed == "put" \notin Faults

ReliableStorage == Faults \subseteq {"delete"}

LEMMA AwakeAnswer ==
    ASSUME Awake, NEW r \in Req, NEW a \in Replies, Answer(r, a),
           rec' # NoRecord => codeMap'
    PROVE  (\A q \in Req : ~Ongoing(q)') /\ (rec' # NoRecord => codeMap')
BY DEF Awake, IInv, TypeOK, Answer, Ongoing, Done, Sleeping

LEMMA AwakeNext ==
    ASSUME PutsSucceed, Awake, [Next]_doVars
    PROVE  Awake'
<1>1. IInv'
  BY NextKeeps DEF Awake
<1>2. ~("put" \in Faults) /\ \A seen \in Seen : seen # NoRecord => seen = rec
  BY DEF PutsSucceed, Seen
<1> DEFINE Kept == (\A q \in Req : ~Ongoing(q)') /\ (rec' # NoRecord => codeMap')
<1>3. ASSUME NEW r \in Req, NEW c \in CallerRecords, create_challenge(r, c)
      PROVE  Kept
  BY <1>2, <1>3, AwakeAnswer
     DEF create_challenge, PutNewRecord, PutMapping, PutFails, Replies, Awake
<1>4. ASSUME NEW r \in Req, ReadOrExpire(r)
      PROVE  Kept
  BY <1>4, AwakeAnswer DEF ReadOrExpire, DeleteKeys, Replies, Awake
<1>5. ASSUME NEW r \in Req, get_challenge(r) \/ get_challenge_by_code(r)
      PROVE  Kept
  BY <1>4, <1>5, AwakeAnswer DEF get_challenge, get_challenge_by_code, Replies, Awake
<1>6. ASSUME NEW r \in Req, NEW u \in CallerRecords, update_challenge(r, u)
      PROVE  Kept
  BY <1>2, <1>6, AwakeAnswer
     DEF update_challenge, PutUpdate, PutFails, Replies, Awake
<1>7. ASSUME NEW r \in Req, delete_challenge(r)
      PROVE  Kept
  BY <1>7, AwakeAnswer DEF delete_challenge, DeleteKeys, Replies, Awake
<1>8. ASSUME NEW r \in Req, RetryPut(r)
      PROVE  Kept
  BY <1>8 DEF RetryPut, Awake
<1>9. ASSUME Tick \/ Evict \/ UNCHANGED doVars
      PROVE  Kept
  BY <1>9 DEF Tick, Evict, doVars, Awake, Ongoing
<1>10. Kept
  BY <1>3, <1>5, <1>6, <1>7, <1>8, <1>9 DEF Next, Handle
<1> QED BY <1>1, <1>10 DEF Awake, Ongoing

LEMMA AwakeInvariant == ASSUME PutsSucceed PROVE Spec => []Awake
<1>1. Init => Awake
  BY InitKeeps DEF Init, Awake, Ongoing, Idle, Sleeping
<1> QED BY <1>1, AwakeNext, PTL DEF Spec

(* While writes succeed, a stored record can be found by its short code,   *)
(* whatever reads and deletions fail.                                      *)
THEOREM ReachableByCode ==
    ASSUME PutsSucceed
    PROVE  Spec => []RecordHasCode
<1>1. Awake => RecordHasCode
  BY DEF Awake, RecordHasCode
<1> QED BY <1>1, AwakeInvariant, PTL

LEMMA LifecycleInit == Init => Lifecycle!Init
BY BoundAssumption DEF Init, Lifecycle!Init

LEMMA LifecycleStep ==
    ASSUME ReliableStorage, Awake, [Next]_doVars
    PROVE  [Lifecycle!Next]_(Lifecycle!lcVars)
<1> USE DEF Lifecycle!Next, Lifecycle!lcVars
<1>1. ~("put" \in Faults) /\ Seen = {rec} /\ (rec # NoRecord => Good(rec))
  BY DEF ReliableStorage, Seen, Awake, IInv
<1>2. \A v : Good(v) => v # NoRecord /\ v.state \in ChallengeState
  BY RecordAssumption DEF Good, CachedChallenge
<1>3. ASSUME rec' = rec, now' = now
      PROVE  UNCHANGED Lifecycle!lcVars
  BY <1>3
<1>4. ASSUME NEW r \in Req, NEW c \in CallerRecords, create_challenge(r, c)
      PROVE  Lifecycle!Create \/ UNCHANGED Lifecycle!lcVars
  <2>1. Good(c) /\ now' = now
    BY <1>4, CallerRecordsGood DEF create_challenge
  <2>2. CASE rec = NoRecord /\ rec' = c
    BY <1>2, <2>1, <2>2 DEF Lifecycle!Create, Lifecycle!Live, Lifecycle!Terminal, ChallengeState
  <2>3. CASE rec' = rec
    BY <1>3, <2>1, <2>3
  <2> QED BY <1>1, <1>4, <2>2, <2>3 DEF create_challenge, PutNewRecord
<1>5. ASSUME rec # NoRecord, rec' = NoRecord, UNCHANGED now
      PROVE  Lifecycle!Remove
  <2>1. rec.state # "Absent"
    BY <1>1, <1>2, <1>5 DEF ChallengeState
  <2>2. now >= ExpiresAt \/ ~EvidenceBearing(rec)
    BY <1>5, RemovalStep DEF Awake
  <2> QED BY <1>5, <2>1, <2>2 DEF Lifecycle!Remove, Lifecycle!Evidence, EvidenceBearing
<1>6. ASSUME NEW r \in Req, ReadOrExpire(r) \/ delete_challenge(r), UNCHANGED now
      PROVE  Lifecycle!Remove \/ UNCHANGED Lifecycle!lcVars
  <2>1. rec' = rec \/ (rec # NoRecord /\ rec' = NoRecord)
    BY <1>1, <1>6 DEF ReadOrExpire, delete_challenge, DeleteKeys
  <2> QED BY <1>3, <1>5, <1>6, <2>1
<1>7. ASSUME NEW r \in Req, NEW u \in CallerRecords, update_challenge(r, u)
      PROVE  Lifecycle!Advance \/ UNCHANGED Lifecycle!lcVars
  <2>1. CASE rec' = rec
    BY <1>3, <1>7, <2>1 DEF update_challenge
  <2>2. CASE rec' # rec
    <3>1. /\ rec # NoRecord
          /\ ~(now >= ExpiresAt /\ ~is_terminal_state(u.state))
          /\ is_valid_transition(rec.state, u.state)
          /\ rec' = Merge(rec, u)
          /\ now' = now
      BY <1>1, <1>7, <2>2 DEF update_challenge, PutUpdate
    <3>2. Good(rec') /\ rec'.state = u.state
      BY <1>1, <3>1, CallerRecordsGood, MergeGood
    <3>3. rec' # NoRecord
      BY <1>2, <3>2
    <3> QED BY <3>1, <3>2, <3>3
            DEF Lifecycle!Advance, Lifecycle!Terminal, is_valid_transition, is_terminal_state
  <2> QED BY <2>1, <2>2
<1>8. ASSUME NEW r \in Req, RetryPut(r) PROVE FALSE
  BY <1>8 DEF RetryPut, Awake
<1>9. ASSUME Tick \/ Evict \/ UNCHANGED doVars
      PROVE  [Lifecycle!Next]_(Lifecycle!lcVars)
  <2>1. now \in Nat
    BY DEF Awake, IInv, TypeOK
  <2>2. CASE Tick
    BY <2>1, <2>2, BoundAssumption DEF Tick, Lifecycle!Expire
  <2>3. CASE Evict \/ UNCHANGED doVars
    BY <1>3, <2>3 DEF Evict, doVars
  <2> QED BY <1>9, <2>2, <2>3
<1> QED BY <1>4, <1>6, <1>7, <1>8, <1>9
        DEF Next, Handle, get_challenge, get_challenge_by_code, delete_challenge

(* While the storage reads and writes without fail, the object implements  *)
(* the challenge lifecycle: transitions only forward, terminal states      *)
(* final, evidence kept until the expiry.                                  *)
THEOREM LifecycleImplemented ==
    ASSUME ReliableStorage
    PROVE  Spec => ImplementsLifecycle
<1>1. ReliableStorage => PutsSucceed
  BY DEF ReliableStorage, PutsSucceed
<1> QED BY <1>1, AwakeInvariant, LifecycleInit, LifecycleStep, PTL
        DEF Spec, ImplementsLifecycle, Lifecycle!Spec

(* The states of the lifecycle's steps: a terminal state is left by        *)
(* removal only.                                                           *)
LEMMA LifecycleKeepsTerminal ==
    ASSUME Awake, Awake', [Lifecycle!Next]_(Lifecycle!lcVars),
           rec # NoRecord, rec' # NoRecord, is_terminal_state(rec.state)
    PROVE  rec'.state = rec.state
<1>1. rec.state \in ChallengeState /\ rec'.state \in ChallengeState
  BY DEF Awake, IInv, Good, CachedChallenge
<1> QED BY <1>1
        DEF Lifecycle!Next, Lifecycle!lcVars, Lifecycle!Create, Lifecycle!Advance,
            Lifecycle!Remove, Lifecycle!Expire, is_terminal_state, ChallengeState

(* What the header of challenge_do.rs says of terminal states is true      *)
(* while the storage reads and writes without fail: the object does        *)
(* serialise its writes then, because no handler yields in between.        *)
THEOREM TerminalStatesStay ==
    ASSUME ReliableStorage
    PROVE  Spec => TerminalStatesAreFinal
<1>1. PutsSucceed
  BY DEF ReliableStorage, PutsSucceed
<1>2. Awake /\ [Next]_doVars =>
         [(rec # NoRecord /\ rec' # NoRecord /\ is_terminal_state(rec.state))
             => rec'.state = rec.state]_doVars
  <2> SUFFICES ASSUME Awake, [Next]_doVars, rec # NoRecord, rec' # NoRecord,
                      is_terminal_state(rec.state)
               PROVE  rec'.state = rec.state
    OBVIOUS
  <2> QED BY <1>1, AwakeNext, LifecycleStep, LifecycleKeepsTerminal
<1> QED BY <1>1, <1>2, AwakeInvariant, PTL DEF Spec, TerminalStatesAreFinal

-----------------------------------------------------------------------------
(* How a sleeping handler ends.  Attempts counts down what put_with_retry  *)
(* may still try: after the record the mapping has attempts of its own.    *)
Attempts(o) ==
    CASE o.phase = "create_record" -> 2 * PutMaxAttempts - o.tries
      [] o.phase \in {"create_mapping", "update_record"} -> PutMaxAttempts - o.tries
      [] OTHER -> 0

\* a handler that sleeps is left alone, or has fewer attempts left
RetriesRunOut ==
    [][ \A r \in Req :
          Ongoing(r) => op'[r] = op[r] \/ Attempts(op'[r]) < Attempts(op[r]) ]_doVars

\* and no handler that does not sleep has any
SleepersHaveAttempts == \A r \in Req : Ongoing(r) <=> Attempts(op[r]) > 0

LEMMA AttemptsAsleep ==
    ASSUME NEW p \in Sleeping, NEW v, NEW n \in 1..(PutMaxAttempts - 1)
    PROVE  /\ Attempts(Asleep(p, v, n)) > 0
           /\ Attempts(Asleep(p, v, n)) =
                 IF p = "create_record" THEN 2 * PutMaxAttempts - n ELSE PutMaxAttempts - n
BY BoundAssumption DEF Attempts, Asleep, Sleeping

LEMMA AttemptsEnded == Attempts(Idle) = 0 /\ \A a : Attempts(Done(a)) = 0
BY DEF Attempts, Done, Idle

LEMMA SleeperShape ==
    ASSUME TypeOK, NEW r \in Req, Ongoing(r)
    PROVE  /\ op[r].phase \in Sleeping
           /\ op[r].tries \in 1..(PutMaxAttempts - 1)
           /\ op[r] = Asleep(op[r].phase, op[r].val, op[r].tries)
           /\ Attempts(op[r]) > 0
<1>1. op[r] \in [phase : Sleeping, val : CachedChallenge, tries : 1..(PutMaxAttempts - 1)]
  BY DEF TypeOK, OpStates, Ongoing, Idle, Done, Sleeping
<1>2. op[r] = Asleep(op[r].phase, op[r].val, op[r].tries)
  BY <1>1 DEF Asleep
<1>3. Attempts(Asleep(op[r].phase, op[r].val, op[r].tries)) > 0
  BY <1>1, AttemptsAsleep
<1> QED BY <1>1, <1>2, <1>3

(* One attempt of a write takes one of the attempts that are left.         *)
LEMMA PutFailsLowers ==
    ASSUME IInv, NEW r \in Req, NEW p \in Sleeping, NEW v, NEW n \in 1..PutMaxAttempts,
           PutFails(r, p, v, n)
    PROVE  /\ \/ Attempts(op'[r]) = 0
              \/ /\ n < PutMaxAttempts
                 /\ Attempts(op'[r]) =
                       IF p = "create_record" THEN 2 * PutMaxAttempts - n
                       ELSE PutMaxAttempts - n
           /\ \A q \in Req \ {r} : op'[q] = op[q]
<1>1. op \in [Req -> OpStates]
  BY DEF IInv, TypeOK
<1>2. CASE n < PutMaxAttempts
  <2>1. n \in 1..(PutMaxAttempts - 1)
    BY <1>2, BoundAssumption
  <2>2. op' = [op EXCEPT ![r] = Asleep(p, v, n)]
    BY <1>2 DEF PutFails
  <2>3. op'[r] = Asleep(p, v, n) /\ \A q \in Req \ {r} : op'[q] = op[q]
    BY <1>1, <2>2
  <2> QED BY <1>2, <2>1, <2>3, AttemptsAsleep
<1>3. CASE ~(n < PutMaxAttempts)
  BY <1>1, <1>3, AttemptsEnded DEF PutFails, Answer
<1> QED BY <1>2, <1>3

LEMMA AnswerEnds ==
    ASSUME IInv, NEW r \in Req, NEW a, Answer(r, a)
    PROVE  Attempts(op'[r]) = 0 /\ \A q \in Req \ {r} : op'[q] = op[q]
BY AttemptsEnded DEF IInv, TypeOK, Answer

LEMMA RetryLowers ==
    ASSUME IInv, NEW r \in Req, RetryPut(r)
    PROVE  /\ Attempts(op'[r]) < Attempts(op[r])
           /\ \A q \in Req \ {r} : op'[q] = op[q]
<1> DEFINE p == op[r].phase
           v == op[r].val
           k == op[r].tries
<1>1. p \in Sleeping /\ k \in 1..(PutMaxAttempts - 1) /\ op[r] = Asleep(p, v, k)
  BY SleeperShape DEF IInv, RetryPut
<1>2. /\ Attempts(op[r]) =
            IF p = "create_record" THEN 2 * PutMaxAttempts - k ELSE PutMaxAttempts - k
      /\ Attempts(op[r]) > 0
  BY <1>1, AttemptsAsleep
<1>3. k + 1 \in 1..PutMaxAttempts /\ 1 \in 1..PutMaxAttempts /\ k \in Nat
  BY <1>1, BoundAssumption
<1> HIDE DEF p, v, k
<1>4. ASSUME NEW a, Answer(r, a)
      PROVE  /\ Attempts(op'[r]) < Attempts(op[r])
             /\ \A q \in Req \ {r} : op'[q] = op[q]
  BY <1>2, <1>4, AnswerEnds
<1>5. ASSUME PutFails(r, p, v, k + 1)
      PROVE  /\ Attempts(op'[r]) < Attempts(op[r])
             /\ \A q \in Req \ {r} : op'[q] = op[q]
  BY <1>1, <1>2, <1>3, <1>5, PutFailsLowers, BoundAssumption
<1>6. ASSUME p = "create_record", PutFails(r, "create_mapping", v, 1)
      PROVE  /\ Attempts(op'[r]) < Attempts(op[r])
             /\ \A q \in Req \ {r} : op'[q] = op[q]
  <2>1. /\ Attempts(op'[r]) = 0 \/ Attempts(op'[r]) = PutMaxAttempts - 1
        /\ \A q \in Req \ {r} : op'[q] = op[q]
    BY <1>3, <1>6, PutFailsLowers DEF Sleeping
  <2> QED BY <1>1, <1>2, <1>6, <2>1, BoundAssumption
<1>7. CASE p = "create_record" /\ PutNewRecord(r, v, k + 1)
  BY <1>4, <1>5, <1>6, <1>7 DEF PutNewRecord, PutMapping
<1>8. CASE p = "create_mapping" /\ PutMapping(r, v, k + 1)
  BY <1>4, <1>5, <1>8 DEF PutMapping
<1>9. CASE p = "update_record" /\ PutUpdate(r, v, k + 1)
  BY <1>4, <1>5, <1>9 DEF PutUpdate
<1> QED BY <1>7, <1>8, <1>9 DEF RetryPut, p, v, k

(* A request that arrives changes the state of that request only.          *)
LEMMA HandleStartsOne ==
    ASSUME IInv, NEW r \in Req, Handle(r)
    PROVE  op[r] = Idle /\ \A q \in Req \ {r} : op'[q] = op[q]
<1>1. op[r] = Idle
  BY DEF Handle, create_challenge, get_challenge, get_challenge_by_code,
         update_challenge, delete_challenge
<1>2. \E o : op' = [op EXCEPT ![r] = o]
  <2>1. \A p, v, n : PutFails(r, p, v, n) => \E o : op' = [op EXCEPT ![r] = o]
    BY DEF PutFails, Answer
  <2>2. \A a : Answer(r, a) => \E o : op' = [op EXCEPT ![r] = o]
    BY DEF Answer
  <2>3. ASSUME NEW c \in CallerRecords, create_challenge(r, c)
        PROVE  \E o : op' = [op EXCEPT ![r] = o]
    BY <2>1, <2>2, <2>3 DEF create_challenge, PutNewRecord, PutMapping
  <2>4. ASSUME NEW u \in CallerRecords, update_challenge(r, u)
        PROVE  \E o : op' = [op EXCEPT ![r] = o]
    BY <2>1, <2>2, <2>4 DEF update_challenge, PutUpdate
  <2>5. ASSUME get_challenge(r) \/ get_challenge_by_code(r) \/ delete_challenge(r)
        PROVE  \E o : op' = [op EXCEPT ![r] = o]
    BY <2>2, <2>5 DEF get_challenge, get_challenge_by_code, delete_challenge,
                      ReadOrExpire, DeleteKeys
  <2> QED BY <2>3, <2>4, <2>5 DEF Handle
<1> QED BY <1>1, <1>2 DEF IInv, TypeOK

LEMMA RetryStep ==
    ASSUME IInv, [Next]_doVars, NEW q \in Req, Ongoing(q)
    PROVE  op'[q] = op[q] \/ Attempts(op'[q]) < Attempts(op[q])
<1>1. ASSUME NEW r \in Req, Handle(r)
      PROVE  op'[q] = op[q]
  BY <1>1, HandleStartsOne DEF Ongoing, Idle, Sleeping
<1>2. ASSUME NEW r \in Req, RetryPut(r)
      PROVE  op'[q] = op[q] \/ Attempts(op'[q]) < Attempts(op[q])
  BY <1>2, RetryLowers
<1>3. CASE Tick \/ UNCHANGED doVars
  BY <1>3 DEF Tick, doVars
<1>4. CASE Evict
  <2>1. Attempts(op'[q]) = 0
    BY <1>4, AttemptsEnded DEF Evict
  <2>2. Attempts(op[q]) > 0
    BY SleeperShape DEF IInv
  <2> QED BY <2>1, <2>2
<1> QED BY <1>1, <1>2, <1>3, <1>4 DEF Next

(* Only a handler that sleeps has attempts left, and every step that       *)
(* touches it leaves it fewer: what EveryRequestAnswered needs beside the  *)
(* timers, which is that put_with_retry cannot start over.                 *)
THEOREM RetriesEnd == Spec => []SleepersHaveAttempts /\ RetriesRunOut
<1>1. IInv => SleepersHaveAttempts
  <2> SUFFICES ASSUME IInv, NEW r \in Req
               PROVE  Ongoing(r) <=> Attempts(op[r]) > 0
    BY DEF SleepersHaveAttempts
  <2>1. CASE Ongoing(r)
    BY <2>1, SleeperShape DEF IInv
  <2>2. CASE ~Ongoing(r)
    BY <2>2 DEF Ongoing, Attempts, Sleeping
  <2> QED BY <2>1, <2>2
<1>2. IInv /\ [Next]_doVars =>
         [\A r \in Req :
            Ongoing(r) => op'[r] = op[r] \/ Attempts(op'[r]) < Attempts(op[r])]_doVars
  BY RetryStep
<1> QED BY <1>1, <1>2, Invariance, PTL DEF Spec, RetriesRunOut

=============================================================================
