------------------------- MODULE VerdictFlow_proofs -------------------------
(***************************************************************************)
(* Proofs about VerdictFlow, for every number of handlers of each kind,    *)
(* number of sends, expiry, bound on the clock and set of failing services *)
(* except where a theorem names one.                                       *)
(***************************************************************************)
EXTENDS VerdictFlow, TLAPS

Points == {"idle", "loaded", "gated", "admitted", "put", "done"}

PcType      == pc \in [Handlers -> Points]
SnapType    == snap \in [Handlers -> DO!CachedChallenge \cup {NoRecord}]
OutType     == out \in [Handlers -> DO!CachedChallenge \cup {NoRecord}]
CallType    == call \in [Handlers -> Attempt] /\ \A h \in Handlers : call[h][1] = h
AnswerType  == answer \in [Handlers -> Answers]
NonceType   == nonces \subseteq {"verify", "redeem"}
BillType    == /\ metered \in BOOLEAN
               /\ billing \in [Redeemers -> {"unread", "metered", "unmetered"}]
               /\ charged \in BOOLEAN

\* what a handler has read, and what it writes back
PutHasRecord ==
    /\ \A h \in Handlers : pc[h] = "put" => out[h] # NoRecord
    /\ \A r \in sent : out[r[1]] # NoRecord
SnapRead ==
    \A h \in Handlers : pc[h] \in {"loaded", "gated", "admitted"} => snap[h] # NoRecord

FlowType ==
    /\ DO!TypeOK
    /\ PcType /\ SnapType /\ OutType /\ CallType
    /\ sent \subseteq Attempt
    /\ AnswerType /\ NonceType /\ BillType
    /\ PutHasRecord /\ SnapRead

-----------------------------------------------------------------------------
(* The object in the flow: its steps, for any record a handler may write.  *)

LEMMA ObjectAnswer ==
    ASSUME DO!TypeOK, NEW r \in Attempt, NEW a \in DO!Replies, DO!Answer(r, a)
    PROVE  /\ op' \in [Attempt -> DO!OpStates]
           /\ \A q \in Attempt : DO!Ongoing(q)' => DO!Ongoing(q) /\ op'[q] = op[q]
BY DEF DO!TypeOK, DO!Answer, DO!OpStates, DO!Done, DO!Ongoing, DO!Sleeping

LEMMA ObjectPutFails ==
    ASSUME DO!TypeOK, NEW r \in Attempt, NEW p \in DO!Sleeping,
           NEW v \in DO!CachedChallenge, NEW n \in 1..PutMaxAttempts,
           DO!PutFails(r, p, v, n)
    PROVE  /\ op' \in [Attempt -> DO!OpStates]
           /\ \A q \in Attempt :
                 DO!Ongoing(q)' => op'[q].val = v \/ (DO!Ongoing(q) /\ op'[q] = op[q])
<1>1. CASE n < PutMaxAttempts
  <2>1. op' = [op EXCEPT ![r] = DO!Asleep(p, v, n)] /\ n \in 1..(PutMaxAttempts - 1)
    BY <1>1, ObjectAssumption DEF DO!PutFails
  <2>2. DO!Asleep(p, v, n) \in DO!OpStates /\ DO!Asleep(p, v, n).val = v
    BY <2>1 DEF DO!Asleep, DO!OpStates
  <2> QED BY <2>1, <2>2 DEF DO!TypeOK, DO!Ongoing
<1>2. CASE ~(n < PutMaxAttempts)
  BY <1>2, ObjectAnswer DEF DO!PutFails, DO!Replies
<1> QED BY <1>1, <1>2

(* Every record the object holds after a write is one it held before or    *)
(* the one written.                                                        *)
LEMMA ObjectWrite ==
    ASSUME DO!TypeOK, NEW r \in Attempt, NEW v \in DO!CachedChallenge,
           NEW n \in 1..PutMaxAttempts, UNCHANGED now,
           \/ DO!PutNewRecord(r, v, n)
           \/ DO!PutMapping(r, v, n) /\ UNCHANGED rec
           \/ DO!PutUpdate(r, v, n)
    PROVE  DO!TypeOK' /\ DO!Records' \subseteq DO!Records \cup {v}
<1>1. PICK p \in DO!Sleeping, m \in 1..PutMaxAttempts :
         /\ DO!PutFails(r, p, v, m) \/ \E a \in DO!Replies : DO!Answer(r, a)
         /\ rec' = rec \/ rec' = v
         /\ codeMap' = codeMap \/ codeMap' = TRUE
  <2>1. 1 \in 1..PutMaxAttempts
    BY ObjectAssumption
  <2> QED BY <2>1 DEF DO!PutNewRecord, DO!PutMapping, DO!PutUpdate, DO!Sleeping, DO!Replies
<1>2. /\ op' \in [Attempt -> DO!OpStates]
      /\ \A q \in Attempt :
            DO!Ongoing(q)' => op'[q].val = v \/ (DO!Ongoing(q) /\ op'[q] = op[q])
  BY <1>1, ObjectPutFails, ObjectAnswer
<1>3. DO!TypeOK'
  BY <1>1, <1>2 DEF DO!TypeOK
<1>4. DO!Records' \subseteq DO!Records \cup {v}
  BY <1>1, <1>2 DEF DO!Records
<1> QED BY <1>3, <1>4

(* A handler of the object that answers without a write.                   *)
LEMMA ObjectReply ==
    ASSUME DO!TypeOK, NEW r \in Attempt, NEW a \in DO!Replies, DO!Answer(r, a),
           rec' = rec \/ rec' = NoRecord, codeMap' \in BOOLEAN, UNCHANGED now
    PROVE  DO!TypeOK' /\ DO!Records' \subseteq DO!Records
<1>1. /\ op' \in [Attempt -> DO!OpStates]
      /\ \A q \in Attempt : DO!Ongoing(q)' => DO!Ongoing(q) /\ op'[q] = op[q]
  BY ObjectAnswer
<1>2. DO!TypeOK'
  BY <1>1 DEF DO!TypeOK
<1>3. DO!Records' \subseteq DO!Records
  BY <1>1 DEF DO!Records
<1> QED BY <1>2, <1>3

LEMMA ObjectGet ==
    ASSUME DO!TypeOK, NEW r \in Attempt, DO!get_challenge(r)
    PROVE  DO!TypeOK' /\ DO!Records' \subseteq DO!Records
BY ObjectReply
   DEF DO!get_challenge, DO!ReadOrExpire, DO!DeleteKeys, DO!Replies, DO!TypeOK

LEMMA ObjectCreate ==
    ASSUME DO!TypeOK, NEW r \in Attempt, NEW c \in DO!CachedChallenge,
           DO!create_challenge(r, c)
    PROVE  DO!TypeOK' /\ DO!Records' \subseteq DO!Records \cup {c}
<1>1. CASE DO!Answer(r, "created") /\ UNCHANGED <<rec, codeMap>>
  BY <1>1, ObjectReply DEF DO!create_challenge, DO!Replies, DO!TypeOK
<1>2. CASE DO!PutNewRecord(r, c, 1)
  BY <1>2, ObjectWrite, ObjectAssumption DEF DO!create_challenge
<1> QED BY <1>1, <1>2 DEF DO!create_challenge

LEMMA MergeTyped ==
    ASSUME NEW s \in DO!CachedChallenge, NEW u \in DO!CachedChallenge
    PROVE  DO!Merge(s, u) \in DO!CachedChallenge /\ DO!Merge(s, u).state = u.state
BY DEF DO!Merge, DO!CachedChallenge

(* An update writes the mixture of a record the object holds with the      *)
(* update, and only when the transition between them is valid.             *)
LEMMA ObjectUpdate ==
    ASSUME DO!TypeOK, NEW r \in Attempt, NEW u \in DO!CachedChallenge,
           DO!update_challenge(r, u)
    PROVE  /\ DO!TypeOK'
           /\ \/ DO!Records' \subseteq DO!Records
              \/ \E s \in DO!Records :
                    /\ DO!is_valid_transition(s.state, u.state)
                    /\ DO!Records' \subseteq DO!Records \cup {DO!Merge(s, u)}
<1>1. PICK seen \in DO!Seen :
         \/ \E a \in DO!Replies : DO!Answer(r, a) /\ UNCHANGED <<rec, codeMap>>
         \/ /\ seen # NoRecord
            /\ DO!is_valid_transition(seen.state, u.state)
            /\ DO!PutUpdate(r, DO!Merge(seen, u), 1)
  BY DEF DO!update_challenge, DO!Replies
<1>2. UNCHANGED now
  BY DEF DO!update_challenge
<1>3. CASE \E a \in DO!Replies : DO!Answer(r, a) /\ UNCHANGED <<rec, codeMap>>
  BY <1>2, <1>3, ObjectReply DEF DO!TypeOK
<1>4. CASE /\ seen # NoRecord
           /\ DO!is_valid_transition(seen.state, u.state)
           /\ DO!PutUpdate(r, DO!Merge(seen, u), 1)
  <2>1. seen \in DO!Records /\ seen \in DO!CachedChallenge
    BY <1>4 DEF DO!Seen, DO!Records, DO!TypeOK
  <2>2. DO!Merge(seen, u) \in DO!CachedChallenge
    BY <2>1, MergeTyped
  <2>3. DO!TypeOK' /\ DO!Records' \subseteq DO!Records \cup {DO!Merge(seen, u)}
    BY <1>2, <1>4, <2>2, ObjectWrite, ObjectAssumption
  <2> QED BY <1>4, <2>1, <2>3
<1> QED BY <1>1, <1>3, <1>4

LEMMA ObjectEnvironment ==
    ASSUME DO!TypeOK, DO!Tick \/ DO!Evict \/ \E r \in Attempt : DO!RetryPut(r)
    PROVE  DO!TypeOK' /\ DO!Records' \subseteq DO!Records
<1>1. CASE DO!Tick
  BY <1>1 DEF DO!Tick, DO!TypeOK, DO!Records, DO!Ongoing
<1>2. CASE DO!Evict
  <2>1. op' \in [Attempt -> DO!OpStates] /\ \A q \in Attempt : ~DO!Ongoing(q)'
    BY <1>2 DEF DO!Evict, DO!TypeOK, DO!OpStates, DO!Replies, DO!Ongoing, DO!Done, DO!Sleeping
  <2> QED BY <1>2, <2>1 DEF DO!Evict, DO!TypeOK, DO!Records
<1>3. ASSUME NEW r \in Attempt, DO!RetryPut(r)
      PROVE  DO!TypeOK' /\ DO!Records' \subseteq DO!Records
  <2> DEFINE v == op[r].val
             n == op[r].tries + 1
  <2>1. DO!Ongoing(r) /\ UNCHANGED now
    BY <1>3 DEF DO!RetryPut
  <2>2. v \in DO!Records /\ v \in DO!CachedChallenge /\ n \in 1..PutMaxAttempts
    BY <2>1, ObjectAssumption
       DEF DO!TypeOK, DO!OpStates, DO!Ongoing, DO!Sleeping, DO!Idle, DO!Done, DO!Records
  <2>3. \/ DO!PutNewRecord(r, v, n)
        \/ DO!PutMapping(r, v, n) /\ UNCHANGED rec
        \/ DO!PutUpdate(r, v, n)
    BY <1>3 DEF DO!RetryPut
  <2> QED BY <2>1, <2>2, <2>3, ObjectWrite
<1> QED BY <1>1, <1>2, <1>3

-----------------------------------------------------------------------------
(* Types of the flow.  A handler's step is one of few shapes.              *)

LEMMA FinishKeepsType ==
    ASSUME FlowType, NEW h \in Handlers, NEW a \in Answers, Finish(h, a)
    PROVE  /\ PcType' /\ AnswerType'
           /\ \A g \in Handlers : pc'[g] = pc[g] \/ pc'[g] = "done"
BY DEF FlowType, PcType, AnswerType, Finish, Goto, Points

LEMMA ReplyKeepsType ==
    ASSUME FlowType, NEW h \in Handlers, NEW a \in Answers, Reply(h, a),
           NonceType', BillType'
    PROVE  FlowType'
<1>1. PcType' /\ AnswerType' /\ (\A g \in Handlers : pc'[g] = pc[g] \/ pc'[g] = "done")
  BY FinishKeepsType DEF Reply
<1>2. UNCHANGED <<doVars, snap, sendVars>>
  BY DEF Reply
<1>3. DO!TypeOK'
  BY <1>2 DEF FlowType, DO!TypeOK, doVars
<1> QED
  BY <1>1, <1>2, <1>3
     DEF FlowType, SnapType, OutType, CallType, PutHasRecord, SnapRead, sendVars

LEMMA PutKeepsType ==
    ASSUME FlowType, NEW h \in Handlers, NEW c \in DO!CachedChallenge, Put(h, c),
           NonceType', BillType'
    PROVE  FlowType'
<1>1. <<h, "update", 1>> \in Attempt /\ c # NoRecord
  BY SendAssumption, ObjectAssumption DEF Attempt
<1>2. DO!TypeOK' /\ SnapType' /\ AnswerType'
  BY DEF Put, FlowType, DO!TypeOK, doVars, SnapType, AnswerType
<1>3. PcType' /\ OutType' /\ SnapRead'
  BY DEF Put, Goto, FlowType, PcType, OutType, SnapRead, Points
<1>4. CallType' /\ sent' \subseteq Attempt
  BY <1>1 DEF Put, FlowType, CallType
<1>5. PutHasRecord'
  BY <1>1 DEF Put, Goto, FlowType, PcType, OutType, PutHasRecord
<1> QED BY <1>2, <1>3, <1>4, <1>5 DEF FlowType

LEMMA GotoKeepsType ==
    ASSUME FlowType, NEW h \in Handlers, NEW p \in {"gated", "admitted"},
           pc[h] \in {"loaded", "gated"}, Goto(h, p),
           UNCHANGED <<doVars, snap, sendVars, answer, billVars>>, NonceType'
    PROVE  FlowType'
<1>1. DO!TypeOK' /\ SnapType' /\ AnswerType' /\ OutType' /\ CallType' /\ BillType'
  BY DEF FlowType, DO!TypeOK, doVars, SnapType, AnswerType, OutType, CallType,
         sendVars, BillType, billVars
<1>2. PcType' /\ SnapRead' /\ PutHasRecord'
  BY DEF FlowType, PcType, Goto, Points, SnapRead, PutHasRecord, sendVars
<1> QED BY <1>1, <1>2 DEF FlowType, sendVars

(* The nonce store answers "fresh" only for a tag that was not consumed,   *)
(* which then is.                                                          *)
LEMMA NonceResult ==
    ASSUME NEW tag, NEW result \in check_and_set(tag)
    PROVE  /\ result[2] = nonces \/ result[2] = nonces \cup {tag}
           /\ result[1] = "fresh" => tag \notin nonces /\ result[2] = nonces \cup {tag}
<1>1. CASE result = <<IF tag \in nonces THEN "used" ELSE "fresh", nonces \cup {tag}>>
  BY <1>1
<1>2. CASE result \in {"error"} \X {nonces, nonces \cup {tag}}
  <2>1. PICK y \in {nonces, nonces \cup {tag}} : result = <<"error", y>>
    BY <1>2
  <2> QED BY <2>1
<1> QED BY <1>1, <1>2 DEF check_and_set

LEMMA NonceKeepsType ==
    ASSUME FlowType, NEW h \in Handlers, NEW tag \in {"verify", "redeem"},
           pc[h] \in {"loaded", "gated"}, ConsumeNonce(h, tag), UNCHANGED billVars
    PROVE  FlowType'
<1>1. NonceType'
  <2>1. PICK result \in check_and_set(tag) : nonces' = result[2]
    BY DEF ConsumeNonce
  <2>2. nonces' = nonces \/ nonces' = nonces \cup {tag}
    BY <2>1, NonceResult
  <2> QED BY <2>2 DEF FlowType, NonceType
<1>2. BillType'
  BY DEF FlowType, BillType, billVars
<1> QED BY <1>1, <1>2, ReplyKeepsType, GotoKeepsType DEF ConsumeNonce, Answers

(* A record made from the one a handler read.                              *)
LEMMA WriteBackTyped ==
    ASSUME FlowType, NEW h \in Handlers, pc[h] \in {"loaded", "gated", "admitted"}
    PROVE  /\ snap[h] \in DO!CachedChallenge
           /\ \A st \in DO!ChallengeState, sub \in {"Yes", "No"},
                 v, w \in {"None", "Some"}, sec \in {"Held", "Wiped"} :
                [state |-> st, submit_secret |-> sec, proof_submitted |-> sub,
                 proof_verified_at |-> v, verified_at |-> w] \in DO!CachedChallenge
BY DEF FlowType, SnapType, SnapRead, DO!CachedChallenge

LEMMA CreateType == ASSUME FlowType, NEW h \in Handlers, create_challenge(h) PROVE FlowType'
<1>1. DO!FreshChallenge \in DO!CachedChallenge
  BY DEF DO!FreshChallenge, DO!Challenge, DO!CachedChallenge, DO!ChallengeState
<1>2. NonceType' /\ BillType'
  BY DEF create_challenge, FlowType, NonceType, BillType, billVars
<1> QED BY <1>1, <1>2, PutKeepsType DEF create_challenge

LEMMA LoadType == ASSUME FlowType, NEW h \in Handlers, Load(h) PROVE FlowType'
<1>1. UNCHANGED <<sendVars, nonces, billVars>>
  BY DEF Load
<1>2. NonceType' /\ BillType' /\ OutType' /\ CallType' /\ sent' \subseteq Attempt
  BY <1>1 DEF FlowType, NonceType, BillType, billVars, OutType, CallType, sendVars
<1>3. <<h, "get", 1>> \in Attempt
  BY SendAssumption DEF Attempt
<1>4. DO!TypeOK'
  BY <1>3, ObjectGet DEF Load, FlowType, DO!TypeOK, doVars
<1>5. CASE \E a \in Answers : Finish(h, a) /\ UNCHANGED snap
  <2>1. PcType' /\ AnswerType' /\ \A g \in Handlers : pc'[g] = pc[g] \/ pc'[g] = "done"
    BY <1>5, FinishKeepsType
  <2> QED BY <1>1, <1>2, <1>4, <1>5, <2>1
          DEF FlowType, SnapType, PutHasRecord, SnapRead, sendVars
<1>6. CASE /\ DO!get_challenge(<<h, "get", 1>>)
           /\ op'[<<h, "get", 1>>] = DO!Done("found")
           /\ snap' = [snap EXCEPT ![h] = rec]
           /\ Goto(h, "loaded")
           /\ UNCHANGED answer
  <2>1. rec # NoRecord
    BY <1>3, <1>6
       DEF DO!get_challenge, DO!ReadOrExpire, DO!DeleteKeys, DO!Answer, DO!Done, DO!Seen,
           FlowType, DO!TypeOK
  <2>2. PcType' /\ SnapType' /\ SnapRead' /\ PutHasRecord'
    BY <1>1, <1>6, <2>1
       DEF FlowType, DO!TypeOK, PcType, SnapType, SnapRead, PutHasRecord, Goto, Points, sendVars
  <2> QED BY <1>2, <1>4, <1>6, <2>2 DEF FlowType, AnswerType
<1> QED BY <1>5, <1>6 DEF Load, Answers

LEMMA VerifyType ==
    ASSUME FlowType, NEW h \in Handlers, VerifyAdmit(h) \/ VerifyDecide(h)
    PROVE  FlowType'
<1>1. ASSUME UNCHANGED <<nonces, billVars>> PROVE NonceType' /\ BillType'
  BY <1>1 DEF FlowType, NonceType, BillType, billVars
<1>2. CASE VerifyAdmit(h)
  BY <1>1, <1>2, ReplyKeepsType, NonceKeepsType DEF VerifyAdmit, Answers
<1>3. CASE VerifyDecide(h)
  <2>1. snap[h] \in DO!CachedChallenge
    BY <1>3, WriteBackTyped DEF VerifyDecide
  <2>2. (\E c \in DO!CachedChallenge : Put(h, c)) \/ (\E a \in Answers : Reply(h, a))
    BY <1>3, <2>1
       DEF VerifyDecide, AcceptProof, fail_challenge_and_persist, Answers,
           DO!CachedChallenge, DO!ChallengeState
  <2> QED BY <1>1, <1>3, <2>2, PutKeepsType, ReplyKeepsType DEF VerifyDecide
<1> QED BY <1>2, <1>3

LEMMA RedeemType ==
    ASSUME FlowType, NEW h \in Handlers, RedeemGate(h) \/ RedeemNonce(h) \/ RedeemBill(h)
    PROVE  FlowType'
<1>1. ASSUME UNCHANGED <<nonces, billVars>> PROVE NonceType' /\ BillType'
  BY <1>1 DEF FlowType, NonceType, BillType, billVars
<1>2. CASE RedeemGate(h)
  BY <1>1, <1>2, ReplyKeepsType, GotoKeepsType DEF RedeemGate, Answers
<1>3. CASE RedeemNonce(h)
  BY <1>3, NonceKeepsType DEF RedeemNonce
<1>4. CASE RedeemBill(h)
  <2>1. snap[h] \in DO!CachedChallenge
    BY <1>4, WriteBackTyped DEF RedeemBill
  <2>2. (\E c \in DO!CachedChallenge : Put(h, c)) \/ (\E a \in Answers : Reply(h, a))
    BY <1>4, <2>1
       DEF RedeemBill, consume_credits, StoreVerdict, Answers,
           DO!CachedChallenge, DO!ChallengeState
  <2>3. NonceType' /\ BillType'
    BY <1>4
       DEF RedeemBill, consume_credits, MeteringRead, FlowType, NonceType, BillType
  <2> QED BY <2>2, <2>3, PutKeepsType, ReplyKeepsType
<1> QED BY <1>2, <1>3, <1>4

LEMMA SimulateType == ASSUME FlowType, NEW h \in Handlers, SimulateDecide(h) PROVE FlowType'
<1>1. NonceType' /\ BillType'
  BY DEF SimulateDecide, FlowType, NonceType, BillType, billVars
<1>2. snap[h] \in DO!CachedChallenge
  BY WriteBackTyped DEF SimulateDecide
<1>3. (\E c \in DO!CachedChallenge : Put(h, c)) \/ (\E a \in Answers : Reply(h, a))
  BY <1>2
     DEF SimulateDecide, AcceptProof, fail_challenge_and_persist, Answers,
         DO!CachedChallenge, DO!ChallengeState
<1> QED BY <1>1, <1>3, PutKeepsType, ReplyKeepsType

LEMMA PollType == ASSUME FlowType, NEW h \in Handlers, poll_challenge(h) PROVE FlowType'
<1>1. <<h, "get", 1>> \in Attempt
  BY SendAssumption DEF Attempt
<1>2. DO!TypeOK'
  BY <1>1, ObjectGet DEF poll_challenge, FlowType
<1>3. PcType' /\ AnswerType' /\ \A g \in Handlers : pc'[g] = pc[g] \/ pc'[g] = "done"
  BY FinishKeepsType DEF poll_challenge, Answers
<1>4. UNCHANGED <<snap, sendVars, nonces, billVars>>
  BY DEF poll_challenge
<1> QED BY <1>2, <1>3, <1>4
        DEF FlowType, SnapType, OutType, CallType, NonceType, BillType, PutHasRecord,
            SnapRead, sendVars, billVars

(* A second send repeats the last request of its handler.                  *)
LEMMA SendType ==
    ASSUME FlowType, NEW h \in Handlers, NEW r \in Attempt, r[1] = h,
           pc[h] = "put", Send(r),
           UNCHANGED <<doVars, pc, snap, out, answer, nonces, billVars>>
    PROVE  FlowType'
<1>1. CallType' /\ sent' \subseteq Attempt /\ PutHasRecord'
  BY DEF Send, FlowType, CallType, PutHasRecord
<1> QED BY <1>1
        DEF FlowType, DO!TypeOK, doVars, PcType, SnapType, OutType, AnswerType,
            NonceType, BillType, billVars, SnapRead

LEMMA GiveUpAnswers == \A h \in Handlers : AnsweredUnstored(h) \subseteq Answers
BY DEF AnsweredUnstored, Answered, Answers

LEMMA EndPutType ==
    ASSUME FlowType, NEW h \in Handlers, NEW a \in Answers, Finish(h, a),
           UNCHANGED <<doVars, snap, out, nonces, call, sent, metered, billing>>,
           charged' \in BOOLEAN
    PROVE  FlowType'
<1>1. PcType' /\ AnswerType' /\ \A g \in Handlers : pc'[g] = pc[g] \/ pc'[g] = "done"
  BY FinishKeepsType
<1> QED BY <1>1
        DEF FlowType, DO!TypeOK, doVars, SnapType, OutType, CallType, NonceType,
            BillType, PutHasRecord, SnapRead

LEMMA GiveUpType ==
    ASSUME FlowType, NEW h \in Handlers, GiveUp(h),
           UNCHANGED <<doVars, snap, out, nonces>>
    PROVE  FlowType'
BY EndPutType, GiveUpAnswers DEF GiveUp, billVars, FlowType, BillType

LEMMA ReceiveType == ASSUME FlowType, NEW h \in Handlers, Receive(h) PROVE FlowType'
<1>1. pc[h] = "put" /\ UNCHANGED <<doVars, snap, out, nonces>>
  BY DEF Receive
<1>2. CASE Finish(h, Answered(h)) /\ BillAfterVerdict(h) /\ UNCHANGED <<call, sent>>
  <2>1. Answered(h) \in Answers
    BY DEF Answered, Answers
  <2>2. charged' \in BOOLEAN /\ UNCHANGED <<metered, billing>>
    BY <1>2 DEF BillAfterVerdict, FlowType, BillType
  <2> QED BY <1>1, <1>2, <2>1, <2>2, EndPutType
<1>3. CASE Send(<<h, "create", 1>>) /\ UNCHANGED <<pc, answer, billVars>>
  <2>1. <<h, "create", 1>> \in Attempt
    BY SendAssumption DEF Attempt
  <2> QED BY <1>1, <1>3, <2>1, SendType
<1>4. CASE GiveUp(h)
  BY <1>1, <1>4, GiveUpType
<1> QED BY <1>2, <1>3, <1>4 DEF Receive

LEMMA TimeoutType == ASSUME FlowType, NEW h \in Handlers, Timeout(h) PROVE FlowType'
<1>1. pc[h] = "put" /\ UNCHANGED <<doVars, snap, out, nonces>>
  BY DEF Timeout
<1>2. CASE /\ call[h][3] < MaxSends
           /\ Send([call[h] EXCEPT ![3] = @ + 1])
           /\ UNCHANGED <<pc, answer, billVars>>
  <2>1. PICK k \in {"get", "update", "create"}, n \in 1..MaxSends : call[h] = <<h, k, n>>
    BY DEF FlowType, CallType, Attempt
  <2>2. [call[h] EXCEPT ![3] = @ + 1] = <<h, k, n + 1>> /\ n + 1 \in 1..MaxSends
    BY <1>2, <2>1, SendAssumption
  <2>3. <<h, k, n + 1>> \in Attempt
    BY <2>2 DEF Attempt
  <2> QED BY <1>1, <1>2, <2>2, <2>3, SendType
<1>3. CASE GiveUp(h)
  BY <1>1, <1>3, GiveUpType
<1> QED BY <1>2, <1>3 DEF Timeout

LEMMA DeliverType == ASSUME FlowType, NEW r \in sent, Deliver(r) PROVE FlowType'
<1>1. r \in Attempt /\ r[1] \in Handlers /\ out[r[1]] \in DO!CachedChallenge
  BY DEF FlowType, PutHasRecord, OutType, Attempt
<1>2. DO!TypeOK'
  BY <1>1, ObjectUpdate, ObjectCreate DEF Deliver, FlowType
<1> QED BY <1>2
        DEF Deliver, FlowType, PcType, SnapType, OutType, CallType, AnswerType,
            NonceType, BillType, billVars, PutHasRecord, SnapRead

LEMMA EnvironmentType == FlowType /\ Environment => FlowType'
<1> SUFFICES ASSUME FlowType, Environment PROVE FlowType'
  OBVIOUS
<1>1. DO!TypeOK'
  BY ObjectEnvironment DEF Environment, FlowType
<1> QED BY <1>1
        DEF Environment, FlowType, PcType, SnapType, OutType, CallType, AnswerType,
            NonceType, BillType, billVars, PutHasRecord, SnapRead, sendVars

LEMMA FlowTypeInit == Init => FlowType
<1> SUFFICES ASSUME Init PROVE FlowType
  OBVIOUS
<1>1. DO!TypeOK
  BY DEF Init, DO!Init, DO!TypeOK, DO!OpStates
<1>2. CallType
  BY SendAssumption DEF Init, CallType, Attempt
<1> QED BY <1>1, <1>2
        DEF Init, FlowType, PcType, Points, SnapType, OutType, AnswerType, Answers,
            NonceType, BillType, PutHasRecord, SnapRead

LEMMA FlowTypeNext == FlowType /\ [Next]_vars => FlowType'
<1> SUFFICES ASSUME FlowType, [Next]_vars PROVE FlowType'
  OBVIOUS
<1>1. ASSUME NEW h \in Handlers, Step(h) PROVE FlowType'
  BY <1>1, CreateType, LoadType, VerifyType, RedeemType, SimulateType, PollType,
     ReceiveType, TimeoutType DEF Step
<1>2. CASE UNCHANGED vars
  BY <1>2
     DEF vars, doVars, sendVars, billVars, FlowType, DO!TypeOK, PcType, SnapType,
         OutType, CallType, AnswerType, NonceType, BillType, PutHasRecord, SnapRead
<1> QED BY <1>1, <1>2, DeliverType, EnvironmentType DEF Next

LEMMA FlowTypeInvariant == Spec => []FlowType
<1> QED BY FlowTypeInit, FlowTypeNext, PTL DEF Spec

(* Every reachable state of the flow is well typed.                        *)
THEOREM TypeCorrect == Spec => []TypeOK
<1>1. FlowType => TypeOK
  BY DEF FlowType, TypeOK, PcType, Points, SnapType, OutType, CallType, AnswerType,
         NonceType, BillType
<1> QED BY <1>1, FlowTypeInvariant, PTL

-----------------------------------------------------------------------------
(* What handlers write and answer.  A handler writes at most once, and a   *)
(* verification or redemption is answered by what it wrote.                *)

WrittenOnce == \A h \in Handlers : out[h] # NoRecord => pc[h] \in {"put", "done"}

AnsweredAsWritten ==
    \A h \in Verifiers \cup Redeemers :
       answer[h] \in {"ok", "rejected"} =>
          out[h] # NoRecord /\ (answer[h] = "rejected" <=> out[h].state = "Failed")

WriteInv == FlowType /\ WrittenOnce /\ AnsweredAsWritten

LEMMA Kinds ==
    /\ Creator \notin Verifiers \cup Redeemers
    /\ Verifiers \cap Redeemers = {}
    /\ \A h \in Simulators \cup Pollers : h \notin Verifiers \cup Redeemers
    /\ Creator \notin Simulators
    /\ Verifiers \subseteq Handlers /\ Redeemers \subseteq Handlers
BY HandlerAssumption DEF Handlers

\* the record h may start to write in this state
MayWrite(h, c) ==
    \/ h = Creator /\ pc[h] = "idle" /\ c.state = "Pending"
    \/ /\ h \in Verifiers /\ pc[h] = "admitted"
       /\ c.state \in {"Failed", "Expired", "ProofOkWaitingForRedeem"}
    \/ h \in Redeemers /\ pc[h] = "admitted" /\ c.state = "Verified"
    \/ /\ h \in Simulators /\ pc[h] = "loaded"
       /\ c.state \in {"Failed", "Expired", "ProofOkWaitingForRedeem"}

LEMMA WriteStep ==
    ASSUME FlowType, NEW h \in Handlers, Step(h)
    PROVE  out' = out \/ \E c : Put(h, c) /\ MayWrite(h, c)
<1>1. ASSUME NEW a, Reply(h, a) PROVE out' = out
  BY <1>1 DEF Reply, sendVars
<1>2. CASE VerifyDecide(h) \/ RedeemBill(h) \/ SimulateDecide(h)
  <2>1. snap[h] \in DO!CachedChallenge
    BY <1>2, WriteBackTyped DEF VerifyDecide, RedeemBill, SimulateDecide
  <2> DEFINE Writes(S) == \E c : Put(h, c) /\ c.state \in S
  <2>2. fail_challenge_and_persist(h) => Writes({"Failed"})
    <3>1. [snap[h] EXCEPT !.state = "Failed", !.proof_submitted = "Yes",
                          !.submit_secret = "Wiped"].state = "Failed"
      BY <2>1 DEF DO!CachedChallenge
    <3> QED BY ONLY <3>1 DEF fail_challenge_and_persist
  <2>3. AcceptProof(h) => Writes({"ProofOkWaitingForRedeem"})
    <3>1. [snap[h] EXCEPT !.state = "ProofOkWaitingForRedeem", !.proof_submitted = "Yes",
                          !.proof_verified_at = "Some", !.submit_secret = "Wiped"].state
             = "ProofOkWaitingForRedeem"
      BY <2>1 DEF DO!CachedChallenge
    <3> QED BY ONLY <3>1 DEF AcceptProof
  <2>4. StoreVerdict(h) => Writes({"Verified"})
    <3>1. [snap[h] EXCEPT !.state = "Verified", !.verified_at = "Some",
                          !.submit_secret = "Wiped"].state = "Verified"
      BY <2>1 DEF DO!CachedChallenge
    <3> QED BY ONLY <3>1 DEF StoreVerdict
  <2>5. /\ [snap[h] EXCEPT !.state = "Expired"].state = "Expired"
        /\ [snap[h] EXCEPT !.state = "Expired", !.submit_secret = "Wiped"].state = "Expired"
    BY <2>1 DEF DO!CachedChallenge
  <2>6. CASE VerifyDecide(h)
    <3>1. h \in Verifiers /\ pc[h] = "admitted"
      BY <2>6 DEF VerifyDecide
    <3>2. \/ fail_challenge_and_persist(h) \/ AcceptProof(h)
          \/ Put(h, [snap[h] EXCEPT !.state = "Expired", !.submit_secret = "Wiped"])
          \/ \E a : Reply(h, a)
      BY <2>6 DEF VerifyDecide
    <3>3. out' = out \/ Writes({"Failed", "Expired", "ProofOkWaitingForRedeem"})
      BY <1>1, <2>2, <2>3, <2>5, <3>2
    <3> QED BY <3>1, <3>3 DEF MayWrite
  <2>7. CASE RedeemBill(h)
    <3>1. h \in Redeemers /\ pc[h] = "admitted"
      BY <2>7 DEF RedeemBill
    <3>2. StoreVerdict(h) \/ \E a : Reply(h, a)
      BY <2>7 DEF RedeemBill, consume_credits
    <3> QED BY <1>1, <2>4, <3>1, <3>2 DEF MayWrite
  <2>8. CASE SimulateDecide(h)
    <3>1. h \in Simulators /\ pc[h] = "loaded"
      BY <2>8 DEF SimulateDecide
    <3>2. \/ fail_challenge_and_persist(h) \/ AcceptProof(h)
          \/ Put(h, [snap[h] EXCEPT !.state = "Expired"])
          \/ \E a : Reply(h, a)
      BY <2>8 DEF SimulateDecide
    <3>3. out' = out \/ Writes({"Failed", "Expired", "ProofOkWaitingForRedeem"})
      BY <1>1, <2>2, <2>3, <2>5, <3>2
    <3> QED BY <3>1, <3>3 DEF MayWrite
  <2> QED BY <1>2, <2>6, <2>7, <2>8
<1>3. CASE create_challenge(h)
  BY <1>3 DEF create_challenge, MayWrite, DO!FreshChallenge, DO!Challenge
<1>4. CASE Load(h) \/ VerifyAdmit(h) \/ RedeemGate(h) \/ RedeemNonce(h) \/ poll_challenge(h)
  BY <1>1, <1>4
     DEF Load, VerifyAdmit, RedeemGate, RedeemNonce, ConsumeNonce, poll_challenge, sendVars
<1>5. CASE Receive(h) \/ Timeout(h)
  BY <1>5 DEF Receive, Timeout
<1> QED BY <1>2, <1>3, <1>4, <1>5 DEF Step

\* the answer h may give in this state
MayAnswer(h, a) ==
    /\ a \in {"ok", "rejected"} =>
          h \in Pollers \/ (pc[h] = "put" /\ (a = "rejected" <=> out[h].state = "Failed"))
    /\ a = "write_failed" => pc[h] = "put"

LEMMA AnswerStep ==
    ASSUME FlowType, NEW h \in Handlers, Step(h)
    PROVE  answer' = answer \/ \E a : Finish(h, a) /\ MayAnswer(h, a)
<1>1. ASSUME NEW a \in Answers \ {"ok", "rejected", "write_failed"},
             Reply(h, a) \/ Finish(h, a)
      PROVE  Finish(h, a) /\ MayAnswer(h, a)
  BY <1>1 DEF Reply, MayAnswer
<1>2. ASSUME NEW c, Put(h, c) PROVE answer' = answer
  BY <1>2 DEF Put
<1>3. CASE Load(h)
  BY <1>1, <1>3 DEF Load, Answers
<1>4. CASE VerifyAdmit(h) \/ RedeemNonce(h)
  <2>1. ASSUME NEW tag, ConsumeNonce(h, tag)
        PROVE  answer' = answer \/ \E a : Finish(h, a) /\ MayAnswer(h, a)
    BY <1>1, <2>1 DEF ConsumeNonce, Answers
  <2> QED BY <1>1, <1>4, <2>1 DEF VerifyAdmit, RedeemNonce, Answers
<1>5. CASE VerifyDecide(h) \/ RedeemGate(h) \/ RedeemBill(h) \/ SimulateDecide(h)
  BY <1>1, <1>2, <1>5
     DEF VerifyDecide, RedeemGate, RedeemBill, SimulateDecide, consume_credits, StoreVerdict,
         AcceptProof, fail_challenge_and_persist, Answers
<1>6. CASE create_challenge(h)
  BY <1>2, <1>6 DEF create_challenge
<1>7. CASE poll_challenge(h)
  BY <1>7 DEF poll_challenge, MayAnswer
<1>8. CASE Receive(h) \/ Timeout(h)
  <2>1. pc[h] = "put"
    BY <1>8 DEF Receive, Timeout
  <2>2. MayAnswer(h, Answered(h))
    BY <2>1 DEF MayAnswer, Answered
  <2>3. \A a \in AnsweredUnstored(h) : MayAnswer(h, a)
    BY <2>1, <2>2 DEF AnsweredUnstored, MayAnswer
  <2>4. Receive(h) => GiveUp(h) \/ Finish(h, Answered(h)) \/ answer' = answer
    BY DEF Receive
  <2>5. Timeout(h) => GiveUp(h) \/ answer' = answer
    BY DEF Timeout
  <2> QED BY <1>8, <2>2, <2>3, <2>4, <2>5 DEF GiveUp
<1> QED BY <1>3, <1>4, <1>5, <1>6, <1>7, <1>8 DEF Step

\* where h may go from this state
MayGo(h, p) ==
    /\ pc[h] = "put" => p = "done"
    /\ pc[h] # "done"
    /\ p = "admitted" => VerifyAdmit(h) \/ RedeemNonce(h)
    /\ p = "gated" => RedeemGate(h) /\ Redeemable(snap[h])

LEMMA GotoStep ==
    ASSUME FlowType, NEW h \in Handlers, Step(h)
    PROVE  pc' = pc \/ \E p : Goto(h, p) /\ MayGo(h, p)
<1> DEFINE Goes == pc' = pc \/ \E p : Goto(h, p) /\ MayGo(h, p)
<1>1. ASSUME NEW a, Finish(h, a), pc[h] # "done" PROVE Goes
  BY <1>1 DEF Finish, MayGo
<1>2. ASSUME NEW a, Reply(h, a), pc[h] # "done" PROVE Goes
  BY <1>1, <1>2 DEF Reply
<1>3. ASSUME NEW c, Put(h, c), pc[h] \notin {"put", "done"} PROVE Goes
  BY <1>3 DEF Put, MayGo
<1>4. CASE Load(h)
  BY <1>1, <1>4 DEF Load, MayGo
<1>5. CASE VerifyAdmit(h) \/ RedeemNonce(h)
  <2>1. ASSUME NEW tag, ConsumeNonce(h, tag), pc[h] \in {"loaded", "gated"} PROVE Goes
    BY <1>2, <1>5, <2>1 DEF ConsumeNonce, MayGo
  <2> QED BY <1>2, <1>5, <2>1 DEF VerifyAdmit, RedeemNonce
<1>6. CASE VerifyDecide(h) \/ RedeemBill(h) \/ SimulateDecide(h)
  BY <1>2, <1>3, <1>6
     DEF VerifyDecide, RedeemBill, SimulateDecide, consume_credits, StoreVerdict,
         AcceptProof, fail_challenge_and_persist
<1>7. CASE RedeemGate(h)
  BY <1>2, <1>7 DEF RedeemGate, MayGo
<1>8. CASE create_challenge(h)
  BY <1>3, <1>8 DEF create_challenge
<1>9. CASE poll_challenge(h)
  BY <1>1, <1>9 DEF poll_challenge
<1>10. CASE Receive(h) \/ Timeout(h)
  <2>1. pc[h] = "put"
    BY <1>10 DEF Receive, Timeout
  <2>2. Receive(h) => GiveUp(h) \/ Finish(h, Answered(h)) \/ pc' = pc
    BY DEF Receive
  <2>3. Timeout(h) => GiveUp(h) \/ pc' = pc
    BY DEF Timeout
  <2> QED BY <1>1, <1>10, <2>1, <2>2, <2>3 DEF GiveUp
<1> QED BY <1>4, <1>5, <1>6, <1>7, <1>8, <1>9, <1>10 DEF Step

LEMMA WriteInvStep ==
    ASSUME WriteInv, NEW h \in Handlers, Step(h)
    PROVE  WrittenOnce' /\ AnsweredAsWritten'
<1>1. FlowType /\ WrittenOnce /\ AnsweredAsWritten
  BY DEF WriteInv
<1>2. h \in Verifiers \cup Redeemers /\ pc[h] = "admitted" =>
         answer[h] \notin {"ok", "rejected"}
  BY <1>1, Kinds DEF WrittenOnce, AnsweredAsWritten
<1>3. \A g \in Handlers : g # h => out'[g] = out[g] /\ pc'[g] = pc[g] /\ answer'[g] = answer[g]
  BY <1>1, WriteStep, AnswerStep, GotoStep
     DEF Put, Finish, Goto, FlowType, OutType, PcType, AnswerType
<1>4. out'[h] # NoRecord => pc'[h] \in {"put", "done"}
  <2>1. CASE out' = out
    BY <1>1, <2>1, GotoStep DEF WrittenOnce, Goto, FlowType, PcType, MayGo
  <2>2. ASSUME NEW c, Put(h, c) PROVE pc'[h] = "put"
    BY <1>1, <2>2 DEF Put, Goto, FlowType, PcType
  <2> QED BY <1>1, <2>1, <2>2, WriteStep
<1>5. h \in Verifiers \cup Redeemers /\ answer'[h] \in {"ok", "rejected"} =>
         out'[h] # NoRecord /\ (answer'[h] = "rejected" <=> out'[h].state = "Failed")
  <2> SUFFICES ASSUME h \in Verifiers \cup Redeemers, answer'[h] \in {"ok", "rejected"}
               PROVE  out'[h] # NoRecord /\ (answer'[h] = "rejected" <=> out'[h].state = "Failed")
    OBVIOUS
  <2>0. h \notin Pollers \cup Simulators \cup {Creator}
    BY HandlerAssumption
  <2>1. ASSUME NEW c, Put(h, c), MayWrite(h, c) PROVE FALSE
    <3>1. answer' = answer
      BY <2>1 DEF Put
    <3>2. pc[h] = "admitted"
      BY <2>0, <2>1 DEF MayWrite
    <3> QED BY <1>2, <3>1, <3>2
  <2>2. out' = out
    BY <1>1, <2>1, WriteStep
  <2>3. CASE answer' = answer
    BY <1>1, <2>2, <2>3 DEF AnsweredAsWritten
  <2>4. ASSUME NEW a, Finish(h, a), MayAnswer(h, a)
        PROVE  out'[h] # NoRecord /\ (answer'[h] = "rejected" <=> out'[h].state = "Failed")
    <3>1. answer'[h] = a
      BY <1>1, <2>4 DEF Finish, FlowType, AnswerType
    <3>2. pc[h] = "put" /\ (a = "rejected" <=> out[h].state = "Failed")
      BY <2>0, <2>4, <3>1 DEF MayAnswer
    <3> QED BY <1>1, <2>2, <3>1, <3>2 DEF FlowType, PutHasRecord
  <2> QED BY <1>1, <2>3, <2>4, AnswerStep
<1>6. WrittenOnce'
  BY <1>1, <1>3, <1>4 DEF WrittenOnce
<1>7. AnsweredAsWritten'
  BY <1>1, <1>3, <1>5, Kinds DEF AnsweredAsWritten
<1> QED BY <1>6, <1>7

LEMMA WriteInvNext == WriteInv /\ [Next]_vars => WriteInv'
<1> SUFFICES ASSUME WriteInv, [Next]_vars PROVE WriteInv'
  OBVIOUS
<1>1. FlowType'
  BY FlowTypeNext DEF WriteInv
<1>2. CASE UNCHANGED <<pc, out, answer>>
  BY <1>1, <1>2 DEF WriteInv, WrittenOnce, AnsweredAsWritten
<1>3. UNCHANGED <<pc, out, answer>> \/ \E h \in Handlers : Step(h)
  BY DEF Next, Deliver, Environment, vars, sendVars
<1> QED BY <1>1, <1>2, <1>3, WriteInvStep DEF WriteInv

-----------------------------------------------------------------------------
(* One verdict.  The handler whose nonce was fresh is the only one of its  *)
(* kind that ever gets past it.                                            *)

Past(h) == pc[h] = "admitted" \/ out[h] # NoRecord

\* tag belongs to one handler of S
Exclusive(S, tag) ==
    /\ \A h \in S : Past(h) => tag \in nonces
    /\ \A g, h \in S : Past(g) /\ Past(h) => g = h

NonceInv ==
    /\ WriteInv
    /\ Exclusive(Verifiers, "verify")
    /\ Exclusive(Redeemers, "redeem")

(* Only a handler that consumes its nonce while it is fresh gets past it.  *)
LEMMA ConsumeStep ==
    ASSUME FlowType, NEW h \in Handlers, NEW tag \in {"verify", "redeem"},
           ConsumeNonce(h, tag)
    PROVE  /\ nonces \subseteq nonces'
           /\ \A g \in Handlers : Past(g)' => Past(g) \/ g = h
           /\ Past(h)' => Past(h) \/ (tag \notin nonces /\ tag \in nonces')
<1>1. PICK result \in check_and_set(tag) :
         /\ nonces' = result[2]
         /\ \/ result[1] = "fresh" /\ Goto(h, "admitted") /\ out' = out
            \/ \E a \in {"replay", "error"} : Reply(h, a)
  BY DEF ConsumeNonce, sendVars
<1>2. nonces \subseteq nonces'
  <2>1. nonces' = nonces \/ nonces' = nonces \cup {tag}
    BY <1>1, NonceResult
  <2> QED BY <2>1
<1>3. CASE result[1] = "fresh" /\ Goto(h, "admitted") /\ out' = out
  <2>1. tag \notin nonces /\ tag \in nonces'
    BY <1>1, <1>3, NonceResult
  <2> QED BY <1>2, <1>3, <2>1 DEF Past, Goto, FlowType, PcType
<1>4. CASE \E a \in {"replay", "error"} : Reply(h, a)
  BY <1>2, <1>4 DEF Reply, Finish, Goto, sendVars, Past, FlowType, PcType
<1> QED BY <1>1, <1>3, <1>4

LEMMA NonceInvStep ==
    ASSUME NonceInv, NEW h \in Handlers, Step(h)
    PROVE  Exclusive(Verifiers, "verify")' /\ Exclusive(Redeemers, "redeem")'
<1>1. FlowType
  BY DEF NonceInv, WriteInv
<1>2. CASE VerifyAdmit(h) /\ ConsumeNonce(h, "verify")
  <2>1. h \in Verifiers
    BY <1>2 DEF VerifyAdmit
  <2> QED BY <1>1, <1>2, <2>1, Kinds, ConsumeStep DEF NonceInv, Exclusive
<1>3. CASE RedeemNonce(h)
  <2>1. h \in Redeemers
    BY <1>3 DEF RedeemNonce
  <2> QED BY <1>1, <1>3, <2>1, Kinds, ConsumeStep DEF RedeemNonce, NonceInv, Exclusive
<1>4. CASE ~RedeemNonce(h) /\ ~(VerifyAdmit(h) /\ ConsumeNonce(h, "verify"))
  <2>1. nonces' = nonces
    BY <1>4
       DEF Step, create_challenge, Load, VerifyAdmit, VerifyDecide, RedeemGate, RedeemBill,
           SimulateDecide, poll_challenge, Receive, Timeout
  <2>2. ~ \E p : Goto(h, p) /\ MayGo(h, p) /\ p = "admitted"
    <3>1. VerifyAdmit(h) => \A p : Goto(h, p) => p # "admitted"
      BY <1>1, <1>4 DEF VerifyAdmit, Reply, Finish, Goto, FlowType, PcType
    <3> QED BY <1>4, <3>1 DEF MayGo
  <2>3. \A g \in Handlers : pc'[g] = "admitted" => pc[g] = "admitted"
    BY <1>1, <2>2, GotoStep DEF Goto, FlowType, PcType
  <2>4. \A g \in Verifiers \cup Redeemers :
           out'[g] # NoRecord => out[g] # NoRecord \/ pc[g] = "admitted"
    BY <1>1, WriteStep, Kinds DEF Put, MayWrite, FlowType, OutType
  <2>5. \A g \in Verifiers \cup Redeemers : Past(g)' => Past(g)
    BY <2>3, <2>4, Kinds DEF Past
  <2> QED BY <2>1, <2>5 DEF NonceInv, Exclusive
<1> QED BY <1>2, <1>3, <1>4

LEMMA NonceInvNext == NonceInv /\ [Next]_vars => NonceInv'
<1> SUFFICES ASSUME NonceInv, [Next]_vars PROVE NonceInv'
  OBVIOUS
<1>1. WriteInv'
  BY WriteInvNext DEF NonceInv
<1>2. CASE UNCHANGED <<pc, out, nonces>>
  BY <1>1, <1>2 DEF NonceInv, Exclusive, Past
<1>3. UNCHANGED <<pc, out, nonces>> \/ \E h \in Handlers : Step(h)
  BY DEF Next, Deliver, Environment, vars, sendVars
<1> QED BY <1>1, <1>2, <1>3, NonceInvStep DEF NonceInv

LEMMA NonceInvInit == Init => NonceInv
BY FlowTypeInit, Kinds
   DEF Init, NonceInv, WriteInv, WrittenOnce, AnsweredAsWritten, Exclusive, Past

LEMMA NonceInvariant == Spec => []NonceInv
<1> QED BY NonceInvInit, NonceInvNext, PTL DEF Spec

(* However many redemptions run at once, and whatever fails or is          *)
(* delivered late, at most one is answered 200.                            *)
THEOREM AtMostOneVerdict == Spec => []OneVerdict
<1>1. NonceInv => OneVerdict
  BY DEF NonceInv, WriteInv, AnsweredAsWritten, Exclusive, Past, OneVerdict, Told
<1> QED BY <1>1, NonceInvariant, PTL

-----------------------------------------------------------------------------
(* No free verdict.  While the metering flag can be read, a redemption of  *)
(* a metered origin has been charged when it starts to write its verdict.  *)
MeteringReads == "metering" \notin Outages

BillInv ==
    /\ FlowType
    /\ \A r \in Redeemers : metered /\ (pc[r] = "put" \/ answer[r] = "ok") => charged

(* A deduction is never taken back, and the origin's flag does not change. *)
LEMMA ChargeStays ==
    ASSUME FlowType, [Next]_vars
    PROVE  metered' = metered /\ (charged => charged')
<1> DEFINE Stays == metered' = metered /\ (charged => charged')
<1>1. UNCHANGED billVars => Stays
  BY DEF billVars
<1>2. ASSUME NEW h \in Handlers, Step(h) PROVE Stays
  <2>1. RedeemBill(h) => Stays
    <3>1. consume_credits(h) => (charged => charged')
      BY Zenon DEF consume_credits
    <3>2. RedeemBill(h) => metered' = metered
      BY DEF RedeemBill
    <3>3. RedeemBill(h) => consume_credits(h) \/ charged' = charged
      BY DEF RedeemBill
    <3> QED BY <3>1, <3>2, <3>3
  <2>2. BillAfterVerdict(h) => Stays
    BY DEF BillAfterVerdict
  <2>3. Receive(h) \/ Timeout(h) => Stays
    BY <1>1, <2>2 DEF Receive, Timeout, GiveUp
  <2> QED BY <1>1, <1>2, <2>1, <2>3
          DEF Step, create_challenge, Load, VerifyAdmit, VerifyDecide, RedeemGate,
              RedeemNonce, SimulateDecide, poll_challenge
<1> QED BY <1>1, <1>2 DEF Next, Deliver, Environment, vars

(* Only RedeemBill starts the write of a redemption, and it charges.       *)
LEMMA ChargedBeforeWrite ==
    ASSUME MeteringReads, FlowType, NEW r \in Redeemers, RedeemBill(r), metered,
           pc'[r] = "put"
    PROVE  charged'
<1>1. MeteringRead = {"metered"}
  BY DEF MeteringRead, MeteringReads
<1>2. consume_credits(r)
  BY <1>1 DEF RedeemBill
<1>3. ASSUME NEW a, Reply(r, a) PROVE FALSE
  BY <1>3 DEF Reply, Finish, Goto, FlowType, PcType, Handlers
<1> QED BY <1>2, <1>3 DEF consume_credits

LEMMA WriteStarts ==
    ASSUME FlowType, NEW r \in Redeemers, NEW h \in Handlers, Step(h)
    PROVE  \/ h = r /\ RedeemBill(r)
           \/ (pc'[r] = "put" \/ answer'[r] = "ok") => (pc[r] = "put" \/ answer[r] = "ok")
<1>0. r \in Handlers
  BY DEF Handlers
<1>1. CASE h # r
  <2>1. \A p : Goto(h, p) => pc'[r] = pc[r]
    BY <1>0, <1>1 DEF Goto, FlowType, PcType
  <2>2. \A a : Finish(h, a) => pc'[r] = pc[r] /\ answer'[r] = answer[r]
    BY <1>0, <1>1 DEF Finish, Goto, FlowType, PcType, AnswerType
  <2>3. (pc'[r] = pc[r] /\ answer'[r] = answer[r])
    BY <1>0, <1>1, <2>1, <2>2
       DEF Step, create_challenge, Load, VerifyAdmit, VerifyDecide, RedeemGate, RedeemNonce,
           RedeemBill, consume_credits, SimulateDecide, poll_challenge, Receive, Timeout,
           GiveUp, ConsumeNonce, Reply, Put, StoreVerdict, AcceptProof,
           fail_challenge_and_persist
  <2> QED BY <2>3
<1>2. CASE h = r
  <2>1. \A p : Goto(r, p) /\ p # "put" => pc'[r] # "put"
    BY <1>0 DEF Goto, FlowType, PcType
  <2>2. \A a : Finish(r, a) /\ a # "ok" => pc'[r] # "put" /\ answer'[r] # "ok"
    BY <1>0 DEF Finish, Goto, FlowType, PcType, AnswerType
  <2>3. Load(r) \/ RedeemGate(r) \/ RedeemNonce(r) \/ RedeemBill(r) \/ Receive(r) \/ Timeout(r)
    BY <1>2, Kinds, HandlerAssumption
       DEF Step, create_challenge, VerifyAdmit, VerifyDecide, SimulateDecide, poll_challenge
  <2>4. CASE Load(r)
    BY <1>2, <2>1, <2>2, <2>4 DEF Load
  <2>5. CASE RedeemGate(r)
    BY <1>2, <2>1, <2>2, <2>5 DEF RedeemGate, Reply
  <2>6. CASE RedeemNonce(r)
    BY <1>2, <2>1, <2>2, <2>6 DEF RedeemNonce, ConsumeNonce, Reply
  <2>7. CASE Receive(r) \/ Timeout(r)
    BY <2>7 DEF Receive, Timeout
  <2> QED BY <1>2, <2>3, <2>4, <2>5, <2>6, <2>7
<1> QED BY <1>1, <1>2

LEMMA BillInvNext ==
    ASSUME MeteringReads, BillInv, [Next]_vars
    PROVE  BillInv'
<1>1. FlowType' /\ metered' = metered /\ (charged => charged')
  BY FlowTypeNext, ChargeStays DEF BillInv
<1>2. ASSUME NEW r \in Redeemers, metered', pc'[r] = "put" \/ answer'[r] = "ok"
      PROVE  charged'
  <2>1. CASE UNCHANGED <<pc, answer>>
    BY <1>1, <1>2, <2>1 DEF BillInv
  <2>2. ASSUME NEW h \in Handlers, Step(h)
        PROVE  charged'
    <3>1. CASE h = r /\ RedeemBill(r)
      <4>1. pc[r] = "admitted" /\ r \in Handlers
        BY <3>1 DEF RedeemBill, Handlers
      <4>2. CASE pc'[r] = "put"
        BY <1>1, <1>2, <3>1, <4>2, ChargedBeforeWrite DEF BillInv
      <4>3. CASE answer'[r] = "ok" /\ pc'[r] # "put"
        <5>1. \A c : ~Put(r, c)
          BY <4>1, <4>3 DEF Put, Goto, BillInv, FlowType, PcType
        <5>2. \A a : Reply(r, a) => a = "ok"
          BY <4>1, <4>3 DEF Reply, Finish, BillInv, FlowType, AnswerType
        <5> QED BY <3>1, <5>1, <5>2 DEF RedeemBill, consume_credits, StoreVerdict
      <4> QED BY <1>2, <4>2, <4>3
    <3>2. CASE (pc[r] = "put" \/ answer[r] = "ok")
      BY <1>1, <1>2, <3>2 DEF BillInv
    <3> QED BY <1>2, <2>2, <3>1, <3>2, WriteStarts DEF BillInv
  <2> QED BY <2>1, <2>2 DEF Next, Deliver, Environment, vars
<1> QED BY <1>1, <1>2 DEF BillInv

(* While the metering flag can be read, no metered origin is given a       *)
(* verdict without a deduction, whatever the credit service does.          *)
THEOREM NoFreeVerdict ==
    ASSUME MeteringReads
    PROVE  Spec => []VerdictIsBilled
<1>1. Init => BillInv
  BY FlowTypeInit DEF Init, BillInv, Handlers
<1>2. BillInv => VerdictIsBilled
  BY DEF BillInv, VerdictIsBilled, Told
<1> QED BY <1>1, <1>2, BillInvNext, PTL DEF Spec

-----------------------------------------------------------------------------
(* No verdict without a proof.  Wherever a record claims a proof, in the   *)
(* object, in a sleeping write or in a handler, some handler accepted one. *)

Claims(c) == c.state \in {"ProofOkWaitingForRedeem", "Verified"}

\* every record of the system
InPlay ==
    DO!Records \cup ({snap[h] : h \in Handlers} \ {NoRecord})
               \cup ({out[h] : h \in Handlers} \ {NoRecord})

Accepted == Accepting(Verifiers \cup Simulators) # {}

GatePassed ==
    \A r \in Redeemers : pc[r] \in {"gated", "admitted"} => Redeemable(snap[r])

RedeemersWrite == \A r \in Redeemers : out[r] # NoRecord => out[r].state = "Verified"

ProofInv ==
    /\ NonceInv
    /\ \A c \in InPlay : Claims(c) => Accepted
    /\ GatePassed
    /\ RedeemersWrite

LEMMA ProofInvStrong == ProofInv => VerdictIsProved
<1> SUFFICES ASSUME ProofInv, NEW r \in Redeemers, answer[r] = "ok"
             PROVE  /\ Accepted
                    /\ Told(Verifiers, "rejected") # {} => Accepting(Simulators) # {}
  BY DEF VerdictIsProved, Told, Accepted
<1>1. NonceInv /\ AnsweredAsWritten /\ r \in Handlers
  BY Kinds DEF ProofInv, NonceInv, WriteInv
<1>2. out[r] \in InPlay /\ Claims(out[r])
  BY <1>1 DEF AnsweredAsWritten, ProofInv, RedeemersWrite, InPlay, Claims
<1>3. Accepted
  BY <1>2 DEF ProofInv
<1>4. ASSUME NEW v \in Verifiers, answer[v] = "rejected" PROVE Accepting(Verifiers) = {}
  <2>1. out[v] # NoRecord /\ out[v].state = "Failed"
    BY <1>1, <1>4 DEF AnsweredAsWritten
  <2>2. \A w \in Verifiers : out[w] # NoRecord => w = v
    BY <1>1, <2>1 DEF NonceInv, Exclusive, Past
  <2> QED BY <2>1, <2>2 DEF Accepting
<1> QED BY <1>3, <1>4 DEF Accepted, Accepting, Told

(* A handler's write is the only one that is not a copy: an accepted proof *)
(* by a verifier or a simulator, or a verdict that rests on a claim.       *)
LEMMA AcceptedStays ==
    ASSUME ProofInv, NEW h \in Handlers, Step(h)
    PROVE  /\ Accepted => Accepted'
           /\ \A g \in Handlers : out'[g] # NoRecord /\ Claims(out'[g]) => Accepted'
           /\ RedeemersWrite'
<1>1. FlowType /\ WrittenOnce /\ GatePassed /\ RedeemersWrite
      /\ \A c \in InPlay : Claims(c) => Accepted
  BY DEF ProofInv, NonceInv, WriteInv
<1>2. CASE out' = out
  BY <1>1, <1>2 DEF Accepted, Accepting, InPlay, RedeemersWrite
<1>3. ASSUME NEW c, Put(h, c), MayWrite(h, c)
      PROVE  /\ Accepted => Accepted'
             /\ \A g \in Handlers : out'[g] # NoRecord /\ Claims(out'[g]) => Accepted'
             /\ RedeemersWrite'
  <2>1. out[h] = NoRecord
    BY <1>1, <1>3 DEF WrittenOnce, MayWrite
  <2>2. out'[h] = c /\ \A g \in Handlers : g # h => out'[g] = out[g]
    BY <1>1, <1>3 DEF Put, FlowType, OutType
  <2>3. Accepted => Accepted'
    BY <2>1, <2>2 DEF Accepted, Accepting, Handlers
  <2>4. c # NoRecord /\ Claims(c) => Accepted'
    <3>1. CASE h \in Verifiers \cup Simulators /\ c.state = "ProofOkWaitingForRedeem"
      BY <2>2, <3>1 DEF Accepted, Accepting
    <3>2. CASE h \in Redeemers /\ pc[h] = "admitted"
      <4>1. snap[h] \in InPlay /\ Claims(snap[h])
        BY <1>1, <3>2 DEF GatePassed, Redeemable, InPlay, Claims, FlowType, SnapRead
      <4> QED BY <1>1, <2>3, <4>1
    <3>3. CASE c.state \in {"Pending", "Failed", "Expired"}
      BY <3>3 DEF Claims
    <3> QED BY <1>3, <3>1, <3>2, <3>3 DEF MayWrite
  <2>5. \A g \in Handlers : out'[g] # NoRecord /\ Claims(out'[g]) => Accepted'
    BY <1>1, <2>2, <2>3, <2>4 DEF InPlay
  <2>6. RedeemersWrite'
    BY <1>1, <1>3, <2>2, Kinds, HandlerAssumption DEF RedeemersWrite, MayWrite
  <2> QED BY <2>3, <2>5, <2>6
<1> QED BY <1>1, <1>2, <1>3, WriteStep

(* A record read into a handler is one the object holds.                   *)
LEMMA ReadStep ==
    ASSUME FlowType, NEW h \in Handlers, Step(h)
    PROVE  /\ DO!Records' \subseteq DO!Records
           /\ \A g \in Handlers :
                 \/ snap'[g] = snap[g]
                 \/ g = h /\ pc'[h] = "loaded" /\ snap'[g] \in DO!Records \cup {NoRecord}
<1>1. <<h, "get", 1>> \in Attempt
  BY SendAssumption DEF Attempt
<1>2. ASSUME UNCHANGED doVars PROVE DO!Records' \subseteq DO!Records
  BY <1>2 DEF doVars, DO!Records, DO!Ongoing
<1>3. CASE Load(h) \/ poll_challenge(h)
  <2>1. DO!Records' \subseteq DO!Records
    BY <1>1, <1>2, <1>3, ObjectGet DEF Load, poll_challenge, FlowType
  <2>2. UNCHANGED snap \/ (snap' = [snap EXCEPT ![h] = rec] /\ Goto(h, "loaded"))
    BY <1>3 DEF Load, poll_challenge
  <2> QED BY <2>1, <2>2 DEF Goto, FlowType, SnapType, PcType, DO!Records
<1>4. CASE ~(Load(h) \/ poll_challenge(h))
  <2>1. \A a : Reply(h, a) => UNCHANGED doVars /\ snap' = snap
    BY DEF Reply
  <2>2. \A c : Put(h, c) => UNCHANGED doVars /\ snap' = snap
    BY DEF Put
  <2>3. create_challenge(h) \/ VerifyDecide(h) \/ SimulateDecide(h) => UNCHANGED doVars /\ snap' = snap
    BY <2>1, <2>2
       DEF create_challenge, VerifyDecide, SimulateDecide, AcceptProof,
           fail_challenge_and_persist
  <2>4. \A tag : ConsumeNonce(h, tag) => UNCHANGED doVars /\ snap' = snap
    BY <2>1 DEF ConsumeNonce
  <2>5. VerifyAdmit(h) \/ RedeemGate(h) \/ RedeemNonce(h) => UNCHANGED doVars /\ snap' = snap
    BY <2>1, <2>4 DEF VerifyAdmit, RedeemGate, RedeemNonce
  <2>6. RedeemBill(h) => UNCHANGED doVars /\ snap' = snap
    BY <2>1, <2>2 DEF RedeemBill, consume_credits, StoreVerdict
  <2>7. Receive(h) \/ Timeout(h) => UNCHANGED doVars /\ snap' = snap
    BY DEF Receive, Timeout
  <2> QED BY <1>2, <1>4, <2>3, <2>5, <2>6, <2>7 DEF Step
<1> QED BY <1>3, <1>4

LEMMA GatePassedStep ==
    ASSUME FlowType, GatePassed, NEW h \in Handlers, Step(h)
    PROVE  GatePassed'
<1>1. \A r \in Redeemers : r \in Handlers
  BY Kinds
<1>2. \A p : Goto(h, p) => pc'[h] = p /\ \A g \in Handlers : g # h => pc'[g] = pc[g]
  BY DEF Goto, FlowType, PcType
<1>3. ASSUME NEW r \in Redeemers, pc'[r] \in {"gated", "admitted"}
      PROVE  Redeemable(snap[r])
  <2>1. CASE pc'[r] = pc[r]
    BY <1>3, <2>1 DEF GatePassed
  <2>2. CASE pc'[r] # pc[r]
    <3>1. r = h /\ MayGo(h, pc'[h])
      BY <1>1, <1>2, <2>2, GotoStep
    <3>2. VerifyAdmit(h) => h \in Verifiers
      BY DEF VerifyAdmit
    <3>3. RedeemNonce(h) => pc[h] = "gated"
      BY DEF RedeemNonce
    <3> QED BY <1>3, <3>1, <3>2, <3>3, Kinds DEF MayGo, GatePassed
  <2> QED BY <2>1, <2>2
<1>4. \A r \in Redeemers : pc'[r] \in {"gated", "admitted"} => snap'[r] = snap[r]
  BY <1>1, ReadStep
<1> QED BY <1>3, <1>4 DEF GatePassed, Redeemable

LEMMA ProofInvStep ==
    ASSUME ProofInv, NEW h \in Handlers, Step(h)
    PROVE  (\A c \in InPlay : Claims(c) => Accepted)' /\ GatePassed' /\ RedeemersWrite'
<1>1. FlowType /\ GatePassed /\ \A c \in InPlay : Claims(c) => Accepted
  BY DEF ProofInv, NonceInv, WriteInv
<1>2. (\A c \in InPlay : Claims(c) => Accepted)'
  <2> SUFFICES ASSUME NEW c \in InPlay', Claims(c) PROVE Accepted'
    BY DEF Claims
  <2>1. CASE c \in DO!Records' \/ \E g \in Handlers : c = snap'[g] /\ c # NoRecord
    <3>1. c \in InPlay
      BY <1>1, <2>1, ReadStep DEF InPlay
    <3> QED BY <1>1, <3>1, AcceptedStays
  <2>2. CASE \E g \in Handlers : c = out'[g] /\ c # NoRecord
    BY <2>2, AcceptedStays
  <2> QED BY <2>1, <2>2 DEF InPlay
<1>3. GatePassed'
  BY <1>1, GatePassedStep
<1> QED BY <1>2, <1>3, AcceptedStays

LEMMA ProofInvDeliver ==
    ASSUME ProofInv, NEW r \in sent, Deliver(r)
    PROVE  \A c \in DO!Records' : Claims(c) => Accepted
<1>1. FlowType /\ \A c \in InPlay : Claims(c) => Accepted
  BY DEF ProofInv, NonceInv, WriteInv
<1>2. r \in Attempt /\ out[r[1]] \in DO!CachedChallenge /\ out[r[1]] \in InPlay
  BY <1>1 DEF FlowType, PutHasRecord, OutType, Attempt, InPlay
<1>3. DO!Records \subseteq InPlay
  BY DEF InPlay
<1>4. CASE DO!create_challenge(r, out[r[1]])
  BY <1>1, <1>2, <1>3, <1>4, ObjectCreate DEF FlowType
<1>5. CASE DO!update_challenge(r, out[r[1]])
  <2>1. CASE DO!Records' \subseteq DO!Records
    BY <1>1, <1>3, <2>1
  <2>2. ASSUME NEW s \in DO!Records,
               DO!Records' \subseteq DO!Records \cup {DO!Merge(s, out[r[1]])}
        PROVE  \A c \in DO!Records' : Claims(c) => Accepted
    <3>1. DO!Merge(s, out[r[1]]).state = out[r[1]].state
      BY DEF DO!Merge
    <3>2. Claims(DO!Merge(s, out[r[1]])) => Accepted
      BY <1>1, <1>2, <3>1 DEF Claims
    <3> QED BY <1>1, <1>3, <2>2, <3>2
  <2> QED BY <1>1, <1>2, <1>5, <2>1, <2>2, ObjectUpdate DEF FlowType
<1> QED BY <1>4, <1>5 DEF Deliver

LEMMA ProofInvNext == ProofInv /\ [Next]_vars => ProofInv'
<1> SUFFICES ASSUME ProofInv, [Next]_vars PROVE ProofInv'
  OBVIOUS
<1>1. NonceInv'
  BY NonceInvNext DEF ProofInv
<1>2. CASE \E h \in Handlers : Step(h)
  BY <1>1, <1>2, ProofInvStep DEF ProofInv
<1>3. ASSUME UNCHANGED <<pc, snap, out>>, \A c \in DO!Records' : Claims(c) => Accepted
      PROVE  ProofInv'
  <2>1. GatePassed' /\ RedeemersWrite'
    BY <1>3 DEF ProofInv, GatePassed, Redeemable, RedeemersWrite
  <2>2. Accepted' = Accepted /\ \A c : Claims(c)' = Claims(c)
    BY <1>3 DEF Accepted, Accepting, Claims
  <2>3. InPlay' \subseteq InPlay \cup DO!Records'
    BY <1>3 DEF InPlay
  <2>4. (\A c \in InPlay : Claims(c) => Accepted)'
    BY <1>3, <2>2, <2>3 DEF ProofInv, Claims
  <2> QED BY <1>1, <2>1, <2>4 DEF ProofInv
<1>4. CASE \E r \in sent : Deliver(r)
  BY <1>3, <1>4, ProofInvDeliver DEF Deliver
<1>5. CASE Environment
  <2>1. DO!Records' \subseteq DO!Records
    BY <1>5, ObjectEnvironment DEF Environment, ProofInv, NonceInv, WriteInv, FlowType
  <2> QED BY <1>3, <1>5, <2>1 DEF Environment, sendVars, ProofInv, InPlay
<1>6. CASE UNCHANGED vars
  <2>1. DO!Records' = DO!Records
    BY <1>6 DEF vars, doVars, DO!Records, DO!Ongoing
  <2> QED BY <1>3, <1>6, <2>1 DEF vars, sendVars, ProofInv, InPlay
<1> QED BY <1>2, <1>4, <1>5, <1>6 DEF Next

LEMMA ProofInvInit == Init => ProofInv
<1> SUFFICES ASSUME Init PROVE ProofInv
  OBVIOUS
<1>1. InPlay = {}
  BY DEF Init, InPlay, DO!Init, DO!Records, DO!Ongoing, DO!Idle, DO!Sleeping
<1> QED BY <1>1, NonceInvInit, Kinds DEF Init, ProofInv, GatePassed, RedeemersWrite

(* A verdict rests on an accepted proof, and outside the sandbox on a      *)
(* challenge no proof was rejected for, whatever is delivered late.        *)
THEOREM VerdictRestsOnProof == Spec => []VerdictIsProved
<1> QED BY ProofInvInit, ProofInvNext, ProofInvStrong, PTL DEF Spec

-----------------------------------------------------------------------------
(* The handlers keep the object's contract.  The nonce of verify lets one  *)
(* verifier write, and until then every record is the one the creator      *)
(* sent; so that verifier starts from the fresh challenge, and a redeemer  *)
(* from the one accepted proof.                                            *)
NoSandbox == Simulators = {}

Clean(c) ==
    /\ c.state = "Pending" => c = DO!FreshChallenge
    /\ c.state = "ProofOkWaitingForRedeem" => c = DO!ProofOkChallenge

UseInv ==
    /\ NonceInv
    /\ GatePassed
    /\ \A c \in InPlay : Clean(c)
    /\ "verify" \notin nonces => InPlay \subseteq {DO!FreshChallenge}
    /\ \A v \in Verifiers : pc[v] = "admitted" => snap[v] = DO!FreshChallenge
    /\ \A h \in Handlers : out[h] # NoRecord => out[h] \in DO!CallerRecords

LEMMA CallerRecordsClean == \A c \in DO!CallerRecords : Clean(c)
BY DEF DO!CallerRecords, DO!FreshChallenge, DO!ExpiredChallenge, DO!FailedChallenge,
       DO!ProofOkChallenge, DO!VerifiedChallenge, DO!Challenge, Clean

LEMMA MergeClean ==
    ASSUME NEW s \in DO!CachedChallenge, NEW u \in DO!CachedChallenge, Clean(s), Clean(u),
           DO!is_valid_transition(s.state, u.state)
    PROVE  /\ Clean(DO!Merge(s, u))
           /\ s = DO!FreshChallenge /\ u = DO!FreshChallenge
                 => DO!Merge(s, u) = DO!FreshChallenge
BY DEF DO!Merge, DO!CachedChallenge, DO!ChallengeState, DO!is_valid_transition, Clean,
       DO!FreshChallenge, DO!ProofOkChallenge, DO!Challenge

LEMMA WriteBackRecords ==
    ASSUME NEW s \in DO!CachedChallenge
    PROVE  /\ s = DO!FreshChallenge =>
                 /\ [s EXCEPT !.state = "Failed", !.proof_submitted = "Yes",
                              !.submit_secret = "Wiped"] = DO!FailedChallenge
                 /\ [s EXCEPT !.state = "ProofOkWaitingForRedeem", !.proof_submitted = "Yes",
                              !.proof_verified_at = "Some", !.submit_secret = "Wiped"]
                       = DO!ProofOkChallenge
                 /\ [s EXCEPT !.state = "Expired", !.submit_secret = "Wiped"]
                       = DO!ExpiredChallenge
           /\ s = DO!ProofOkChallenge =>
                 [s EXCEPT !.state = "Verified", !.verified_at = "Some",
                           !.submit_secret = "Wiped"] = DO!VerifiedChallenge
<1> DEFINE failed == [s EXCEPT !.state = "Failed", !.proof_submitted = "Yes",
                               !.submit_secret = "Wiped"]
           proved == [s EXCEPT !.state = "ProofOkWaitingForRedeem", !.proof_submitted = "Yes",
                               !.proof_verified_at = "Some", !.submit_secret = "Wiped"]
           expired == [s EXCEPT !.state = "Expired", !.submit_secret = "Wiped"]
           verified == [s EXCEPT !.state = "Verified", !.verified_at = "Some",
                                 !.submit_secret = "Wiped"]
           Fields(t, state, secret, submitted, pv, v) ==
              /\ t \in DO!CachedChallenge
              /\ t.state = state /\ t.submit_secret = secret
              /\ t.proof_submitted = submitted /\ t.proof_verified_at = pv
              /\ t.verified_at = v
<1>1. Fields(failed, "Failed", "Wiped", "Yes", s.proof_verified_at, s.verified_at)
  BY DEF DO!CachedChallenge, DO!ChallengeState
<1>2. Fields(proved, "ProofOkWaitingForRedeem", "Wiped", "Yes", "Some", s.verified_at)
  BY DEF DO!CachedChallenge, DO!ChallengeState
<1>3. Fields(expired, "Expired", "Wiped", s.proof_submitted, s.proof_verified_at, s.verified_at)
  BY DEF DO!CachedChallenge, DO!ChallengeState
<1>4. Fields(verified, "Verified", "Wiped", s.proof_submitted, s.proof_verified_at, "Some")
  BY DEF DO!CachedChallenge, DO!ChallengeState
<1> HIDE DEF failed, proved, expired, verified
<1>5. ASSUME NEW t, NEW a, NEW b, NEW c, NEW d, NEW e, Fields(t, a, b, c, d, e)
      PROVE  t = DO!Challenge(a, b, c, d, e)
  BY <1>5 DEF DO!Challenge, DO!CachedChallenge
<1>6. s = DO!FreshChallenge =>
         s.proof_submitted = "No" /\ s.proof_verified_at = "None" /\ s.verified_at = "None"
  BY DEF DO!FreshChallenge, DO!Challenge
<1>7. s = DO!ProofOkChallenge => s.proof_submitted = "Yes" /\ s.proof_verified_at = "Some"
  BY DEF DO!ProofOkChallenge, DO!Challenge
<1>8. s = DO!FreshChallenge => failed = DO!FailedChallenge
  BY <1>1, <1>5, <1>6 DEF DO!FailedChallenge
<1>9. s = DO!FreshChallenge => proved = DO!ProofOkChallenge
  BY <1>2, <1>5, <1>6 DEF DO!ProofOkChallenge
<1>10. s = DO!FreshChallenge => expired = DO!ExpiredChallenge
  BY <1>3, <1>5, <1>6 DEF DO!ExpiredChallenge
<1>11. s = DO!ProofOkChallenge => verified = DO!VerifiedChallenge
  BY <1>4, <1>5, <1>7 DEF DO!VerifiedChallenge
<1> QED BY <1>8, <1>9, <1>10, <1>11 DEF failed, proved, expired, verified

(* What a handler starts to write is one of the object's caller records.   *)
LEMMA CallerWrite ==
    ASSUME NoSandbox, UseInv, NEW h \in Handlers, Step(h)
    PROVE  \/ out' = out
           \/ \E c \in DO!CallerRecords :
                 Put(h, c) /\ ("verify" \notin nonces => c = DO!FreshChallenge)
<1>1. FlowType /\ GatePassed
  BY DEF UseInv, NonceInv, WriteInv
<1>2. CASE create_challenge(h)
  BY <1>2 DEF create_challenge, DO!CallerRecords
<1>3. CASE VerifyDecide(h)
  <2>1. snap[h] = DO!FreshChallenge /\ "verify" \in nonces
    BY <1>3 DEF VerifyDecide, UseInv, NonceInv, Exclusive, Past
  <2>2. /\ [snap[h] EXCEPT !.state = "Failed", !.proof_submitted = "Yes",
                           !.submit_secret = "Wiped"] = DO!FailedChallenge
        /\ [snap[h] EXCEPT !.state = "ProofOkWaitingForRedeem", !.proof_submitted = "Yes",
                           !.proof_verified_at = "Some", !.submit_secret = "Wiped"]
              = DO!ProofOkChallenge
        /\ [snap[h] EXCEPT !.state = "Expired", !.submit_secret = "Wiped"]
              = DO!ExpiredChallenge
    BY <1>1, <1>3, <2>1, WriteBackRecords, WriteBackTyped DEF VerifyDecide
  <2>3. \/ Put(h, DO!FailedChallenge) \/ Put(h, DO!ProofOkChallenge)
        \/ Put(h, DO!ExpiredChallenge) \/ \E a : Reply(h, a)
    <3>1. fail_challenge_and_persist(h) => Put(h, DO!FailedChallenge)
      BY ONLY <2>2 DEF fail_challenge_and_persist
    <3>2. AcceptProof(h) => Put(h, DO!ProofOkChallenge)
      BY ONLY <2>2 DEF AcceptProof
    <3>3. \/ fail_challenge_and_persist(h) \/ AcceptProof(h)
          \/ Put(h, [snap[h] EXCEPT !.state = "Expired", !.submit_secret = "Wiped"])
          \/ \E a : Reply(h, a)
      BY <1>3 DEF VerifyDecide
    <3> QED BY <2>2, <3>1, <3>2, <3>3
  <2> QED BY <2>1, <2>3 DEF DO!CallerRecords, Reply, sendVars
<1>4. CASE RedeemBill(h)
  <2>1. h \in Redeemers /\ pc[h] = "admitted" /\ snap[h] \in InPlay
    BY <1>1, <1>4 DEF RedeemBill, FlowType, SnapRead, InPlay
  <2>2. snap[h] = DO!ProofOkChallenge
    BY <1>1, <2>1 DEF GatePassed, Redeemable, UseInv, Clean
  <2>3. snap[h] # DO!FreshChallenge
    BY <2>2 DEF DO!ProofOkChallenge, DO!FreshChallenge, DO!Challenge
  <2>4. "verify" \in nonces
    BY <2>1, <2>3 DEF UseInv
  <2>5. [snap[h] EXCEPT !.state = "Verified", !.verified_at = "Some",
                        !.submit_secret = "Wiped"] = DO!VerifiedChallenge
    BY <1>1, <2>1, <2>2, WriteBackRecords, WriteBackTyped
  <2>6. Put(h, DO!VerifiedChallenge) \/ \E a : Reply(h, a)
    <3>1. StoreVerdict(h) => Put(h, DO!VerifiedChallenge)
      BY ONLY <2>5 DEF StoreVerdict
    <3> QED BY <1>4, <3>1 DEF RedeemBill, consume_credits
  <2> QED BY <2>4, <2>6 DEF DO!CallerRecords, Reply, sendVars
<1>5. CASE ~(create_challenge(h) \/ VerifyDecide(h) \/ RedeemBill(h))
  <2>1. \A a : Reply(h, a) => out' = out
    BY DEF Reply, sendVars
  <2>2. ~SimulateDecide(h)
    BY DEF SimulateDecide, NoSandbox
  <2> QED BY <1>5, <2>1, <2>2
          DEF Step, Load, VerifyAdmit, RedeemGate, RedeemNonce, ConsumeNonce,
              poll_challenge, Receive, Timeout, sendVars
<1> QED BY <1>2, <1>3, <1>4, <1>5

(* The records a handler's step brings into play.                          *)
LEMMA UseInvRecords ==
    ASSUME NoSandbox, UseInv, NEW h \in Handlers, Step(h)
    PROVE  /\ \A c \in InPlay' : c \in InPlay \/ (c \in DO!CallerRecords
                                   /\ ("verify" \notin nonces => c = DO!FreshChallenge))
           /\ \A g \in Handlers : out'[g] # NoRecord => out'[g] \in DO!CallerRecords
<1>1. FlowType
  BY DEF UseInv, NonceInv, WriteInv
<1>2. \A g \in Handlers : out'[g] # NoRecord =>
         (out'[g] = out[g]) \/ (out'[g] \in DO!CallerRecords
                                /\ ("verify" \notin nonces => out'[g] = DO!FreshChallenge))
  BY <1>1, CallerWrite DEF Put, FlowType, OutType
<1>3. \A c : c \in DO!Records' => c \in InPlay
  BY <1>1, ReadStep DEF InPlay
<1>4. \A g \in Handlers : snap'[g] # NoRecord => snap'[g] \in InPlay
  BY <1>1, ReadStep DEF InPlay
<1>5. \A g \in Handlers : out'[g] # NoRecord => out'[g] \in DO!CallerRecords
  BY <1>2 DEF UseInv
<1>6. ASSUME NEW c \in InPlay'
      PROVE  c \in InPlay \/ (c \in DO!CallerRecords
                /\ ("verify" \notin nonces => c = DO!FreshChallenge))
  BY <1>2, <1>3, <1>4 DEF InPlay
<1> QED BY <1>5, <1>6

LEMMA UseInvStep ==
    ASSUME NoSandbox, UseInv, NEW h \in Handlers, Step(h)
    PROVE  UseInv'
<1>1. FlowType /\ NonceInv /\ GatePassed
  BY DEF UseInv, NonceInv, WriteInv
<1>2. NonceInv' /\ GatePassed'
  BY <1>1, NonceInvNext, GatePassedStep DEF Next
<1>3. (\A c \in InPlay : Clean(c))'
  <2>1. \A c \in InPlay' : Clean(c)
    BY UseInvRecords, CallerRecordsClean DEF UseInv
  <2> QED BY <2>1 DEF Clean
<1>4. nonces \subseteq nonces'
  <2>1. ASSUME NEW tag \in {"verify", "redeem"}, ConsumeNonce(h, tag)
        PROVE  nonces \subseteq nonces'
    BY <1>1, <2>1, ConsumeStep
  <2> QED BY <2>1
          DEF Step, create_challenge, Load, VerifyAdmit, VerifyDecide, RedeemGate,
              RedeemNonce, RedeemBill, SimulateDecide, poll_challenge, Receive, Timeout
<1>5. ("verify" \notin nonces => InPlay \subseteq {DO!FreshChallenge})'
  <2>1. "verify" \notin nonces' => InPlay' \subseteq {DO!FreshChallenge}
    BY <1>4, UseInvRecords DEF UseInv
  <2> QED BY <2>1 DEF DO!FreshChallenge, DO!Challenge
<1>6. ASSUME NEW v \in Verifiers, pc'[v] = "admitted"
      PROVE  snap'[v] = DO!FreshChallenge
  <2>0. v \in Handlers
    BY Kinds
  <2>1. snap'[v] = snap[v]
    BY <1>1, <1>6, <2>0, ReadStep
  <2>2. CASE pc[v] = "admitted"
    BY <2>1, <2>2 DEF UseInv
  <2>3. CASE pc[v] # "admitted"
    <3>1. v = h /\ VerifyAdmit(h)
      BY <1>1, <1>6, <2>0, <2>3, GotoStep, Kinds
         DEF Goto, MayGo, FlowType, PcType, RedeemNonce
    <3>2. ConsumeNonce(h, "verify") /\ pc[h] = "loaded"
      BY <1>1, <1>6, <2>0, <3>1 DEF VerifyAdmit, Reply, Finish, Goto, FlowType, PcType
    <3>3. "verify" \notin nonces
      <4>1. ~Past(h)
        BY <1>1, <2>3, <3>1, <3>2 DEF Past, NonceInv, WriteInv, WrittenOnce
      <4>2. Past(h)'
        BY <1>6, <3>1 DEF Past
      <4> QED BY <1>1, <3>2, <4>1, <4>2, ConsumeStep
    <3>4. snap[v] \in InPlay
      BY <1>1, <2>0, <3>1, <3>2 DEF FlowType, SnapRead, InPlay
    <3> QED BY <2>1, <3>3, <3>4 DEF UseInv
  <2> QED BY <2>2, <2>3
<1>7. (\A v \in Verifiers : pc[v] = "admitted" => snap[v] = DO!FreshChallenge)'
  BY <1>6 DEF DO!FreshChallenge, DO!Challenge
<1>8. (\A g \in Handlers : out[g] # NoRecord => out[g] \in DO!CallerRecords)'
  BY UseInvRecords
     DEF DO!CallerRecords, DO!FreshChallenge, DO!ExpiredChallenge, DO!FailedChallenge,
         DO!ProofOkChallenge, DO!VerifiedChallenge, DO!Challenge
<1> QED BY <1>2, <1>3, <1>5, <1>7, <1>8 DEF UseInv

LEMMA UseInvDeliver ==
    ASSUME UseInv, NEW r \in sent, Deliver(r)
    PROVE  \A c \in DO!Records' :
              Clean(c) /\ ("verify" \notin nonces => c = DO!FreshChallenge)
<1> DEFINE Ok(c) == Clean(c) /\ ("verify" \notin nonces => c = DO!FreshChallenge)
           u == out[r[1]]
<1>1. FlowType /\ \A c \in InPlay : Ok(c)
  BY DEF UseInv, NonceInv, WriteInv
<1>2. r \in Attempt /\ u \in DO!CachedChallenge /\ u \in InPlay
  BY <1>1 DEF FlowType, PutHasRecord, OutType, Attempt, InPlay
<1>3. DO!Records \subseteq InPlay /\ DO!Records \subseteq DO!CachedChallenge
  BY <1>1
     DEF InPlay, FlowType, DO!TypeOK, DO!Records, DO!OpStates, DO!Ongoing, DO!Sleeping,
         DO!Idle, DO!Done
<1>4. CASE DO!create_challenge(r, u)
  BY <1>1, <1>2, <1>3, <1>4, ObjectCreate DEF FlowType
<1>5. CASE DO!update_challenge(r, u)
  <2>1. CASE DO!Records' \subseteq DO!Records
    BY <1>1, <1>3, <2>1
  <2>2. ASSUME NEW s \in DO!Records, DO!is_valid_transition(s.state, u.state),
               DO!Records' \subseteq DO!Records \cup {DO!Merge(s, u)}
        PROVE  \A c \in DO!Records' : Ok(c)
    <3>1. Ok(s) /\ Ok(u)
      BY <1>1, <1>2, <1>3
    <3>2. Ok(DO!Merge(s, u))
      BY <1>2, <1>3, <2>2, <3>1, MergeClean
    <3> QED BY <1>1, <1>3, <2>2, <3>2
  <2> QED BY <1>1, <1>2, <1>5, <2>1, <2>2, ObjectUpdate DEF FlowType
<1> QED BY <1>4, <1>5 DEF Deliver

LEMMA UseInvNext == NoSandbox /\ UseInv /\ [Next]_vars => UseInv'
<1> SUFFICES ASSUME NoSandbox, UseInv, [Next]_vars PROVE UseInv'
  OBVIOUS
<1>1. CASE \E h \in Handlers : Step(h)
  BY <1>1, UseInvStep
<1>2. ASSUME UNCHANGED <<pc, snap, out, nonces>>,
             \A c \in DO!Records' :
                Clean(c) /\ ("verify" \notin nonces => c = DO!FreshChallenge)
      PROVE  UseInv'
  <2>1. NonceInv'
    BY NonceInvNext DEF UseInv
  <2>2. GatePassed'
    BY <1>2 DEF UseInv, GatePassed, Redeemable
  <2>3. InPlay' \subseteq InPlay \cup DO!Records'
    BY <1>2 DEF InPlay
  <2>4. (\A c \in InPlay : Clean(c))'
    <3>1. \A c \in InPlay' : Clean(c)
      BY <1>2, <2>3 DEF UseInv
    <3> QED BY <3>1 DEF Clean
  <2>5. ("verify" \notin nonces => InPlay \subseteq {DO!FreshChallenge})'
    <3>1. "verify" \notin nonces' => InPlay' \subseteq {DO!FreshChallenge}
      BY <1>2, <2>3 DEF UseInv
    <3> QED BY <3>1 DEF DO!FreshChallenge, DO!Challenge
  <2>6. (\A v \in Verifiers : pc[v] = "admitted" => snap[v] = DO!FreshChallenge)'
    BY <1>2 DEF UseInv
  <2>7. (\A h \in Handlers : out[h] # NoRecord => out[h] \in DO!CallerRecords)'
    BY <1>2
       DEF UseInv, DO!CallerRecords, DO!FreshChallenge, DO!ExpiredChallenge,
           DO!FailedChallenge, DO!ProofOkChallenge, DO!VerifiedChallenge, DO!Challenge
  <2> QED BY <2>1, <2>2, <2>4, <2>5, <2>6, <2>7 DEF UseInv
<1>3. CASE \E r \in sent : Deliver(r)
  BY <1>2, <1>3, UseInvDeliver DEF Deliver
<1>4. CASE Environment
  <2>1. DO!Records' \subseteq DO!Records
    BY <1>4, ObjectEnvironment DEF Environment, UseInv, NonceInv, WriteInv, FlowType
  <2> QED BY <1>2, <1>4, <2>1 DEF Environment, sendVars, UseInv, InPlay
<1>5. CASE UNCHANGED vars
  <2>1. DO!Records' = DO!Records
    BY <1>5 DEF vars, doVars, DO!Records, DO!Ongoing
  <2> QED BY <1>2, <1>5, <2>1 DEF vars, sendVars, UseInv, InPlay
<1> QED BY <1>1, <1>3, <1>4, <1>5 DEF Next

(* A handler's step touches the object only by a read.                     *)
LEMMA HandlerReads ==
    ASSUME NEW h \in Handlers, Step(h)
    PROVE  DO!get_challenge(<<h, "get", 1>>) \/ UNCHANGED doVars
<1>1. \A a : Reply(h, a) => UNCHANGED doVars
  BY DEF Reply
<1>2. \A c : Put(h, c) => UNCHANGED doVars
  BY DEF Put
<1>3. \A tag : ConsumeNonce(h, tag) => UNCHANGED doVars
  BY <1>1 DEF ConsumeNonce
<1>4. create_challenge(h) \/ VerifyDecide(h) \/ SimulateDecide(h) => UNCHANGED doVars
  BY <1>1, <1>2
     DEF create_challenge, VerifyDecide, SimulateDecide, AcceptProof,
         fail_challenge_and_persist
<1>5. VerifyAdmit(h) \/ RedeemGate(h) \/ RedeemNonce(h) => UNCHANGED doVars
  BY <1>1, <1>3 DEF VerifyAdmit, RedeemGate, RedeemNonce
<1>6. RedeemBill(h) => UNCHANGED doVars
  BY <1>1, <1>2 DEF RedeemBill, consume_credits, StoreVerdict
<1>7. Receive(h) \/ Timeout(h) => UNCHANGED doVars
  BY DEF Receive, Timeout
<1>8. Load(h) \/ poll_challenge(h) =>
         DO!get_challenge(<<h, "get", 1>>) \/ UNCHANGED doVars
  BY DEF Load, poll_challenge
<1> QED BY <1>4, <1>5, <1>6, <1>7, <1>8 DEF Step

LEMMA ObjectStep ==
    ASSUME NoSandbox, UseInv, [Next]_vars
    PROVE  [DO!Next]_(DO!doVars)
<1>1. FlowType
  BY DEF UseInv, NonceInv, WriteInv
<1>2. ASSUME NEW h \in Handlers, Step(h) PROVE [DO!Next]_(DO!doVars)
  <2>1. <<h, "get", 1>> \in Attempt
    BY SendAssumption DEF Attempt
  <2> QED BY <1>2, <2>1, HandlerReads DEF DO!Next, DO!Handle, DO!doVars, doVars
<1>3. ASSUME NEW r \in sent, Deliver(r) PROVE DO!Next
  <2>1. r \in Attempt /\ out[r[1]] \in DO!CallerRecords
    BY <1>1 DEF FlowType, PutHasRecord, Attempt, UseInv
  <2> QED BY <1>3, <2>1 DEF Deliver, DO!Next, DO!Handle
<1>4. CASE Environment
  BY <1>4 DEF Environment, DO!Next
<1>5. CASE UNCHANGED vars
  BY <1>5 DEF vars, doVars, DO!doVars
<1> QED BY <1>2, <1>3, <1>4, <1>5 DEF Next

LEMMA UseInvariant == ASSUME NoSandbox PROVE Spec => []UseInv
<1>1. Init => UseInv
  <2> SUFFICES ASSUME Init PROVE UseInv
    OBVIOUS
  <2>1. InPlay = {}
    BY DEF Init, InPlay, DO!Init, DO!Records, DO!Ongoing, DO!Idle, DO!Sleeping
  <2> QED BY <2>1, NonceInvInit, Kinds DEF Init, UseInv, GatePassed
<1> QED BY <1>1, UseInvNext, PTL DEF Spec

(* Outside the sandbox the flow drives the object only in the ways         *)
(* ChallengeDO allows, so every theorem about ChallengeDO holds of the     *)
(* object within the flow, with any number of handlers and late sends.     *)
THEOREM ObjectUsedAsSpecified ==
    ASSUME NoSandbox
    PROVE  Spec => DO!Spec /\ UsesObjectAsSpecified
<1>1. Init => DO!Init
  BY DEF Init
<1>2. [DO!Next]_(DO!doVars) => [doVars' # doVars => DO!Next]_doVars
  BY DEF DO!doVars, doVars
<1> QED BY <1>1, <1>2, UseInvariant, ObjectStep, PTL
        DEF Spec, UsesObjectAsSpecified, DO!Spec

(* So the object's promises about its records hold in the flow.  A merge   *)
(* of two sound records is sound where the transition is valid.            *)
Sound(c) ==
    /\ c.submit_secret = "Held" => c.state = "Pending"
    /\ DO!EvidenceBearing(c) => c.proof_submitted = "Yes" /\ c.proof_verified_at = "Some"
    /\ (c.verified_at = "Some") <=> (c.state = "Verified")

LEMMA CallerRecordsSound == \A c \in DO!CallerRecords : Sound(c)
BY DEF DO!CallerRecords, DO!FreshChallenge, DO!ExpiredChallenge, DO!FailedChallenge,
       DO!ProofOkChallenge, DO!VerifiedChallenge, DO!Challenge, DO!EvidenceBearing, Sound

LEMMA MergeSound ==
    ASSUME NEW s \in DO!CachedChallenge, NEW u \in DO!CachedChallenge, Sound(s), Sound(u),
           DO!is_valid_transition(s.state, u.state)
    PROVE  Sound(DO!Merge(s, u))
BY DEF DO!Merge, DO!CachedChallenge, DO!ChallengeState, DO!is_valid_transition,
       DO!EvidenceBearing, Sound

LEMMA RecordsSoundDeliver ==
    ASSUME UseInv, \A c \in DO!Records : Sound(c), NEW r \in sent, Deliver(r)
    PROVE  \A c \in DO!Records' : Sound(c)
<1>1. FlowType
  BY DEF UseInv, NonceInv, WriteInv
<1>2. r \in Attempt /\ out[r[1]] \in DO!CachedChallenge /\ out[r[1]] \in DO!CallerRecords
  BY <1>1 DEF FlowType, PutHasRecord, OutType, Attempt, UseInv
<1>3. Sound(out[r[1]])
  BY <1>2, CallerRecordsSound
<1>4. CASE DO!create_challenge(r, out[r[1]])
  BY <1>1, <1>2, <1>3, <1>4, ObjectCreate DEF FlowType
<1>5. CASE DO!update_challenge(r, out[r[1]])
  <2>1. DO!Records \subseteq DO!CachedChallenge
    BY <1>1 DEF FlowType, DO!TypeOK, DO!Records, DO!OpStates, DO!Ongoing, DO!Idle, DO!Done,
                DO!Sleeping
  <2> QED BY <1>1, <1>2, <1>3, <1>5, <2>1, ObjectUpdate, MergeSound DEF FlowType
<1> QED BY <1>4, <1>5 DEF Deliver

(* Outside the sandbox no record, stored or in a sleeping write, keeps its *)
(* secret past Pending or claims what its timestamps do not bear out, with *)
(* the stale copies the handlers really write back and any failure.        *)
THEOREM FlowRecordsSound ==
    ASSUME NoSandbox
    PROVE  Spec => [](DO!SecretOnlyWhilePending /\ DO!EvidenceMatchesState)
<1> DEFINE AllSound == \A c \in DO!Records : Sound(c)
<1>1. Init => AllSound
  BY DEF Init, DO!Init, DO!Records, DO!Ongoing, DO!Idle, DO!Sleeping
<1>2. UseInv /\ AllSound /\ [Next]_vars => AllSound'
  <2> SUFFICES ASSUME UseInv, AllSound, [Next]_vars PROVE \A c \in DO!Records' : Sound(c)
    BY DEF Sound, DO!EvidenceBearing
  <2>1. FlowType
    BY DEF UseInv, NonceInv, WriteInv
  <2>2. (\E h \in Handlers : Step(h)) \/ Environment => DO!Records' \subseteq DO!Records
    BY <2>1, ReadStep, ObjectEnvironment DEF Environment, FlowType
  <2>3. UNCHANGED vars => DO!Records' = DO!Records
    BY DEF vars, doVars, DO!Records, DO!Ongoing
  <2> QED BY <2>2, <2>3, RecordsSoundDeliver DEF Next
<1>3. AllSound => DO!SecretOnlyWhilePending /\ DO!EvidenceMatchesState
  BY DEF DO!SecretOnlyWhilePending, DO!EvidenceMatchesState, Sound
<1> QED BY <1>1, <1>2, <1>3, UseInvariant, PTL DEF Spec

-----------------------------------------------------------------------------
(* What clients were told stands.  Until the challenge expires no record   *)
(* is deleted, and while reads and writes of the object's storage succeed  *)
(* it never takes a stored record for a missing one and no request sleeps; *)
(* so a late request finds the state its transition is checked against.    *)
SteadyStorage == Faults \cap {"read", "put"} = {}

Awake == \A q \in Attempt : ~DO!Ongoing(q)

WritesByKind ==
    \A h \in Handlers : out[h] # NoRecord =>
       \/ h = Creator /\ out[h].state = "Pending"
       \/ h \in Verifiers
             /\ out[h].state \in {"Failed", "Expired", "ProofOkWaitingForRedeem"}
       \/ h \in Redeemers /\ out[h].state = "Verified"
       \/ h \in Simulators

DoneWhenAnswered == \A h \in Handlers : answer[h] # "none" => pc[h] = "done"

\* everyone else starts from a challenge whose creation was answered
CreatedFirst ==
    \A h \in Handlers \ {Creator} : pc[h] # "idle" => answer[Creator] = "ok"

\* what h wrote is stored, or what a later handler made of it
Stands(h) ==
    /\ out[h] # NoRecord
    /\ rec # NoRecord
    /\ h \in Redeemers => rec.state = "Verified"
    /\ /\ h \in Verifiers
       /\ out[h].state = "ProofOkWaitingForRedeem"
       /\ \A s \in Simulators : out[s] = NoRecord
       => rec.state \in {"ProofOkWaitingForRedeem", "Verified"}

\* only the creator finds no record to update, and creates one
OnlyUpdates ==
    \A h \in Handlers \ {Creator} :
       /\ out[h] # NoRecord => call[h][2] = "update"
       /\ \A r \in sent : r[1] = h => r[2] = "update"

NeverMissing ==
    \A q \in Attempt : q[1] # Creator /\ q[2] = "update" => op[q] # DO!Done("not_found")

Stored == {DO!Done("created"), DO!Done("updated")}

RepliesStand == \A q \in Attempt : op[q] \in Stored => Stands(q[1])

OkStands ==
    \A h \in {Creator} \cup Verifiers \cup Redeemers :
       answer[h] = "ok" => Answered(h) = "ok" /\ Stands(h)

StandInv ==
    /\ NonceInv /\ Awake /\ WritesByKind /\ DoneWhenAnswered /\ CreatedFirst
    /\ now < ExpiresAt => OnlyUpdates /\ NeverMissing /\ RepliesStand /\ OkStands

LEMMA StandInvStrong == StandInv => AnswersStand
<1> SUFFICES ASSUME StandInv, now < ExpiresAt
             PROVE  /\ Told(Redeemers, "ok") # {} => rec # NoRecord /\ rec.state = "Verified"
                    /\ (Told(Verifiers, "ok") # {} /\ \A h \in Simulators : out[h] = NoRecord) =>
                          rec # NoRecord /\ rec.state \in {"ProofOkWaitingForRedeem", "Verified"}
  BY DEF AnswersStand
<1>1. OkStands /\ WritesByKind
  BY DEF StandInv
<1>2. ASSUME NEW r \in Redeemers, answer[r] = "ok" PROVE rec # NoRecord /\ rec.state = "Verified"
  BY <1>1, <1>2 DEF OkStands, Stands
<1>3. ASSUME NEW v \in Verifiers, answer[v] = "ok", \A h \in Simulators : out[h] = NoRecord
      PROVE  rec # NoRecord /\ rec.state \in {"ProofOkWaitingForRedeem", "Verified"}
  <2>1. Answered(v) = "ok" /\ Stands(v)
    BY <1>1, <1>3 DEF OkStands
  <2>2. out[v].state \notin {"Failed", "Expired"}
    BY <2>1 DEF Answered
  <2>3. out[v].state = "ProofOkWaitingForRedeem"
    BY <1>1, <2>1, <2>2, Kinds, HandlerAssumption DEF WritesByKind, Stands
  <2> QED BY <1>3, <2>1, <2>3 DEF Stands
<1> QED BY <1>2, <1>3 DEF Told

(* The object's steps before expiry, while its storage is steady.          *)
LEMMA SteadyGet ==
    ASSUME SteadyStorage, DO!TypeOK, NEW r \in Attempt, DO!get_challenge(r)
    PROVE  /\ now < ExpiresAt => rec' = rec
           /\ now' = now
           /\ \E a \in DO!Replies \ {"created", "updated"} : DO!Answer(r, a)
BY DEF SteadyStorage, DO!get_challenge, DO!ReadOrExpire, DO!DeleteKeys, DO!Seen, DO!Replies,
       DO!TypeOK

LEMMA SteadyCreate ==
    ASSUME SteadyStorage, DO!TypeOK, NEW r \in Attempt, NEW c \in DO!CachedChallenge,
           DO!create_challenge(r, c)
    PROVE  /\ rec' = (IF rec = NoRecord THEN c ELSE rec)
           /\ now' = now
           /\ DO!Answer(r, "created")
BY DEF SteadyStorage, DO!create_challenge, DO!PutNewRecord, DO!PutMapping, DO!PutFails, DO!Seen

LEMMA SteadyUpdate ==
    ASSUME SteadyStorage, DO!TypeOK, NEW r \in Attempt, NEW u \in DO!CachedChallenge,
           DO!update_challenge(r, u)
    PROVE  /\ now' = now
           /\ \/ rec = NoRecord /\ rec' = rec /\ DO!Answer(r, "not_found")
              \/ \E a \in {"gone", "conflict"} : rec' = rec /\ DO!Answer(r, a)
              \/ /\ rec # NoRecord /\ rec' # NoRecord
                 /\ now >= ExpiresAt => DO!is_terminal_state(u.state)
                 /\ DO!is_valid_transition(rec.state, u.state)
                 /\ rec'.state = u.state
                 /\ DO!Answer(r, "updated")
<1>1. now' = now
  BY DEF DO!update_challenge
<1>2. \A s \in DO!CachedChallenge : DO!Merge(s, u) # NoRecord /\ DO!Merge(s, u).state = u.state
  BY MergeTyped, ObjectAssumption
<1>3. \/ rec = NoRecord /\ rec' = rec /\ DO!Answer(r, "not_found")
      \/ \E a \in {"gone", "conflict"} : rec' = rec /\ DO!Answer(r, a)
      \/ /\ rec # NoRecord
         /\ now >= ExpiresAt => DO!is_terminal_state(u.state)
         /\ DO!is_valid_transition(rec.state, u.state)
         /\ DO!PutUpdate(r, DO!Merge(rec, u), 1)
  BY DEF SteadyStorage, DO!update_challenge, DO!Seen
<1>4. ASSUME rec # NoRecord, DO!PutUpdate(r, DO!Merge(rec, u), 1)
      PROVE  rec' # NoRecord /\ rec'.state = u.state /\ DO!Answer(r, "updated")
  BY <1>2, <1>4 DEF SteadyStorage, DO!PutUpdate, DO!PutFails, DO!TypeOK
<1> QED BY <1>1, <1>3, <1>4

(* An answer wakes no request.                                             *)
LEMMA AnswerAwake ==
    ASSUME DO!TypeOK, Awake, NEW r \in Attempt, NEW a \in DO!Replies, DO!Answer(r, a)
    PROVE  /\ Awake'
           /\ op'[r] = DO!Done(a)
           /\ \A q \in Attempt : q # r => op'[q] = op[q]
BY DEF DO!TypeOK, Awake, DO!Answer, DO!Ongoing, DO!Sleeping, DO!Done

LEMMA HandlerObject ==
    ASSUME SteadyStorage, FlowType, Awake, NEW h \in Handlers, Step(h)
    PROVE  /\ Awake'
           /\ now' = now
           /\ now < ExpiresAt => rec' = rec
           /\ \A q \in Attempt :
                 op'[q] = op[q] \/ (q[2] = "get" /\ op'[q] \notin Stored)
<1>1. <<h, "get", 1>> \in Attempt
  BY SendAssumption DEF Attempt
<1>2. CASE DO!get_challenge(<<h, "get", 1>>)
  <2>1. PICK a \in DO!Replies \ {"created", "updated"} : DO!Answer(<<h, "get", 1>>, a)
    BY <1>1, <1>2, SteadyGet DEF FlowType
  <2>2. DO!Done(a) \notin Stored
    BY <2>1 DEF Stored, DO!Done
  <2> QED BY <1>1, <1>2, <2>1, <2>2, SteadyGet, AnswerAwake DEF FlowType
<1>3. CASE UNCHANGED doVars
  BY <1>3 DEF doVars, Awake, DO!Ongoing
<1> QED BY <1>2, <1>3, HandlerReads

(* A handler that is done takes no step, and what it wrote is final.       *)
LEMMA NotDone == ASSUME NEW h \in Handlers, Step(h) PROVE pc[h] # "done"
BY DEF Step, create_challenge, Load, VerifyAdmit, VerifyDecide, RedeemGate, RedeemNonce,
       RedeemBill, SimulateDecide, poll_challenge, Receive, Timeout

LEMMA OutFinal ==
    ASSUME NonceInv, NEW h \in Handlers, Step(h)
    PROVE  \A g \in Handlers : out[g] # NoRecord => out'[g] = out[g]
<1>1. FlowType /\ WrittenOnce
  BY DEF NonceInv, WriteInv
<1>2. ASSUME NEW c, Put(h, c), MayWrite(h, c)
      PROVE  \A g \in Handlers : out[g] # NoRecord => out'[g] = out[g]
  <2>1. out[h] = NoRecord
    BY <1>1, <1>2 DEF WrittenOnce, MayWrite
  <2> QED BY <1>1, <1>2, <2>1 DEF Put, FlowType, OutType
<1> QED BY <1>1, <1>2, WriteStep

LEMMA WritesByKindStep ==
    ASSUME FlowType, WritesByKind, NEW h \in Handlers, Step(h)
    PROVE  WritesByKind'
<1>1. CASE out' = out
  BY <1>1 DEF WritesByKind
<1>2. ASSUME NEW c, Put(h, c), MayWrite(h, c)
      PROVE  WritesByKind'
  <2>1. out'[h] = c /\ \A g \in Handlers : g # h => out'[g] = out[g]
    BY <1>2 DEF Put, FlowType, OutType
  <2> QED BY <1>2, <2>1 DEF WritesByKind, MayWrite
<1> QED BY <1>1, <1>2, WriteStep

LEMMA DoneWhenAnsweredStep ==
    ASSUME FlowType, DoneWhenAnswered, NEW h \in Handlers, Step(h)
    PROVE  DoneWhenAnswered' /\ \A g \in Handlers : answer[g] # "none" => answer'[g] = answer[g]
<1>1. CASE answer' = answer
  BY <1>1, NotDone, GotoStep DEF DoneWhenAnswered, Goto, FlowType, PcType
<1>2. ASSUME NEW a, Finish(h, a)
      PROVE  DoneWhenAnswered' /\ \A g \in Handlers : answer[g] # "none" => answer'[g] = answer[g]
  BY <1>2, NotDone DEF DoneWhenAnswered, Finish, Goto, FlowType, PcType, AnswerType
<1> QED BY <1>1, <1>2, AnswerStep

LEMMA CreatedFirstStep ==
    ASSUME FlowType, DoneWhenAnswered, CreatedFirst, NEW h \in Handlers, Step(h)
    PROVE  CreatedFirst'
<1>1. Creator \in Handlers
  BY DEF Handlers
<1>2. answer[Creator] = "ok" => answer'[Creator] = "ok"
  BY <1>1, DoneWhenAnsweredStep
<1>3. h # Creator /\ pc[h] = "idle" => answer[Creator] = "ok"
  BY DEF Step, create_challenge, Load, VerifyAdmit, VerifyDecide, RedeemGate, RedeemNonce,
         RedeemBill, SimulateDecide, poll_challenge, Receive, Timeout
<1>4. \A g \in Handlers : g # h => pc'[g] = pc[g]
  BY GotoStep DEF Goto, FlowType, PcType
<1> QED BY <1>2, <1>3, <1>4 DEF CreatedFirst

(* What stands goes on standing.                                           *)
LEMMA StandsStep ==
    ASSUME SteadyStorage, NonceInv, Awake, now < ExpiresAt,
           NEW h \in Handlers, Step(h), NEW g \in Handlers, Stands(g)
    PROVE  Stands(g)'
<1>1. FlowType
  BY DEF NonceInv, WriteInv
<1>2. rec' = rec
  BY <1>1, HandlerObject
<1>3. out'[g] = out[g]
  BY OutFinal DEF Stands
<1>4. \A s \in Simulators : out'[s] = NoRecord => out[s] = NoRecord
  BY OutFinal DEF Handlers
<1> QED BY <1>2, <1>3, <1>4 DEF Stands

LEMMA StandsDeliver ==
    ASSUME SteadyStorage, NonceInv, WritesByKind,
           NEW r \in sent, Deliver(r), NEW g \in Handlers, Stands(g)
    PROVE  Stands(g)'
<1> DEFINE u == out[r[1]]
<1>1. FlowType /\ Exclusive(Verifiers, "verify")
  BY DEF NonceInv, WriteInv
<1>2. r \in Attempt /\ r[1] \in Handlers /\ u \in DO!CachedChallenge /\ u # NoRecord
  BY <1>1 DEF FlowType, PutHasRecord, OutType, Attempt
<1>3. UNCHANGED out
  BY DEF Deliver
<1>4. CASE rec' = rec
  BY <1>3, <1>4 DEF Stands
<1>5. CASE /\ rec # NoRecord /\ rec' # NoRecord
           /\ DO!is_valid_transition(rec.state, u.state)
           /\ rec'.state = u.state
  <2>1. g \in Redeemers => rec'.state = "Verified"
    BY <1>5 DEF Stands, DO!is_valid_transition
  <2>2. ASSUME g \in Verifiers, out[g].state = "ProofOkWaitingForRedeem",
               \A s \in Simulators : out[s] = NoRecord
        PROVE  rec'.state \in {"ProofOkWaitingForRedeem", "Verified"}
    <3>1. rec.state \in {"ProofOkWaitingForRedeem", "Verified"} /\ out[g] # NoRecord
      BY <2>2 DEF Stands
    <3>2. u.state # "Pending"
      BY <1>5, <3>1 DEF DO!is_valid_transition
    <3>3. r[1] \in Verifiers => r[1] = g
      BY <1>1, <1>2, <2>2, <3>1 DEF Exclusive, Past
    <3> QED BY <1>2, <1>5, <2>2, <3>2, <3>3 DEF WritesByKind
  <2> QED BY <1>3, <1>5, <2>1, <2>2 DEF Stands
<1>6. CASE DO!create_challenge(r, u)
  BY <1>1, <1>2, <1>4, <1>6, SteadyCreate DEF FlowType, Stands
<1>7. CASE DO!update_challenge(r, u)
  BY <1>1, <1>2, <1>4, <1>5, <1>7, SteadyUpdate DEF FlowType
<1> QED BY <1>6, <1>7 DEF Deliver

LEMMA DoneReply ==
    ASSUME NEW o \in DO!OpStates, o.phase = "done"
    PROVE  o = DO!Done(o.reply)
<1>1. o # DO!Idle
  BY DEF DO!Idle
<1>2. o \notin [phase : DO!Sleeping, val : DO!CachedChallenge, tries : 1..(PutMaxAttempts - 1)]
  BY DEF DO!Sleeping
<1>3. PICK a \in DO!Replies : o = DO!Done(a)
  BY <1>1, <1>2 DEF DO!OpStates
<1> QED BY <1>3 DEF DO!Done

(* A handler that sends a request other than its last one again creates    *)
(* because the record it was to update was missing.                        *)
LEMMA SendStep ==
    ASSUME FlowType, NEW h \in Handlers, Step(h)
    PROVE  \/ UNCHANGED <<call, sent>>
           \/ \E c : Put(h, c)
           \/ /\ pc[h] = "put"
              /\ \E r : /\ Send(r) /\ r[1] = h
                        /\ r[2] = call[h][2] \/ op[call[h]] = DO!Done("not_found")
<1>1. \A a : Reply(h, a) => UNCHANGED <<call, sent>>
  BY DEF Reply, sendVars
<1>2. \A tag : ConsumeNonce(h, tag) => UNCHANGED <<call, sent>>
  BY <1>1 DEF ConsumeNonce, sendVars
<1>3. Load(h) \/ poll_challenge(h) \/ VerifyAdmit(h) \/ RedeemGate(h) \/ RedeemNonce(h) =>
         UNCHANGED <<call, sent>>
  BY <1>1, <1>2 DEF Load, poll_challenge, VerifyAdmit, RedeemGate, RedeemNonce, sendVars
<1>4. create_challenge(h) \/ VerifyDecide(h) \/ SimulateDecide(h) \/ RedeemBill(h) =>
         UNCHANGED <<call, sent>> \/ \E c : Put(h, c)
  BY <1>1
     DEF create_challenge, VerifyDecide, SimulateDecide, RedeemBill, consume_credits,
         StoreVerdict, AcceptProof, fail_challenge_and_persist
<1>5. CASE Timeout(h)
  <2>1. pc[h] = "put"
    BY <1>5 DEF Timeout
  <2>2. PICK k \in {"get", "update", "create"}, n \in 1..MaxSends : call[h] = <<h, k, n>>
    BY DEF FlowType, CallType, Attempt
  <2>3. [call[h] EXCEPT ![3] = @ + 1] = <<h, k, n + 1>>
    BY <2>2, SendAssumption
  <2> QED BY <1>5, <2>1, <2>2, <2>3 DEF Timeout, GiveUp
<1>6. CASE Receive(h)
  <2>1. pc[h] = "put" /\ op[call[h]].phase = "done"
    BY <1>6 DEF Receive
  <2>2. \/ UNCHANGED <<call, sent>>
        \/ op[call[h]].reply = "not_found" /\ Send(<<h, "create", 1>>)
    BY <1>6 DEF Receive, GiveUp
  <2>3. op[call[h]] \in DO!OpStates
    BY DEF FlowType, DO!TypeOK, CallType
  <2>4. op[call[h]].reply = "not_found" => op[call[h]] = DO!Done("not_found")
    BY <2>1, <2>3, DoneReply
  <2> QED BY <2>1, <2>2, <2>4
<1> QED BY <1>3, <1>4, <1>5, <1>6 DEF Step

LEMMA OnlyUpdatesStep ==
    ASSUME FlowType, OnlyUpdates, NeverMissing, NEW h \in Handlers, Step(h)
    PROVE  OnlyUpdates'
<1> SUFFICES ASSUME NEW g \in Handlers \ {Creator}
             PROVE  /\ out'[g] # NoRecord => call'[g][2] = "update"
                    /\ \A r \in sent' : r[1] = g => r[2] = "update"
  BY DEF OnlyUpdates
<1>1. /\ out[g] # NoRecord => call[g][2] = "update"
      /\ \A r \in sent : r[1] = g => r[2] = "update"
  BY DEF OnlyUpdates
<1>2. ASSUME NEW c, Put(h, c)
      PROVE  /\ out'[g] # NoRecord => call'[g][2] = "update"
             /\ \A r \in sent' : r[1] = g => r[2] = "update"
  <2>1. call'[g] = IF g = h THEN <<h, "update", 1>> ELSE call[g]
    BY <1>2 DEF Put, FlowType, CallType
  <2>2. g # h => out'[g] = out[g]
    BY <1>2 DEF Put, FlowType, OutType
  <2>3. \A r \in sent' : r \in sent \/ r[2] = "update"
    BY <1>2 DEF Put
  <2> QED BY <1>1, <2>1, <2>2, <2>3
<1>3. ASSUME pc[h] = "put", NEW r, Send(r), r[1] = h,
             r[2] = call[h][2] \/ op[call[h]] = DO!Done("not_found")
      PROVE  /\ out'[g] # NoRecord => call'[g][2] = "update"
             /\ \A q \in sent' : q[1] = g => q[2] = "update"
  <2>1. out[h] # NoRecord
    BY <1>3 DEF FlowType, PutHasRecord
  <2>2. g = h => r[2] = "update"
    BY <1>1, <1>3, <2>1 DEF NeverMissing, FlowType, CallType
  <2>3. out' = out
    BY <1>3, WriteStep DEF MayWrite
  <2> QED BY <1>1, <1>3, <2>2, <2>3 DEF Send, FlowType, CallType
<1>4. CASE UNCHANGED <<call, sent>>
  <2>1. out'[g] = out[g] \/ \E c : Put(h, c)
    BY WriteStep
  <2> QED BY <1>1, <1>2, <1>4, <2>1
<1> QED BY <1>2, <1>3, <1>4, SendStep

(* A handler answers "ok" to what the object answered that it stored.      *)
LEMMA OkStep ==
    ASSUME FlowType, NEW h \in {Creator} \cup Verifiers \cup Redeemers, Step(h),
           answer[h] # "ok", answer'[h] = "ok"
    PROVE  op[call[h]] \in Stored /\ Answered(h) = "ok"
<1>1. h \in Handlers /\ h \notin Simulators \cup Pollers
  BY HandlerAssumption DEF Handlers
<1>2. \A a : Finish(h, a) => a = "ok"
  BY <1>1 DEF Finish, FlowType, AnswerType
<1>3. \A a : Reply(h, a) => a = "ok"
  BY <1>2 DEF Reply
<1>4. \A tag : ~ConsumeNonce(h, tag)
  BY <1>3 DEF ConsumeNonce
<1>5. \A c : ~Put(h, c)
  BY DEF Put
<1>6. CASE Load(h) \/ VerifyAdmit(h) \/ RedeemGate(h) \/ RedeemNonce(h)
  BY <1>2, <1>3, <1>4, <1>6 DEF Load, VerifyAdmit, RedeemGate, RedeemNonce
<1>7. CASE create_challenge(h) \/ VerifyDecide(h) \/ RedeemBill(h)
  BY <1>3, <1>5, <1>7
     DEF create_challenge, VerifyDecide, AcceptProof, fail_challenge_and_persist,
         RedeemBill, consume_credits, StoreVerdict
<1>8. ~SimulateDecide(h) /\ ~poll_challenge(h)
  BY <1>1 DEF SimulateDecide, poll_challenge
<1>9. ASSUME GiveUp(h) PROVE FALSE
  <2>1. "ok" \in AnsweredUnstored(h)
    BY <1>2, <1>9 DEF GiveUp
  <2> QED BY <2>1 DEF AnsweredUnstored, Answered
<1>10. CASE Receive(h)
  <2>1. /\ op[call[h]].phase = "done" /\ op[call[h]].reply \in {"updated", "created"}
        /\ Finish(h, Answered(h))
    BY <1>9, <1>10 DEF Receive
  <2>2. op[call[h]] \in DO!OpStates
    BY <1>1 DEF FlowType, DO!TypeOK, CallType
  <2> QED BY <1>2, <2>1, <2>2, DoneReply DEF Stored
<1>11. ~Timeout(h)
  BY <1>9 DEF Timeout
<1> QED BY <1>6, <1>7, <1>8, <1>10, <1>11 DEF Step

LEMMA OkStandsStep ==
    ASSUME SteadyStorage, NonceInv, Awake, now < ExpiresAt, RepliesStand, OkStands,
           NEW h \in Handlers, Step(h)
    PROVE  OkStands'
<1> SUFFICES ASSUME NEW g \in {Creator} \cup Verifiers \cup Redeemers, answer'[g] = "ok"
             PROVE  Answered(g)' = "ok" /\ Stands(g)'
  BY DEF OkStands
<1>1. FlowType /\ g \in Handlers
  BY DEF NonceInv, WriteInv, Handlers
<1>2. Answered(g) = "ok" /\ Stands(g)
  <2>1. CASE answer[g] = "ok"
    BY <2>1 DEF OkStands
  <2>2. CASE answer[g] # "ok"
    <3>1. g = h
      BY <1>1, <2>2, AnswerStep DEF Finish, FlowType, AnswerType
    <3>2. op[call[g]] \in Stored /\ Answered(g) = "ok"
      BY <1>1, <2>2, <3>1, OkStep
    <3> QED BY <1>1, <3>2 DEF RepliesStand, FlowType, CallType
  <2> QED BY <2>1, <2>2
<1>3. out'[g] = out[g]
  BY <1>1, <1>2, OutFinal DEF Stands
<1> QED BY <1>1, <1>2, <1>3, StandsStep DEF Answered

LEMMA StandInvStep ==
    ASSUME SteadyStorage, StandInv, NEW h \in Handlers, Step(h)
    PROVE  StandInv'
<1>1. FlowType /\ NonceInv /\ Awake /\ WritesByKind /\ DoneWhenAnswered /\ CreatedFirst
  BY DEF StandInv, NonceInv, WriteInv
<1>2. NonceInv' /\ Awake' /\ WritesByKind' /\ DoneWhenAnswered' /\ CreatedFirst'
  BY <1>1, NonceInvNext, HandlerObject, WritesByKindStep, DoneWhenAnsweredStep, CreatedFirstStep
     DEF Next
<1>3. ASSUME now' < ExpiresAt
      PROVE  OnlyUpdates' /\ NeverMissing' /\ RepliesStand' /\ OkStands'
  <2>1. /\ now < ExpiresAt
        /\ OnlyUpdates /\ NeverMissing /\ RepliesStand /\ OkStands
    BY <1>1, <1>3, HandlerObject DEF StandInv
  <2>2. \A q \in Attempt : op'[q] = op[q] \/ (q[2] = "get" /\ op'[q] \notin Stored)
    BY <1>1, HandlerObject
  <2>3. NeverMissing'
    BY <2>1, <2>2 DEF NeverMissing
  <2>4. RepliesStand'
    <3> SUFFICES ASSUME NEW q \in Attempt, op'[q] \in Stored PROVE Stands(q[1])'
      BY DEF RepliesStand, Stored
    <3>1. Stands(q[1]) /\ q[1] \in Handlers
      BY <2>1, <2>2 DEF RepliesStand, Attempt
    <3> QED BY <1>1, <2>1, <3>1, StandsStep
  <2> QED BY <1>1, <2>1, <2>3, <2>4, OnlyUpdatesStep, OkStandsStep
<1> QED BY <1>2, <1>3 DEF StandInv

(* A request that is delivered before the challenge expires.               *)
LEMMA RepliesStandDeliver ==
    ASSUME SteadyStorage, NonceInv, Awake, WritesByKind, CreatedFirst, OnlyUpdates,
           NeverMissing, RepliesStand, OkStands, NEW r \in sent, Deliver(r)
    PROVE  RepliesStand' /\ NeverMissing'
<1> DEFINE u == out[r[1]]
<1>1. FlowType /\ WrittenOnce
  BY DEF NonceInv, WriteInv
<1>2. /\ r \in Attempt /\ r[1] \in Handlers
      /\ u \in DO!CachedChallenge /\ u # NoRecord /\ u = out'[r[1]]
  BY <1>1 DEF FlowType, PutHasRecord, OutType, Attempt, Deliver
<1>3. r[1] # Creator => r[2] = "update" /\ rec # NoRecord
  <2>1. r[1] # Creator => answer[Creator] = "ok"
    BY <1>1, <1>2 DEF WrittenOnce, CreatedFirst
  <2> QED BY <1>2, <2>1 DEF OnlyUpdates, OkStands, Stands
<1>4. \E a \in DO!Replies :
         /\ DO!Answer(r, a)
         /\ a \in {"created", "updated"} => Stands(r[1])'
         /\ a = "not_found" => r[1] = Creator
  <2>1. CASE DO!create_challenge(r, u) /\ r[2] = "create"
    <3>1. DO!Answer(r, "created") /\ rec' # NoRecord /\ r[1] = Creator
      BY <1>1, <1>2, <1>3, <2>1, SteadyCreate, ObjectAssumption DEF FlowType
    <3> QED BY <1>2, <3>1, Kinds DEF Stands, DO!Replies
  <2>2. CASE DO!update_challenge(r, u)
    <3>1. CASE rec = NoRecord /\ DO!Answer(r, "not_found")
      BY <1>3, <3>1 DEF DO!Replies
    <3>2. CASE \E a \in {"gone", "conflict"} : DO!Answer(r, a)
      BY <3>2 DEF DO!Replies
    <3>3. CASE rec' # NoRecord /\ rec'.state = u.state /\ DO!Answer(r, "updated")
      <4>1. r[1] \in Redeemers => u.state = "Verified"
        BY <1>2, Kinds, HandlerAssumption DEF WritesByKind
      <4>2. Stands(r[1])'
        BY <1>2, <3>3, <4>1 DEF Stands
      <4> QED BY <3>3, <4>2 DEF DO!Replies
    <3> QED BY <1>1, <1>2, <2>2, <3>1, <3>2, <3>3, SteadyUpdate DEF FlowType
  <2> QED BY <2>1, <2>2 DEF Deliver
<1>5. PICK a \in DO!Replies :
         /\ DO!Answer(r, a)
         /\ a \in {"created", "updated"} => Stands(r[1])'
         /\ a = "not_found" => r[1] = Creator
  BY <1>4
<1>6. op'[r] = DO!Done(a) /\ \A q \in Attempt : q # r => op'[q] = op[q]
  BY <1>1, <1>2, <1>5, AnswerAwake DEF FlowType
<1>7. ASSUME NEW q \in Attempt, op'[q] \in Stored PROVE Stands(q[1])'
  <2>1. CASE q = r
    <3>1. a \in {"created", "updated"}
      BY <1>6, <1>7, <2>1 DEF Stored, DO!Done
    <3> QED BY <1>5, <2>1, <3>1
  <2>2. CASE q # r
    <3>1. Stands(q[1]) /\ q[1] \in Handlers
      BY <1>6, <1>7, <2>2 DEF RepliesStand, Attempt
    <3> QED BY <3>1, StandsDeliver
  <2> QED BY <2>1, <2>2
<1>8. ASSUME NEW q \in Attempt, q[1] # Creator, q[2] = "update"
      PROVE  op'[q] # DO!Done("not_found")
  BY <1>5, <1>6, <1>8 DEF NeverMissing, DO!Done
<1>9. RepliesStand'
  BY <1>7 DEF RepliesStand, Stored
<1>10. NeverMissing'
  BY <1>8 DEF NeverMissing
<1> QED BY <1>9, <1>10

LEMMA AwakeDeliver ==
    ASSUME SteadyStorage, FlowType, Awake, NEW r \in sent, Deliver(r)
    PROVE  Awake' /\ now' = now
<1>1. r \in Attempt /\ out[r[1]] \in DO!CachedChallenge
  BY DEF FlowType, PutHasRecord, OutType, Attempt
<1>2. \/ DO!create_challenge(r, out[r[1]])
      \/ DO!update_challenge(r, out[r[1]])
  BY DEF Deliver
<1>3. now' = now /\ \E a \in DO!Replies : DO!Answer(r, a)
  BY <1>1, <1>2, SteadyCreate, SteadyUpdate DEF FlowType, DO!Replies
<1> QED BY <1>1, <1>3, AnswerAwake DEF FlowType

LEMMA StandInvDeliver ==
    ASSUME SteadyStorage, StandInv, NEW r \in sent, Deliver(r)
    PROVE  StandInv'
<1>1. FlowType /\ NonceInv /\ Awake /\ WritesByKind /\ DoneWhenAnswered /\ CreatedFirst
  BY DEF StandInv, NonceInv, WriteInv
<1>2. UNCHANGED <<pc, out, call, answer>> /\ sent' \subseteq sent
  BY DEF Deliver
<1>3. NonceInv' /\ Awake' /\ now' = now
  BY <1>1, NonceInvNext, AwakeDeliver DEF Next
<1>4. WritesByKind' /\ DoneWhenAnswered' /\ CreatedFirst'
  BY <1>1, <1>2 DEF WritesByKind, DoneWhenAnswered, CreatedFirst
<1>5. ASSUME now' < ExpiresAt
      PROVE  OnlyUpdates' /\ NeverMissing' /\ RepliesStand' /\ OkStands'
  <2>1. OnlyUpdates /\ NeverMissing /\ RepliesStand /\ OkStands
    BY <1>3, <1>5 DEF StandInv
  <2>2. NeverMissing' /\ RepliesStand'
    BY <1>1, <2>1, RepliesStandDeliver
  <2>3. OnlyUpdates'
    BY <1>2, <2>1 DEF OnlyUpdates
  <2>4. \A g \in {Creator} \cup Verifiers \cup Redeemers : Stands(g) => Stands(g)'
    BY <1>1, StandsDeliver DEF Handlers
  <2>5. OkStands'
    BY <1>2, <2>1, <2>4 DEF OkStands, Answered
  <2> QED BY <2>2, <2>3, <2>5
<1> QED BY <1>3, <1>4, <1>5 DEF StandInv

LEMMA StandInvNext == SteadyStorage /\ StandInv /\ [Next]_vars => StandInv'
<1> SUFFICES ASSUME SteadyStorage, StandInv, [Next]_vars PROVE StandInv'
  OBVIOUS
<1>1. FlowType /\ Awake
  BY DEF StandInv, NonceInv, WriteInv
<1>2. ASSUME UNCHANGED <<rec, op, pc, out, call, sent, answer>>, now' >= now PROVE StandInv'
  <2>1. NonceInv'
    BY NonceInvNext DEF StandInv
  <2>2. Awake' /\ WritesByKind' /\ DoneWhenAnswered' /\ CreatedFirst'
    BY <1>2 DEF StandInv, Awake, DO!Ongoing, WritesByKind, DoneWhenAnswered, CreatedFirst
  <2>3. now' < ExpiresAt => now < ExpiresAt
    BY <1>1, <1>2, FlowTypeNext, ObjectAssumption DEF FlowType, DO!TypeOK
  <2>4. \A g : Stands(g)' = Stands(g)
    BY <1>2 DEF Stands
  <2>5. OnlyUpdates' = OnlyUpdates /\ NeverMissing' = NeverMissing
    BY <1>2 DEF OnlyUpdates, NeverMissing
  <2>6. RepliesStand => RepliesStand'
    BY <1>2, <2>4 DEF RepliesStand, Stored
  <2>7. OkStands => OkStands'
    BY <1>2, <2>4 DEF OkStands, Answered
  <2> QED BY <2>1, <2>2, <2>3, <2>5, <2>6, <2>7 DEF StandInv
<1>3. CASE Environment
  <2>1. DO!Tick
    BY <1>1, <1>3 DEF Environment, DO!Evict, DO!RetryPut, Awake
  <2> QED BY <1>1, <1>2, <1>3, <2>1 DEF Environment, DO!Tick, sendVars, FlowType, DO!TypeOK
<1>4. CASE UNCHANGED vars
  BY <1>1, <1>2, <1>4 DEF vars, doVars, sendVars, FlowType, DO!TypeOK
<1> QED BY <1>3, <1>4, StandInvStep, StandInvDeliver DEF Next

LEMMA StandInvariant == ASSUME SteadyStorage PROVE Spec => []StandInv
<1>1. Init => StandInv
  <2> SUFFICES ASSUME Init PROVE StandInv
    OBVIOUS
  <2>1. Awake /\ NeverMissing /\ RepliesStand
    BY DEF Init, DO!Init, Awake, NeverMissing, RepliesStand, Stored, DO!Ongoing,
           DO!Sleeping, DO!Idle, DO!Done
  <2>2. OnlyUpdates /\ OkStands /\ WritesByKind /\ DoneWhenAnswered /\ CreatedFirst
    BY DEF Init, OnlyUpdates, OkStands, WritesByKind, DoneWhenAnswered, CreatedFirst, Handlers
  <2> QED BY <2>1, <2>2, NonceInvInit DEF StandInv
<1> QED BY <1>1, StandInvNext, PTL DEF Spec

(* While the storage of the object reads and writes without failing, what  *)
(* clients were told stands until the challenge expires, with any number   *)
(* of handlers, of sends and of requests delivered late.                   *)
THEOREM AnswersStandUntilExpiry ==
    ASSUME SteadyStorage
    PROVE  Spec => []AnswersStand
<1> QED BY StandInvariant, StandInvStrong, PTL

-----------------------------------------------------------------------------
(* The stored record over the whole flow, the sandbox included.  What the  *)
(* handlers write is any record, so the theorems of ChallengeDO about its  *)
(* caller records do not apply; the object's own checks do.                *)

(* Whatever fails, nothing but the expiry removes a stored challenge.      *)
LEMMA RemovedOnExpiry ==
    ASSUME FlowType, [Next]_vars, rec # NoRecord, rec' = NoRecord
    PROVE  now >= ExpiresAt
<1>1. ASSUME NEW r \in Attempt, DO!get_challenge(r) PROVE now >= ExpiresAt
  <2>1. now \in Nat /\ ExpiresAt \in Nat
    BY ObjectAssumption DEF FlowType, DO!TypeOK
  <2> QED BY <1>1, <2>1 DEF DO!get_challenge, DO!ReadOrExpire
<1>2. ASSUME NEW h \in Handlers, Step(h) PROVE now >= ExpiresAt
  <2>1. <<h, "get", 1>> \in Attempt
    BY SendAssumption DEF Attempt
  <2> QED BY <1>1, <1>2, <2>1, HandlerReads DEF doVars
<1>3. ASSUME NEW r \in sent, Deliver(r) PROVE FALSE
  <2>1. out[r[1]] \in DO!CachedChallenge
    BY DEF FlowType, PutHasRecord, OutType, Attempt
  <2>2. \A s \in DO!CachedChallenge : DO!Merge(s, out[r[1]]) \in DO!CachedChallenge
    BY <2>1, MergeTyped
  <2>3. rec \in DO!CachedChallenge /\ NoRecord \notin DO!CachedChallenge
    BY ObjectAssumption DEF FlowType, DO!TypeOK
  <2>4. ~DO!create_challenge(r, out[r[1]])
    BY <2>1, <2>3 DEF DO!create_challenge, DO!PutNewRecord
  <2>5. ~DO!update_challenge(r, out[r[1]])
    BY <2>2, <2>3 DEF DO!update_challenge, DO!PutUpdate, DO!Seen
  <2> QED BY <1>3, <2>4, <2>5 DEF Deliver
<1>4. ASSUME Environment PROVE FALSE
  <2>1. ASSUME NEW r \in Attempt, DO!RetryPut(r) PROVE FALSE
    <3>1. op[r].val \in DO!CachedChallenge
      BY <2>1 DEF FlowType, DO!TypeOK, DO!OpStates, DO!RetryPut, DO!Ongoing, DO!Idle,
                  DO!Done, DO!Sleeping
    <3> QED BY <2>1, <3>1, ObjectAssumption
            DEF DO!RetryPut, DO!PutNewRecord, DO!PutMapping, DO!PutUpdate
  <2> QED BY <1>4, <2>1 DEF Environment, DO!Tick, DO!Evict
<1> QED BY <1>2, <1>3, <1>4 DEF Next, vars, doVars

(* A stored challenge is removed by its expiry alone: no handler deletes   *)
(* one, and no retry, eviction or late delivery loses one.                 *)
THEOREM RemovedByExpiryOnly ==
    Spec => [][(rec # NoRecord /\ rec' = NoRecord) => now >= ExpiresAt]_vars
<1>1. FlowType /\ [Next]_vars =>
         [(rec # NoRecord /\ rec' = NoRecord) => now >= ExpiresAt]_vars
  BY RemovedOnExpiry
<1> QED BY <1>1, FlowTypeInvariant, PTL DEF Spec

LEMMA FlowLifecycleStep ==
    ASSUME SteadyStorage, FlowType, Awake, [Next]_vars
    PROVE  [DO!Lifecycle!Next]_(DO!Lifecycle!lcVars)
<1> USE DEF DO!Lifecycle!Next, DO!Lifecycle!lcVars
<1>1. /\ now \in Nat /\ ExpiresAt \in Nat
      /\ rec # NoRecord => rec.state \in DO!ChallengeState
  BY ObjectAssumption DEF FlowType, DO!TypeOK, DO!CachedChallenge
<1>2. ASSUME UNCHANGED <<rec, now>> PROVE UNCHANGED DO!Lifecycle!lcVars
  BY <1>2
<1>3. ASSUME rec # NoRecord, rec' = NoRecord, now' = now PROVE DO!Lifecycle!Remove
  BY <1>1, <1>3, RemovedOnExpiry DEF DO!Lifecycle!Remove, DO!ChallengeState
<1>4. ASSUME NEW h \in Handlers, Step(h)
      PROVE  [DO!Lifecycle!Next]_(DO!Lifecycle!lcVars)
  <2>1. <<h, "get", 1>> \in Attempt
    BY SendAssumption DEF Attempt
  <2>2. now' = now /\ (rec' = rec \/ (rec # NoRecord /\ rec' = NoRecord))
    BY <1>4, <2>1, HandlerReads
       DEF doVars, SteadyStorage, DO!get_challenge, DO!ReadOrExpire, DO!DeleteKeys, DO!Seen
  <2> QED BY <1>2, <1>3, <2>2
<1>5. ASSUME NEW r \in sent, Deliver(r)
      PROVE  [DO!Lifecycle!Next]_(DO!Lifecycle!lcVars)
  <2>1. r \in Attempt /\ out[r[1]] \in DO!CachedChallenge
    BY DEF FlowType, PutHasRecord, OutType, Attempt
  <2>2. out[r[1]].state \in DO!ChallengeState /\ out[r[1]] # NoRecord
    BY <2>1, ObjectAssumption DEF DO!CachedChallenge
  <2>3. CASE DO!create_challenge(r, out[r[1]])
    <3>1. now' = now /\ rec' = (IF rec = NoRecord THEN out[r[1]] ELSE rec)
      BY <2>1, <2>3, SteadyCreate DEF FlowType
    <3>2. CASE rec = NoRecord
      BY <2>2, <3>1, <3>2
         DEF DO!Lifecycle!Create, DO!Lifecycle!Live, DO!Lifecycle!Terminal, DO!ChallengeState
    <3> QED BY <1>2, <3>1, <3>2
  <2>4. CASE DO!update_challenge(r, out[r[1]])
    <3>1. /\ now' = now
          /\ \/ rec' = rec
             \/ /\ rec # NoRecord /\ rec' # NoRecord
                /\ now >= ExpiresAt => DO!is_terminal_state(out[r[1]].state)
                /\ DO!is_valid_transition(rec.state, out[r[1]].state)
                /\ rec'.state = out[r[1]].state
      BY <2>1, <2>4, SteadyUpdate DEF FlowType
    <3>2. CASE rec' = rec
      BY <1>2, <3>1, <3>2
    <3> QED BY <1>2, <2>2, <3>1, <3>2
            DEF DO!Lifecycle!Advance, DO!Lifecycle!Terminal, DO!is_valid_transition,
                DO!is_terminal_state
  <2> QED BY <1>5, <2>3, <2>4 DEF Deliver
<1>6. CASE Environment
  <2>1. DO!Tick
    BY <1>6 DEF Environment, DO!Evict, DO!RetryPut, Awake
  <2> QED BY <1>1, <2>1 DEF DO!Tick, DO!Lifecycle!Expire
<1> QED BY <1>2, <1>4, <1>5, <1>6 DEF Next, vars, doVars

(* While the object's storage reads and writes without failing, the stored *)
(* challenge follows the lifecycle under the real handlers, with stale     *)
(* copies, late deliveries and the sandbox's records.                      *)
THEOREM FlowFollowsLifecycle ==
    ASSUME SteadyStorage
    PROVE  Spec => FollowsLifecycle
<1>1. Init => DO!Lifecycle!Init
  BY ObjectAssumption DEF Init, DO!Init, DO!Lifecycle!Init
<1>2. StandInv => FlowType /\ Awake
  BY DEF StandInv, NonceInv, WriteInv
<1> QED BY <1>1, <1>2, StandInvariant, FlowLifecycleStep, PTL
        DEF Spec, FollowsLifecycle, DO!ImplementsLifecycle, DO!Lifecycle!Spec

-----------------------------------------------------------------------------
(* The record and the mapping are written and removed in one step while    *)
(* writes succeed.                                                         *)
Mapped == rec # NoRecord => codeMap

LEMMA MappedStep ==
    ASSUME SteadyStorage, FlowType, Awake, Mapped, [Next]_vars
    PROVE  Mapped'
<1>1. ASSUME UNCHANGED <<rec, codeMap>> PROVE Mapped'
  BY <1>1 DEF Mapped
<1>2. ASSUME NEW h \in Handlers, Step(h) PROVE Mapped'
  <2>1. CASE DO!get_challenge(<<h, "get", 1>>)
    BY <2>1 DEF DO!get_challenge, DO!ReadOrExpire, DO!DeleteKeys, Mapped
  <2>2. CASE UNCHANGED doVars
    BY <1>1, <2>2 DEF doVars
  <2> QED BY <1>2, <2>1, <2>2, HandlerReads
<1>3. ASSUME NEW r \in sent, Deliver(r) PROVE Mapped'
  <2>1. r \in Attempt /\ out[r[1]] \in DO!CachedChallenge
    BY DEF FlowType, PutHasRecord, OutType, Attempt
  <2>2. CASE DO!create_challenge(r, out[r[1]])
    BY <2>2 DEF SteadyStorage, DO!create_challenge, DO!PutNewRecord, DO!PutMapping,
                DO!PutFails, DO!Seen, Mapped
  <2>3. CASE DO!update_challenge(r, out[r[1]])
    BY <2>3 DEF SteadyStorage, DO!update_challenge, DO!PutUpdate, DO!PutFails, DO!Seen, Mapped
  <2> QED BY <1>3, <2>2, <2>3 DEF Deliver
<1>4. CASE Environment
  BY <1>1, <1>4 DEF Environment, DO!Tick, DO!Evict, DO!RetryPut, Awake
<1> QED BY <1>1, <1>2, <1>3, <1>4 DEF Next, vars, doVars

(* While the object's storage reads and writes without failing, a stored   *)
(* challenge can be found by its code, whichever sends of a creation and   *)
(* of updates get through, in whatever order with the polls that delete.   *)
THEOREM StoredChallengeHasCode ==
    ASSUME SteadyStorage
    PROVE  Spec => []RecordHasCode
<1>1. Init => Mapped
  BY DEF Init, DO!Init, Mapped
<1>2. StandInv => FlowType /\ Awake
  BY DEF StandInv, NonceInv, WriteInv
<1>3. Mapped => RecordHasCode
  BY DEF Mapped, RecordHasCode, DO!RecordHasCode
<1> QED BY <1>1, <1>2, <1>3, StandInvariant, MappedStep, PTL DEF Spec

(* The header of challenge_do.rs is right of the flow too while the        *)
(* storage is steady: no late or stale write changes a terminal state.     *)
THEOREM TerminalStatesStayInFlow ==
    ASSUME SteadyStorage
    PROVE  Spec => TerminalStatesAreFinal
<1>1. StandInv => FlowType /\ Awake
  BY DEF StandInv, NonceInv, WriteInv
<1>2. FlowType /\ FlowType' /\ [DO!Lifecycle!Next]_(DO!Lifecycle!lcVars) =>
         [(rec # NoRecord /\ rec' # NoRecord /\ DO!is_terminal_state(rec.state))
             => rec'.state = rec.state]_(DO!doVars)
  <2> SUFFICES ASSUME FlowType, FlowType', [DO!Lifecycle!Next]_(DO!Lifecycle!lcVars),
                      rec # NoRecord, rec' # NoRecord, DO!is_terminal_state(rec.state)
               PROVE  rec'.state = rec.state
    OBVIOUS
  <2>1. rec.state \in DO!ChallengeState /\ rec'.state \in DO!ChallengeState
    BY DEF FlowType, DO!TypeOK, DO!CachedChallenge
  <2> QED BY <2>1
          DEF DO!Lifecycle!Next, DO!Lifecycle!lcVars, DO!Lifecycle!Create,
              DO!Lifecycle!Advance, DO!Lifecycle!Remove, DO!Lifecycle!Expire,
              DO!is_terminal_state, DO!ChallengeState
<1> QED BY <1>1, <1>2, StandInvariant, FlowTypeNext, FlowLifecycleStep, PTL
        DEF Spec, TerminalStatesAreFinal, DO!TerminalStatesAreFinal

-----------------------------------------------------------------------------
(* Selling the verdict.  The charge and the answer 200 have one redeemer,  *)
(* the one past its nonce, so nothing is charged or answered behind it.    *)
GrantedTo == Told(Redeemers, "ok")

(* The two steps that charge: before the verdict is written, and with the  *)
(* answer to an unmetered origin.                                          *)
LEMMA ChargeStep ==
    ASSUME FlowType, NEW h \in Handlers, Step(h), charged' # charged
    PROVE  /\ h \in Redeemers
           /\ \/ RedeemBill(h)
              \/ Receive(h) /\ Finish(h, Answered(h)) /\ out' = out
<1>1. UNCHANGED billVars => FALSE
  BY DEF billVars
<1>2. CASE Receive(h)
  <2>1. Finish(h, Answered(h)) /\ BillAfterVerdict(h)
    BY <1>1, <1>2 DEF Receive, GiveUp
  <2>2. h \in Redeemers
    BY <2>1 DEF BillAfterVerdict
  <2> QED BY <1>2, <2>1, <2>2 DEF Receive
<1>3. CASE ~Receive(h)
  BY <1>1, <1>3
     DEF Step, create_challenge, Load, VerifyAdmit, VerifyDecide, RedeemGate, RedeemNonce,
         RedeemBill, SimulateDecide, poll_challenge, Timeout, GiveUp
<1> QED BY <1>2, <1>3

(* A redeemer past its nonce is the only one; before its write no one has  *)
(* been answered, and there is a proof.                                    *)
LEMMA RedeemerAlone ==
    ASSUME ProofInv, DoneWhenAnswered, NEW r \in Redeemers, pc[r] \in {"admitted", "put"}
    PROVE  /\ Accepted
           /\ GrantedTo = {}
           /\ pc[r] = "put" => Answered(r) = "ok"
<1>1. FlowType /\ WrittenOnce /\ AnsweredAsWritten /\ r \in Handlers
  BY Kinds DEF ProofInv, NonceInv, WriteInv
<1>2. \A q \in Redeemers : out[q] # NoRecord => q = r
  BY <1>1 DEF ProofInv, NonceInv, Exclusive, Past, FlowType, PutHasRecord
<1>3. answer[r] = "none"
  BY <1>1 DEF DoneWhenAnswered
<1>4. GrantedTo = {}
  BY <1>1, <1>2, <1>3 DEF GrantedTo, Told, AnsweredAsWritten
<1>5. CASE pc[r] = "admitted"
  <2>1. snap[r] \in InPlay /\ Claims(snap[r])
    BY <1>1, <1>5 DEF ProofInv, GatePassed, Redeemable, InPlay, Claims, FlowType, SnapRead
  <2> QED BY <1>4, <1>5, <2>1 DEF ProofInv
<1>6. CASE pc[r] = "put"
  <2>1. out[r] \in InPlay /\ Claims(out[r]) /\ out[r].state = "Verified"
    BY <1>1, <1>6 DEF ProofInv, RedeemersWrite, InPlay, Claims, FlowType, PutHasRecord
  <2> QED BY <1>4, <2>1 DEF ProofInv, Answered
<1> QED BY <1>5, <1>6

(* The answer 200 is given from a stored verdict, and given once.          *)
LEMMA GrantStep ==
    ASSUME ProofInv, DoneWhenAnswered, NEW h \in Handlers, Step(h), GrantedTo' # GrantedTo
    PROVE  h \in Redeemers /\ pc[h] = "put" /\ GrantedTo' = {h}
<1>1. FlowType
  BY DEF ProofInv, NonceInv, WriteInv
<1>2. PICK a : Finish(h, a) /\ MayAnswer(h, a)
  BY <1>1, AnswerStep DEF GrantedTo, Told
<1>3. answer'[h] = a /\ \A g \in Handlers : g # h => answer'[g] = answer[g]
  BY <1>1, <1>2 DEF Finish, FlowType, AnswerType
<1>4. answer[h] = "none"
  BY <1>1, NotDone DEF DoneWhenAnswered
<1>5. h \in Redeemers /\ a = "ok"
  BY <1>3, <1>4, Kinds DEF GrantedTo, Told
<1>6. pc[h] = "put"
  BY <1>2, <1>5, HandlerAssumption DEF MayAnswer
<1>7. GrantedTo = {}
  BY <1>5, <1>6, RedeemerAlone
<1> QED BY <1>3, <1>5, <1>6, <1>7, Kinds DEF GrantedTo, Told

SaleInv == ProofInv /\ DoneWhenAnswered

LEMMA SaleInvNext == SaleInv /\ [Next]_vars => SaleInv'
<1> SUFFICES ASSUME SaleInv, [Next]_vars PROVE SaleInv'
  OBVIOUS
<1>1. FlowType /\ ProofInv'
  BY ProofInvNext DEF SaleInv, ProofInv, NonceInv, WriteInv
<1>2. CASE \E h \in Handlers : Step(h)
  BY <1>1, <1>2, DoneWhenAnsweredStep DEF SaleInv
<1>3. CASE UNCHANGED <<pc, answer>>
  BY <1>1, <1>3 DEF SaleInv, DoneWhenAnswered
<1> QED BY <1>2, <1>3 DEF Next, Deliver, Environment, vars

LEMMA SaleInvariant == Spec => []SaleInv
<1>1. Init => SaleInv
  BY ProofInvInit DEF Init, SaleInv, DoneWhenAnswered
<1> QED BY <1>1, SaleInvNext, PTL DEF Spec

\* A deduction rests on an accepted proof.
ChargeRestsOnProof == charged => Accepted

(* Nobody is billed for a challenge no proof was accepted for, whatever    *)
(* fails and however stale the copies the redemptions work with, in the    *)
(* sandbox as well.                                                        *)
THEOREM NoChargeWithoutProof == Spec => []ChargeRestsOnProof
<1>1. Init => ChargeRestsOnProof
  BY DEF Init, ChargeRestsOnProof
<1>2. SaleInv /\ ChargeRestsOnProof /\ [Next]_vars => ChargeRestsOnProof'
  <2> SUFFICES ASSUME SaleInv, ChargeRestsOnProof, [Next]_vars, charged' PROVE Accepted'
    BY DEF ChargeRestsOnProof
  <2>1. FlowType /\ ProofInv /\ DoneWhenAnswered
    BY DEF SaleInv, ProofInv, NonceInv, WriteInv
  <2>2. ASSUME NEW h \in Handlers, Step(h) PROVE Accepted'
    <3>1. charged' # charged => h \in Redeemers /\ pc[h] \in {"admitted", "put"}
      BY <2>1, <2>2, ChargeStep DEF RedeemBill, Receive
    <3>2. Accepted
      BY <2>1, <3>1, RedeemerAlone DEF ChargeRestsOnProof
    <3> QED BY <2>1, <2>2, <3>2, AcceptedStays
  <2>3. CASE UNCHANGED <<out, charged>>
    BY <2>3 DEF ChargeRestsOnProof, Accepted, Accepting
  <2> QED BY <2>2, <2>3 DEF Next, Deliver, Environment, vars, sendVars, billVars
<1> QED BY <1>1, <1>2, SaleInvariant, PTL DEF Spec

(* An unmetered origin is billed with the answer 200 alone.                *)
LEMMA UnmeteredCharge ==
    ASSUME SaleInv, NEW h \in Handlers, Step(h), ~metered, charged' # charged
    PROVE  GrantedTo' # {} /\ GrantedTo' # GrantedTo
<1>1. FlowType /\ ProofInv /\ DoneWhenAnswered
  BY DEF SaleInv, ProofInv, NonceInv, WriteInv
<1>2. h \in Redeemers
  BY <1>1, ChargeStep
<1>3. ~RedeemBill(h)
  BY DEF RedeemBill, MeteringRead
<1>4. Finish(h, Answered(h)) /\ pc[h] = "put"
  BY <1>1, <1>3, ChargeStep DEF Receive
<1>5. Finish(h, "ok") /\ GrantedTo = {}
  BY <1>1, <1>2, <1>4, RedeemerAlone
<1>6. answer'[h] = "ok"
  BY <1>1, <1>5 DEF Finish, FlowType, AnswerType
<1> QED BY <1>2, <1>5, <1>6 DEF GrantedTo, Told

(* The flow implements Redemption while the metering flag can be read:     *)
(* over any number of handlers, whatever the credit service, the nonce     *)
(* store and the object's storage do, the one answer 200 comes after the   *)
(* proof and, for a metered origin, after the deduction.                   *)
THEOREM RedemptionImplemented ==
    ASSUME MeteringReads
    PROVE  Spec => ImplementsRedemption
<1>1. Init => Sale!Init
  <2>1. Init => Accepting(Verifiers \cup Simulators) = {} /\ GrantedTo = {}
    BY DEF Init, Accepting, GrantedTo, Told, Handlers
  <2> QED BY <2>1 DEF Init, Sale!Init, GrantedTo
<1>2. Init => BillInv
  BY FlowTypeInit DEF Init, BillInv, Handlers
<1>3. SaleInv /\ BillInv /\ [Next]_vars => [Sale!Next]_(Sale!saleVars)
  <2> SUFFICES ASSUME SaleInv, BillInv, [Next]_vars PROVE [Sale!Next]_(Sale!saleVars)
    OBVIOUS
  <2>1. FlowType /\ ProofInv /\ DoneWhenAnswered
    BY DEF SaleInv, ProofInv, NonceInv, WriteInv
  <2>2. /\ metered' = metered
        /\ charged' \in {charged, TRUE}
    BY <2>1, ChargeStays, FlowTypeNext DEF FlowType, BillType
  <2>3. ASSUME UNCHANGED <<out, answer, charged>> PROVE UNCHANGED Sale!saleVars
    BY <2>2, <2>3 DEF Sale!saleVars, Accepting, Told
  <2>4. ASSUME NEW h \in Handlers, Step(h) PROVE [Sale!Next]_(Sale!saleVars)
    <3>1. Accepted => Accepted'
      BY <2>1, <2>4, AcceptedStays
    <3>2. CASE GrantedTo' # GrantedTo
      <4>1. h \in Redeemers /\ pc[h] = "put" /\ GrantedTo' = {h}
        BY <2>1, <2>4, <3>2, GrantStep
      <4>2. Accepted /\ GrantedTo = {} /\ (metered => charged)
        BY <2>1, <4>1, RedeemerAlone DEF BillInv
      <4>3. Sale!Grant(h)
        BY <2>2, <3>1, <4>1, <4>2 DEF Sale!Grant, Sale!Open, Accepted, GrantedTo
      <4> QED BY <4>1, <4>3 DEF Sale!Next
    <3>3. CASE GrantedTo' = GrantedTo /\ charged' # charged
      <4>1. h \in Redeemers /\ pc[h] \in {"admitted", "put"}
        BY <2>1, <2>4, <3>3, ChargeStep DEF RedeemBill, Receive
      <4>2. Accepted /\ GrantedTo = {}
        BY <2>1, <4>1, RedeemerAlone
      <4>3. metered'
        BY <2>2, <2>4, <3>3, UnmeteredCharge
      <4>4. Sale!Bill
        BY <2>2, <3>1, <3>3, <4>2, <4>3 DEF Sale!Bill, Sale!Open, Accepted, GrantedTo
      <4> QED BY <4>4 DEF Sale!Next
    <3>4. CASE GrantedTo' = GrantedTo /\ charged' = charged
      BY <2>2, <3>1, <3>4 DEF Sale!Next, Sale!Accept, Sale!saleVars, Accepted, GrantedTo
    <3> QED BY <3>2, <3>3, <3>4
  <2> QED BY <2>3, <2>4 DEF Next, Deliver, Environment, vars, sendVars, billVars
<1> QED BY <1>1, <1>2, <1>3, SaleInvariant, BillInvNext, PTL
        DEF Spec, ImplementsRedemption, Sale!Spec

\* An unmetered origin is billed with the answer 200 alone, and a write that
\* failed was a write of the verdict.
UnmeteredInv ==
    /\ ~metered /\ charged => GrantedTo # {}
    /\ \A r \in Redeemers : answer[r] = "write_failed" => out[r] # NoRecord

LEMMA UnmeteredInvStep ==
    ASSUME SaleInv, UnmeteredInv, NEW h \in Handlers, Step(h)
    PROVE  UnmeteredInv'
<1>1. FlowType /\ NonceInv /\ ProofInv /\ DoneWhenAnswered
  BY DEF SaleInv, ProofInv, NonceInv, WriteInv
<1>2. metered' = metered /\ (charged => charged')
  BY <1>1, ChargeStays DEF Next
<1>3. GrantedTo # {} => GrantedTo' # {}
  BY <1>1, DoneWhenAnsweredStep, Kinds DEF GrantedTo, Told
<1>4. ASSUME ~metered, charged' # charged PROVE GrantedTo' # {}
  BY <1>4, UnmeteredCharge
<1>5. ASSUME NEW r \in Redeemers, answer'[r] = "write_failed" PROVE out'[r] # NoRecord
  <2>1. r \in Handlers /\ (out[r] # NoRecord => out'[r] = out[r])
    BY <1>1, OutFinal, Kinds
  <2>2. CASE answer[r] = "write_failed"
    BY <2>1, <2>2 DEF UnmeteredInv
  <2>3. CASE answer[r] # "write_failed"
    <3>1. pc[r] = "put"
      BY <1>1, <1>5, <2>1, <2>3, AnswerStep DEF Finish, MayAnswer, FlowType, AnswerType
    <3> QED BY <1>1, <2>1, <3>1 DEF FlowType, PutHasRecord
  <2> QED BY <2>2, <2>3
<1> QED BY <1>2, <1>3, <1>4, <1>5 DEF UnmeteredInv, FlowType, BillType

(* The comment "credits have not been deducted" (FailedWriteIsUnbilled) is *)
(* wrong only of metered origins: an unmetered origin is billed with the   *)
(* answer 200 alone, and where that was given no write has failed.         *)
THEOREM FailureUnbilledIfUnmetered == Spec => [](metered \/ FailedWriteIsUnbilled)
<1>1. Init => UnmeteredInv
  BY Kinds DEF Init, UnmeteredInv
<1>2. SaleInv /\ UnmeteredInv /\ [Next]_vars => UnmeteredInv'
  <2>1. UnmeteredInv /\ UNCHANGED <<out, answer, metered, charged>> => UnmeteredInv'
    BY DEF UnmeteredInv, GrantedTo, Told
  <2> QED BY <2>1, UnmeteredInvStep DEF Next, Deliver, Environment, vars, sendVars, billVars
<1>3. SaleInv /\ UnmeteredInv => metered \/ FailedWriteIsUnbilled
  <2> SUFFICES ASSUME SaleInv, UnmeteredInv, ~metered, charged,
                      NEW q \in Redeemers, answer[q] = "write_failed"
               PROVE  FALSE
    BY DEF FailedWriteIsUnbilled, Told
  <2>1. PICK r \in Redeemers : answer[r] = "ok"
    BY DEF UnmeteredInv, GrantedTo, Told
  <2>2. out[r] # NoRecord /\ out[q] # NoRecord
    BY <2>1 DEF SaleInv, ProofInv, NonceInv, WriteInv, AnsweredAsWritten, UnmeteredInv
  <2> QED BY <2>1, <2>2 DEF SaleInv, ProofInv, NonceInv, Exclusive, Past
<1> QED BY <1>1, <1>2, <1>3, SaleInvariant, PTL DEF Spec

=============================================================================
