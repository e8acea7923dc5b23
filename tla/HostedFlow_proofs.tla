-------------------------- MODULE HostedFlow_proofs --------------------------
(***************************************************************************)
(* Proofs about HostedFlow, for any number of redemptions and polls and    *)
(* all limits.                                                             *)
(***************************************************************************)
EXTENDS HostedFlow, TLAPS

-----------------------------------------------------------------------------
(* Type correctness *)

LEMMA NewSessionTyped == NewSession \in HostedSession
BY LimitAssumption DEF NewSession, HostedSession, SessionState

LEMMA StoredTyped ==
    ASSUME StoreType, NEW v \in ChallengeState, Stored(v)
    PROVE  Store!TypeOK'
BY DEF Stored, StoreType, ChallengeState, Store!TypeOK, Store!Advance, Store!Create,
       Store!Live, Store!Terminal

LEMMA PutTyped ==
    ASSUME StoreType, NEW v \in ChallengeState, PutDone(v) \/ PutFailed(v)
    PROVE  StoreType'
BY StoredTyped DEF PutDone, PutFailed, StoreType, Store!TypeOK

LEMMA GetTyped ==
    ASSUME StoreType, NEW found \in Found, get(found)
    PROVE  StoreType'
BY DEF get, StoreType, Store!TypeOK

LEMMA WriteTyped ==
    ASSUME KvType, NEW s \in HostedSession, NEW prior,
           update_session_kv_checked(s, prior)
    PROVE  KvType'
BY DEF update_session_kv_checked, KvType, kvVars

LEMMA FinishTyped ==
    ASSUME RequestType, NEW h \in Requests, NEW a \in Answers, Finish(h, a), UNCHANGED known
    PROVE  RequestType'
BY NewSessionTyped DEF Finish, Goto, TellsOf, RequestType, Points

LEMMA ReplyTyped ==
    ASSUME RequestType, NEW h \in Requests, NEW a \in Answers, Reply(h, a)
    PROVE  RequestType'
BY FinishTyped DEF Reply

LEMMA ProceedTyped ==
    ASSUME RequestType, NEW h \in Requests, NEW p \in Points, Proceed(h, p)
    PROVE  RequestType'
BY DEF Proceed, Goto, RequestType

LEMMA CountTyped ==
    ASSUME RequestType, KvType, NEW h \in Requests, NEW s \in HostedSession,
           NEW p \in Points, Count(h, s, p)
    PROVE  RequestType' /\ KvType'
<1>1. KvType'
  BY WriteTyped DEF Count
<1>2. RequestType'
  BY NewSessionTyped DEF Count, Goto, RequestType
<1> QED BY <1>1, <1>2

(* A counter that passed its check may be written.                         *)
LEMMA CountedTyped ==
    ASSUME NEW s \in HostedSession
    PROVE  /\ s.redeem_attempt_count + 1 <= MaxRedeemAttempts =>
                [s EXCEPT !.redeem_attempt_count = @ + 1] \in HostedSession
           /\ s.status_check_count + 1 <= MaxStatusChecks =>
                [s EXCEPT !.status_check_count = @ + 1] \in HostedSession
BY LimitAssumption DEF HostedSession

LEMMA ReadSessionTyped ==
    ASSUME TypeOK, NEW h \in Requests, ReadSession(h)
    PROVE  RequestType'
<1>0. /\ RequestType /\ visible \subseteq HostedSession
      /\ known' = [known EXCEPT ![h] = told]
  BY DEF TypeOK, KvType, ReadSession
<1>1. ASSUME NEW s \in visible, copy' = [copy EXCEPT ![h] = s],
             answer' = [answer EXCEPT ![h] = "none"], Goto(h, "read"),
             UNCHANGED <<seen, told>>
      PROVE  RequestType'
  BY <1>0, <1>1 DEF RequestType, Goto, Points, Answers
<1>2. CASE Finish(h, "refused")
  BY <1>0, <1>2, NewSessionTyped DEF Finish, Goto, TellsOf, RequestType, Points, Answers
<1> QED BY <1>1, <1>2 DEF ReadSession

LEMMA GateTyped ==
    ASSUME RequestType, NEW h \in Requests, NEW c \in ChallengeState, RedeemGate(h, c)
    PROVE  RequestType'
<1>1. CASE Reply(h, "not_ready") \/ Reply(h, "refused")
  BY <1>1, ReplyTyped DEF Answers
<1>2. CASE /\ Goto(h, "gated")
           /\ seen' = [seen EXCEPT ![h] = "Absent"]
           /\ UNCHANGED <<copy, answer, told, known>>
  BY <1>2 DEF Goto, RequestType, Points
<1> QED BY <1>1, <1>2 DEF RedeemGate

LEMMA RequestTyped ==
    ASSUME TypeOK, NEW h \in Requests, Request(h)
    PROVE  TypeOK'
<1> USE DEF TypeOK
<1>0. StoreType /\ KvType /\ WalletType /\ RequestType /\ BillType
  OBVIOUS
<1>s. ASSUME UNCHANGED storeVars PROVE StoreType'
  BY <1>s DEF storeVars, StoreType, Store!TypeOK
<1>k. ASSUME UNCHANGED kvVars PROVE KvType'
  BY <1>k DEF kvVars, KvType
<1>w. ASSUME UNCHANGED walletVars PROVE WalletType'
  BY <1>w DEF walletVars, WalletType
<1>b. ASSUME UNCHANGED <<nonce, billVars>> PROVE BillType'
  BY <1>b DEF billVars, BillType
<1>1. CASE ReadSession(h)
  BY <1>1, <1>s, <1>k, <1>w, <1>b, ReadSessionTyped DEF ReadSession
<1>2. CASE Load(h)
  <2> PICK found \in Found :
        /\ get(found)
        /\ \/ found = "Absent" /\ Reply(h, "refused")
           \/ found = "Failure" /\ Reply(h, "error")
           \/ /\ found \in ChallengeState
              /\ seen' = [seen EXCEPT ![h] = found]
              /\ Goto(h, "loaded")
              /\ UNCHANGED <<copy, answer, told, known>>
    BY <1>2 DEF Load
  <2>1. StoreType'
    BY GetTyped
  <2>2. RequestType'
    <3>1. CASE Reply(h, "refused") \/ Reply(h, "error")
      BY <3>1, ReplyTyped DEF Answers
    <3>2. CASE /\ found \in ChallengeState
               /\ seen' = [seen EXCEPT ![h] = found]
               /\ Goto(h, "loaded")
               /\ UNCHANGED <<copy, answer, told, known>>
      BY <3>2 DEF Goto, RequestType, Points
    <3> QED BY <3>1, <3>2
  <2> QED BY <1>2, <2>1, <2>2, <1>k, <1>w, <1>b DEF Load
<1>3. CASE CountCheck(h)
  <2> DEFINE s == [copy[h] EXCEPT !.status_check_count = @ + 1]
  <2>1. copy[h] \in HostedSession
    BY DEF RequestType
  <2>2. s.status_check_count = copy[h].status_check_count + 1
    BY <2>1 DEF HostedSession
  <2>3. RequestType' /\ KvType'
    <3>1. CASE Reply(h, "refused") /\ UNCHANGED kvVars
      BY <3>1, <1>k, ReplyTyped DEF Answers
    <3>2. CASE s.status_check_count <= MaxStatusChecks /\ Count(h, s, "admitted")
      <4>1. s \in HostedSession
        BY <2>1, <2>2, <3>2, CountedTyped
      <4> QED BY <3>2, <4>1, CountTyped DEF Points
    <3> QED BY <1>3, <3>1, <3>2 DEF CountCheck
  <2> QED BY <1>3, <2>3, <1>s, <1>w, <1>b DEF CountCheck
<1>4. CASE handle_hosted_status(h)
  <2> PICK a \in Report(h) : Reply(h, a)
    BY <1>4 DEF handle_hosted_status
  <2>1. a \in Answers
    BY DEF Report, from_challenge_state, Answers
  <2>2. RequestType'
    BY <2>1, ReplyTyped
  <2> QED BY <1>4, <2>2, <1>s, <1>k, <1>w, <1>b DEF handle_hosted_status
<1>5. CASE CountAttempt(h)
  <2> DEFINE s == [copy[h] EXCEPT !.redeem_attempt_count = @ + 1]
  <2>1. copy[h] \in HostedSession
    BY DEF RequestType
  <2>2. s.redeem_attempt_count = copy[h].redeem_attempt_count + 1
    BY <2>1 DEF HostedSession
  <2>3. RequestType' /\ KvType'
    <3>1. CASE Reply(h, "refused") /\ UNCHANGED kvVars
      BY <3>1, <1>k, ReplyTyped DEF Answers
    <3>2. CASE s.redeem_attempt_count <= MaxRedeemAttempts /\ Count(h, s, "counted")
      <4>1. s \in HostedSession
        BY <2>1, <2>2, <3>2, CountedTyped
      <4> QED BY <3>2, <4>1, CountTyped DEF Points
    <3> QED BY <1>5, <3>1, <3>2 DEF CountAttempt
  <2> QED BY <1>5, <2>3, <1>s, <1>w, <1>b DEF CountAttempt
<1>6. CASE ConsumeNonce(h)
  <2>1. RequestType'
    BY <1>6, ReplyTyped, ProceedTyped DEF ConsumeNonce, Answers, Points
  <2>2. BillType'
    BY <1>6 DEF ConsumeNonce, BillType, billVars
  <2> QED BY <1>6, <2>1, <2>2, <1>s, <1>k, <1>w DEF ConsumeNonce
<1>7. CASE RedeemExpiry(h)
  <2>3. RequestType'
    <3>1. CASE Reply(h, "refused") \/ Proceed(h, "pending")
      BY <3>1, ReplyTyped, ProceedTyped DEF Answers, Points
    <3>2. CASE RedeemGate(h, seen[h]) /\ seen[h] \in ChallengeState
      BY <3>2, GateTyped
    <3>3. CASE RedeemGate(h, seen[h]) /\ seen[h] = "Absent"
      BY <3>3 DEF RedeemGate, Store!Terminal
    <3>4. seen[h] \in ChallengeState \/ seen[h] = "Absent"
      BY DEF RequestType
    <3> QED BY <1>7, <3>1, <3>2, <3>3, <3>4 DEF RedeemExpiry
  <2> QED BY <1>7, <2>3, <1>s, <1>k, <1>w, <1>b DEF RedeemExpiry
<1>8. CASE RedeemReread(h)
  <2> PICK found \in Found :
        get(found) /\ RedeemGate(h, IF found \in ChallengeState THEN found ELSE seen[h])
    BY <1>8 DEF RedeemReread
  <2>1. StoreType'
    BY GetTyped
  <2>2. CASE found \in ChallengeState \/ seen[h] \in ChallengeState
    <3>1. RequestType'
      BY <2>2, GateTyped
    <3> QED BY <1>8, <2>1, <3>1, <1>k, <1>w, <1>b DEF RedeemReread
  <2>3. CASE found \notin ChallengeState /\ seen[h] = "Absent"
    BY <2>3 DEF RedeemGate, Store!Terminal
  <2> QED BY <2>2, <2>3 DEF RequestType
<1>9. CASE RedeemBill(h)
  <2>1. RequestType'
    BY <1>9, ReplyTyped, ProceedTyped DEF RedeemBill, consume_credits, Answers, Points
  <2>2. BillType'
    BY <1>9 DEF RedeemBill, consume_credits, BillType, billVars
  <2> QED BY <1>9, <2>1, <2>2, <1>s, <1>k, <1>w DEF RedeemBill
<1>10. CASE RedeemWrite(h)
  <2>1. RequestType'
    BY <1>10, ReplyTyped DEF RedeemWrite, Answers
  <2>2. "Verified" \in ChallengeState
    BY DEF ChallengeState, Store!Terminal
  <2>3. StoreType'
    BY <1>10, <2>2, PutTyped DEF RedeemWrite
  <2>4. BillType'
    BY <1>10 DEF RedeemWrite, BillType
  <2> QED BY <1>10, <2>1, <2>3, <2>4, <1>k, <1>w DEF RedeemWrite
<1> QED
  BY <1>1, <1>2, <1>3, <1>4, <1>5, <1>6, <1>7, <1>8, <1>9, <1>10 DEF Request

LEMMA EnvironmentTyped ==
    ASSUME TypeOK,
           submit_verification \/ NotifyRead \/ NotifyWrite \/ Deliver \/ Expire \/ Settle
    PROVE  TypeOK'
<1> USE DEF TypeOK
<1>r. ASSUME UNCHANGED reqVars PROVE RequestType'
  BY <1>r DEF reqVars, RequestType
<1>b. ASSUME UNCHANGED <<nonce, billVars>> PROVE BillType'
  BY <1>b DEF billVars, BillType
<1>k. ASSUME UNCHANGED kvVars PROVE KvType'
  BY <1>k DEF kvVars, KvType
<1>s. ASSUME UNCHANGED storeVars PROVE StoreType'
  BY <1>s DEF storeVars, StoreType, Store!TypeOK
<1>w. ASSUME UNCHANGED walletVars PROVE WalletType'
  BY <1>w DEF walletVars, WalletType
<1>1. CASE submit_verification
  <2>1. {"ProofOkWaitingForRedeem", "Failed", "Expired"} \subseteq ChallengeState
    BY DEF ChallengeState, Store!Live, Store!Terminal
  <2>2. StoreType'
    BY <1>1, <2>1, PutTyped DEF submit_verification
  <2>3. WalletType'
    BY <1>1, NewSessionTyped DEF submit_verification, Notify, NoNote, WalletType, SessionState
  <2> QED BY <1>1, <2>2, <2>3, <1>k, <1>r, <1>b DEF submit_verification
<1>2. CASE NotifyRead
  <2>1. WalletType'
    <3>1. NoNote \in [stage : {"none", "due", "read"}, to : SessionState, read : HostedSession]
      BY NewSessionTyped DEF NoNote, SessionState
    <3>2. ASSUME NEW s \in visible, note' = [note EXCEPT !.stage = "read", !.read = s]
          PROVE  WalletType'
      <4> DEFINE n == [note EXCEPT !.stage = "read"]
      <4>1. n \in [stage : {"none", "due", "read"}, to : SessionState, read : HostedSession]
        BY DEF WalletType
      <4>2. note' = [n EXCEPT !.read = s] /\ s \in HostedSession
        BY <3>2 DEF KvType
      <4>3. decision' \in {"none", "accepted", "rejected", "late"}
        BY <1>2 DEF NotifyRead, WalletType
      <4> HIDE DEF n
      <4> QED BY <4>1, <4>2, <4>3 DEF WalletType
    <3>3. CASE note' = NoNote
      BY <1>2, <3>1, <3>3 DEF NotifyRead, WalletType
    <3> QED BY <1>2, <3>2, <3>3 DEF NotifyRead
  <2> QED BY <1>2, <2>1, <1>s, <1>k, <1>r, <1>b DEF NotifyRead
<1>3. CASE NotifyWrite
  <2>1. [note.read EXCEPT !.state = note.to] \in HostedSession
    BY DEF WalletType, HostedSession
  <2>2. KvType'
    BY <1>3, <2>1, WriteTyped DEF NotifyWrite
  <2>3. WalletType'
    BY <1>3, NewSessionTyped DEF NotifyWrite, NoNote, WalletType, SessionState
  <2> QED BY <1>3, <2>2, <2>3, <1>s, <1>r, <1>b DEF NotifyWrite
<1>4. CASE Deliver
  <2>1. StoreType'
    BY <1>4, StoredTyped DEF Deliver, StoreType
  <2> QED BY <1>4, <2>1, <1>k, <1>w, <1>r, <1>b DEF Deliver
<1>5. CASE Expire
  <2>1. StoreType'
    BY <1>5 DEF Expire, Store!Expire, StoreType, Store!TypeOK
  <2> QED BY <1>5, <2>1, <1>k, <1>w, <1>r, <1>b DEF Expire
<1>6. CASE Settle
  <2>1. KvType'
    BY <1>6 DEF Settle, KvType
  <2> QED BY <1>6, <2>1, <1>s, <1>w, <1>r, <1>b DEF Settle
<1> QED BY <1>1, <1>2, <1>3, <1>4, <1>5, <1>6

LEMMA StutterTyped ==
    ASSUME TypeOK, UNCHANGED vars
    PROVE  TypeOK'
BY DEF TypeOK, vars, storeVars, kvVars, walletVars, reqVars, billVars, StoreType,
       Store!TypeOK, KvType, WalletType, RequestType, BillType

LEMMA InitTyped == Init => TypeOK
<1> SUFFICES ASSUME Init PROVE TypeOK
  OBVIOUS
<1>1. StoreType
  BY DEF Init, StoreType, Store!TypeOK, Store!Live, Store!Terminal
<1>2. KvType /\ RequestType
  BY NewSessionTyped DEF Init, KvType, RequestType, Points, Answers
<1>3. WalletType /\ BillType
  BY NewSessionTyped DEF Init, WalletType, NoNote, SessionState, BillType
<1> QED BY <1>1, <1>2, <1>3 DEF TypeOK

LEMMA NextTyped == TypeOK /\ [Next]_vars => TypeOK'
BY RequestTyped, EnvironmentTyped, StutterTyped DEF Next

(* Every variable keeps its type; no record with a counter beyond its      *)
(* limit is written to KV.                                                 *)
THEOREM TypeCorrect == Spec => []TypeOK
<1> QED BY InitTyped, NextTyped, PTL DEF Spec

-----------------------------------------------------------------------------
(* One cookie.  A redemption that passed the nonce is the only one that    *)
(* ever does, whatever its answer.                                         *)

Open == {"admitted", "loaded", "pending", "gated", "billed", "unbilled"}

Passed(r) == pc[r] \in Open \/ answer[r] = "ok"

NonceInv ==
    \A r \in Redeemers : Passed(r) =>
       nonce = "used" /\ \A q \in Redeemers : Passed(q) => q = r

LEMMA NonceImplies == NonceInv => OneCookie
BY DEF NonceInv, OneCookie, Passed

(* What a request changes of the progress of requests: its own.            *)
LEMMA OwnProgress ==
    ASSUME RequestType, NEW h \in Requests, Request(h)
    PROVE  \A q \in Requests : q # h =>
              pc'[q] = pc[q] /\ answer'[q] = answer[q] /\ seen'[q] = seen[q]
                /\ copy'[q] = copy[q] /\ known'[q] = known[q]
BY DEF Request, ReadSession, Load, CountCheck, handle_hosted_status, CountAttempt,
       ConsumeNonce, RedeemExpiry, RedeemGate, RedeemReread, RedeemBill,
       consume_credits, RedeemWrite, Reply, Finish, Proceed, Count, Goto, RequestType

(* A redemption passes at the nonce and nowhere else.                      *)
LEMMA PassesAtNonce ==
    ASSUME RequestType, NEW r \in Redeemers, Request(r), Passed(r)'
    PROVE  Passed(r) \/ (nonce = "free" /\ nonce' = "used")
<1>0. r \in Requests /\ r \notin Pollers
  BY RequestAssumption DEF Requests
<1>1. CASE ReadSession(r)
  BY <1>0, <1>1 DEF ReadSession, Finish, Goto, RequestType, Passed, Open
<1>2. CASE Load(r)
  BY <1>2 DEF Load, Passed, Open
<1>3. CASE CountAttempt(r)
  BY <1>0, <1>3 DEF CountAttempt, Reply, Finish, Count, Goto, RequestType, Passed, Open
<1>4. CASE ConsumeNonce(r)
  BY <1>0, <1>4 DEF ConsumeNonce, Reply, Finish, Proceed, Goto, RequestType, Passed, Open
<1>5. CASE RedeemExpiry(r) \/ RedeemReread(r) \/ RedeemBill(r) \/ RedeemWrite(r)
  BY <1>5 DEF RedeemExpiry, RedeemReread, RedeemBill, RedeemWrite, Passed, Open
<1> QED BY <1>0, <1>1, <1>2, <1>3, <1>4, <1>5 DEF Request, CountCheck, handle_hosted_status

(* A nonce stays used, and only redemptions use it.                        *)
LEMMA NonceKept ==
    ASSUME NEW h \in Requests, Request(h), BillType
    PROVE  /\ nonce = "used" => nonce' = "used"
           /\ h \notin Redeemers => nonce' = nonce
BY DEF Request, ReadSession, Load, CountCheck, handle_hosted_status, CountAttempt,
       ConsumeNonce, RedeemExpiry, RedeemReread, RedeemBill, RedeemWrite, BillType

LEMMA NonceStep ==
    ASSUME TypeOK, NonceInv, [Next]_vars
    PROVE  NonceInv'
<1>0. RequestType /\ BillType
  BY DEF TypeOK
<1>1. ASSUME NEW h \in Requests, Request(h) PROVE NonceInv'
  <2>1. nonce = "used" => nonce' = "used"
    BY <1>0, <1>1, NonceKept
  <2>2. \A q \in Redeemers : q # h => Passed(q)' = Passed(q)
    BY <1>0, <1>1, OwnProgress DEF Passed, Requests
  <2>3. CASE h \notin Redeemers
    BY <2>1, <2>2, <2>3 DEF NonceInv
  <2>4. CASE h \in Redeemers
    <3>1. Passed(h)' => Passed(h) \/ (nonce = "free" /\ nonce' = "used")
      BY <1>0, <1>1, <2>4, PassesAtNonce
    <3>2. CASE Passed(h)' /\ ~Passed(h)
      <4>1. \A q \in Redeemers : ~Passed(q)
        BY <3>1, <3>2 DEF NonceInv
      <4> QED BY <2>2, <3>1, <3>2, <4>1 DEF NonceInv
    <3>3. CASE ~(Passed(h)' /\ ~Passed(h))
      <4>1. \A q \in Redeemers : Passed(q)' => Passed(q)
        BY <2>2, <3>3
      <4> QED BY <2>1, <4>1 DEF NonceInv
    <3> QED BY <3>2, <3>3
  <2> QED BY <2>3, <2>4
<1>2. ASSUME UNCHANGED <<reqVars, nonce>> PROVE NonceInv'
  BY <1>2 DEF reqVars, NonceInv, Passed
<1>3. CASE submit_verification \/ NotifyRead \/ NotifyWrite \/ Deliver \/ Expire \/ Settle
  BY <1>2, <1>3 DEF submit_verification, NotifyRead, NotifyWrite, Deliver, Expire, Settle
<1>4. CASE UNCHANGED vars
  BY <1>2, <1>4 DEF vars
<1> QED BY <1>1, <1>3, <1>4 DEF Next

(* Of any number of redemptions of one session at most one is answered     *)
(* with a cookie.                                                          *)
THEOREM AtMostOneCookie == Spec => []OneCookie
<1>1. Init => NonceInv
  BY DEF Init, NonceInv, Passed, Open, Requests
<1>2. TypeOK /\ NonceInv /\ [Next]_vars => NonceInv'
  BY NonceStep
<1> QED BY <1>1, <1>2, TypeCorrect, NonceImplies, PTL DEF Spec

-----------------------------------------------------------------------------
(* The cookie is billed *)

(* Whoever is billed has been charged; once metering was found enabled the *)
(* redemption that found it has left the gate.                             *)
BillInv ==
    /\ \A r \in Redeemers : pc[r] = "billed" => charged
    /\ metered => \A r \in Redeemers :
          /\ pc[r] \in Open => pc[r] = "billed"
          /\ answer[r] = "ok" => charged
    /\ metered => nonce = "used"

LEMMA BillImplies == BillInv => CookieIsBilled
BY DEF BillInv, CookieIsBilled

LEMMA BillRequestStep ==
    ASSUME TypeOK, NonceInv, BillInv, NEW r \in Redeemers, Request(r)
    PROVE  BillInv'
<1>0. /\ r \in Requests /\ r \notin Pollers
      /\ RequestType /\ BillType
  BY RequestAssumption DEF TypeOK, Requests
<1>1. \A q \in Redeemers : q # r => pc'[q] = pc[q] /\ answer'[q] = answer[q]
  BY <1>0, OwnProgress DEF Requests
<1>2. CASE ReadSession(r) \/ CountAttempt(r)
  <2>1. pc'[r] \notin Open /\ (answer'[r] # "ok" \/ answer'[r] = answer[r])
    BY <1>0, <1>2 DEF ReadSession, CountAttempt, Reply, Finish, Count, Goto, RequestType, Open
  <2>2. UNCHANGED <<nonce, billVars>>
    BY <1>2 DEF ReadSession, CountAttempt
  <2> QED BY <1>1, <2>1, <2>2 DEF BillInv, billVars, Open
<1>3. CASE ConsumeNonce(r)
  <2>1. UNCHANGED billVars
    BY <1>3 DEF ConsumeNonce
  <2>2. \/ pc'[r] = "admitted" /\ nonce = "free" /\ answer'[r] = answer[r]
        \/ pc'[r] = "done" /\ answer'[r] # "ok"
    BY <1>0, <1>3 DEF ConsumeNonce, Proceed, Reply, Finish, Goto, RequestType
  <2>3. nonce = "used" => nonce' = "used"
    BY <1>0, NonceKept
  <2> QED BY <1>1, <2>1, <2>2, <2>3 DEF BillInv, billVars, Open
<1>4. CASE Load(r) \/ RedeemExpiry(r) \/ RedeemReread(r)
  <2>1. UNCHANGED <<nonce, billVars>>
    BY <1>4 DEF Load, RedeemExpiry, RedeemReread
  <2>2. pc[r] \in Open \ {"billed"}
    BY <1>4 DEF Load, RedeemExpiry, RedeemReread, Open
  <2>3. pc'[r] # "billed" /\ (answer'[r] = answer[r] \/ answer'[r] # "ok")
    BY <1>0, <1>4 DEF Load, RedeemExpiry, RedeemReread, RedeemGate, Proceed, Reply, Finish,
                      Goto, RequestType
  <2>4. ~metered
    BY <2>2 DEF BillInv
  <2> QED BY <1>1, <2>1, <2>3, <2>4 DEF BillInv, billVars
<1>5. CASE RedeemBill(r)
  <2>1. /\ pc[r] = "gated" /\ UNCHANGED nonce
        /\ charged' \in {charged, TRUE}
    BY <1>5 DEF RedeemBill, consume_credits, billVars
  <2>2. nonce = "used" /\ \A q \in Redeemers : q # r => ~Passed(q)
    BY <2>1 DEF NonceInv, Passed, Open
  <2>3. \/ pc'[r] = "billed" /\ charged' /\ answer'[r] = answer[r]
        \/ pc'[r] = "done" /\ answer'[r] # "ok"
        \/ pc'[r] = "unbilled" /\ UNCHANGED metered /\ answer'[r] = answer[r]
    BY <1>0, <1>5 DEF RedeemBill, consume_credits, billVars, Proceed, Reply, Finish, Goto, RequestType
  <2>4. ~metered
    BY <2>1 DEF BillInv, Open
  <2> QED BY <1>0, <1>1, <2>1, <2>2, <2>3, <2>4 DEF BillInv, Passed, Open
<1>6. CASE RedeemWrite(r)
  <2>1. /\ pc[r] \in {"billed", "unbilled"}
        /\ pc'[r] = "done"
        /\ UNCHANGED <<nonce, metered>>
        /\ charged' \in {charged, TRUE}
    BY <1>0, <1>6 DEF RedeemWrite, Reply, Finish, Goto, RequestType
  <2>2. metered => charged
    BY <2>1 DEF BillInv, Open
  <2>3. charged => charged'
    BY <2>1, Zenon
  <2> QED BY <1>0, <1>1, <2>1, <2>2, <2>3 DEF BillInv, Open
<1> QED
  BY <1>0, <1>2, <1>3, <1>4, <1>5, <1>6 DEF Request, CountCheck, handle_hosted_status

LEMMA BillStep ==
    ASSUME TypeOK, NonceInv, BillInv, [Next]_vars
    PROVE  BillInv'
<1>1. ASSUME NEW h \in Requests, Request(h) PROVE BillInv'
  <2>1. CASE h \in Redeemers
    BY <1>1, <2>1, BillRequestStep
  <2>2. CASE h \notin Redeemers
    <3>1. \A q \in Redeemers : pc'[q] = pc[q] /\ answer'[q] = answer[q]
      BY <1>1, <2>2, OwnProgress DEF TypeOK, Requests
    <3>2. UNCHANGED <<nonce, billVars>>
      BY <1>1, <2>2 DEF Request, ReadSession, Load, CountCheck, handle_hosted_status,
         CountAttempt, ConsumeNonce, RedeemExpiry, RedeemReread, RedeemBill, RedeemWrite
    <3> QED BY <3>1, <3>2 DEF BillInv, billVars
  <2> QED BY <2>1, <2>2
<1>2. ASSUME UNCHANGED <<reqVars, nonce, billVars>> PROVE BillInv'
  BY <1>2 DEF reqVars, billVars, BillInv
<1>3. CASE submit_verification \/ NotifyRead \/ NotifyWrite \/ Deliver \/ Expire \/ Settle
  BY <1>2, <1>3 DEF submit_verification, NotifyRead, NotifyWrite, Deliver, Expire, Settle
<1>4. CASE UNCHANGED vars
  BY <1>2, <1>4 DEF vars
<1> QED BY <1>1, <1>3, <1>4 DEF Next

(* No cookie without a deduction, once metering was found enabled.         *)
THEOREM NoFreeCookie == Spec => []CookieIsBilled
<1>1. Init => NonceInv /\ BillInv
  BY DEF Init, NonceInv, BillInv, Passed, Open, Requests
<1>2. TypeOK /\ NonceInv /\ BillInv /\ [Next]_vars => NonceInv' /\ BillInv'
  BY NonceStep, BillStep
<1> QED BY <1>1, <1>2, TypeCorrect, BillImplies, PTL DEF Spec

-----------------------------------------------------------------------------
(* The session record *)

(* A record that says "ProofOk" follows a challenge that left Pending.     *)
Trails(s) == s.state = "ProofOk" => st # "Pending"

SessionInv ==
    /\ "Pending" \notin late
    /\ Trails(session) /\ \A s \in visible : Trails(s)
    /\ \A h \in Requests : Trails(copy[h])
    /\ Trails(note.read)
    /\ note.to = "ProofOk" => st # "Pending"

LEMMA SessionImplies == SessionInv => SessionTrailsChallenge
BY DEF SessionInv, SessionTrailsChallenge, Trails

LEMMA NewTrails == Trails(NewSession) /\ Trails(NewSession)'
BY DEF Trails, NewSession

(* A challenge that left Pending does not return to it.                    *)
LEMMA PendingLeft ==
    ASSUME "Pending" \notin late, [Next]_vars
    PROVE  "Pending" \notin late' /\ (st # "Pending" => st' # "Pending")
<1>1. ASSUME NEW v \in {"ProofOkWaitingForRedeem", "Failed", "Expired", "Verified"},
             PutDone(v) \/ PutFailed(v)
      PROVE  "Pending" \notin late' /\ (st # "Pending" => st' # "Pending")
  BY <1>1 DEF PutDone, PutFailed, Stored
<1>2. ASSUME NEW found, get(found)
      PROVE  "Pending" \notin late' /\ (st # "Pending" => st' # "Pending")
  BY <1>2 DEF get
<1>3. CASE UNCHANGED storeVars
  BY <1>3 DEF storeVars
<1>4. CASE submit_verification
  BY <1>1, <1>4 DEF submit_verification
<1>5. CASE Deliver
  BY <1>5 DEF Deliver, Stored
<1>6. CASE Expire
  BY <1>6 DEF Expire, Store!Expire
<1>7. CASE NotifyRead \/ NotifyWrite \/ Settle \/ UNCHANGED vars
  BY <1>3, <1>7 DEF NotifyRead, NotifyWrite, Settle, vars
<1>8. ASSUME NEW h \in Requests, Request(h)
      PROVE  "Pending" \notin late' /\ (st # "Pending" => st' # "Pending")
  <2>1. CASE Load(h) \/ RedeemReread(h)
    BY <1>2, <2>1 DEF Load, RedeemReread
  <2>2. CASE RedeemWrite(h)
    BY <1>1, <2>2 DEF RedeemWrite
  <2>3. CASE ReadSession(h) \/ CountCheck(h) \/ handle_hosted_status(h) \/ CountAttempt(h)
               \/ ConsumeNonce(h) \/ RedeemExpiry(h) \/ RedeemBill(h)
    BY <1>3, <2>3 DEF ReadSession, CountCheck, handle_hosted_status, CountAttempt,
       ConsumeNonce, RedeemExpiry, RedeemBill
  <2> QED BY <1>8, <2>1, <2>2, <2>3 DEF Request
<1> QED BY <1>4, <1>5, <1>6, <1>7, <1>8 DEF Next

LEMMA WriteTrails ==
    ASSUME KvType, SessionInv, NEW s, NEW prior, update_session_kv_checked(s, prior), Trails(s),
           st # "Pending" => st' # "Pending"
    PROVE  Trails(session)' /\ \A v \in visible' : Trails(v)'
<1>1. session' \in {session, s} /\ visible' \subseteq visible \cup {s}
  BY DEF update_session_kv_checked, kvVars
<1> QED BY <1>1 DEF SessionInv, Trails

LEMMA SessionStep ==
    ASSUME TypeOK, SessionInv, [Next]_vars
    PROVE  SessionInv'
<1>0. KvType /\ WalletType /\ RequestType
  BY DEF TypeOK
<1>p. "Pending" \notin late' /\ (st # "Pending" => st' # "Pending")
  BY PendingLeft DEF SessionInv
<1>k. ASSUME UNCHANGED kvVars PROVE Trails(session)' /\ \A v \in visible' : Trails(v)'
  BY <1>k, <1>p DEF kvVars, SessionInv, Trails
<1>w. ASSUME UNCHANGED walletVars
      PROVE  Trails(note.read)' /\ (note'.to = "ProofOk" => st' # "Pending")
  BY <1>w, <1>p DEF walletVars, SessionInv, Trails
<1>c. ASSUME UNCHANGED copy PROVE \A h \in Requests : Trails(copy[h])'
  BY <1>c, <1>p DEF SessionInv, Trails
<1>n. ASSUME NEW h \in Requests, copy' = [copy EXCEPT ![h] = NewSession]
      PROVE  \A q \in Requests : Trails(copy[q])'
  BY <1>0, <1>n, <1>p DEF RequestType, SessionInv, Trails, NewSession
<1>1. ASSUME NEW h \in Requests, Request(h) PROVE SessionInv'
  <2>1. CASE ReadSession(h)
    <3>1. ASSUME NEW s \in visible, copy' = [copy EXCEPT ![h] = s]
          PROVE  \A q \in Requests : Trails(copy[q])'
      BY <1>0, <1>p, <3>1 DEF RequestType, SessionInv, Trails
    <3>2. \A q \in Requests : Trails(copy[q])'
      BY <1>n, <2>1, <3>1 DEF ReadSession, Finish
    <3>3. UNCHANGED <<kvVars, walletVars>>
      BY <2>1 DEF ReadSession
    <3> QED BY <1>p, <1>k, <1>w, <3>2, <3>3 DEF SessionInv
  <2>2. CASE CountCheck(h) \/ CountAttempt(h)
    <3>1. PICK s \in {[copy[h] EXCEPT !.status_check_count = @ + 1],
                      [copy[h] EXCEPT !.redeem_attempt_count = @ + 1]} :
            \/ UNCHANGED kvVars /\ Reply(h, "refused")
            \/ update_session_kv_checked(s, s.state) /\ copy' = [copy EXCEPT ![h] = NewSession]
      BY <2>2 DEF CountCheck, CountAttempt, Count
    <3>2. copy[h] \in HostedSession /\ Trails(copy[h])
      BY <1>0 DEF RequestType, SessionInv
    <3>3. s.state = copy[h].state
      BY <3>1, <3>2 DEF HostedSession
    <3>4. Trails(s)
      BY <3>2, <3>3 DEF Trails
    <3>5. Trails(session)' /\ \A v \in visible' : Trails(v)'
      BY <1>0, <1>p, <1>k, <3>1, <3>4, WriteTrails
    <3>6. \A q \in Requests : Trails(copy[q])'
      BY <1>n, <3>1 DEF Reply, Finish
    <3>7. UNCHANGED walletVars
      BY <2>2 DEF CountCheck, CountAttempt
    <3> QED BY <1>p, <1>w, <3>5, <3>6, <3>7 DEF SessionInv
  <2>3. CASE Load(h) \/ handle_hosted_status(h) \/ ConsumeNonce(h) \/ RedeemExpiry(h)
               \/ RedeemReread(h) \/ RedeemBill(h) \/ RedeemWrite(h)
    <3>1. UNCHANGED <<kvVars, walletVars>>
      BY <2>3 DEF Load, handle_hosted_status, ConsumeNonce, RedeemExpiry, RedeemReread,
         RedeemBill, RedeemWrite
    <3>2. UNCHANGED copy \/ copy' = [copy EXCEPT ![h] = NewSession]
      BY <2>3 DEF Load, handle_hosted_status, ConsumeNonce, RedeemExpiry, RedeemReread,
         RedeemBill, RedeemWrite, RedeemGate, consume_credits, Reply, Finish, Proceed
    <3> QED BY <1>p, <1>k, <1>w, <1>c, <1>n, <3>1, <3>2 DEF SessionInv
  <2> QED BY <1>1, <2>1, <2>2, <2>3 DEF Request
<1>2. CASE submit_verification
  <2>1. UNCHANGED <<kvVars, copy>>
    BY <1>2 DEF submit_verification, reqVars
  <2>2. \/ UNCHANGED note
        \/ note' = [NoNote EXCEPT !.stage = "due", !.to = "Expired"]
        \/ /\ note' = [NoNote EXCEPT !.stage = "due", !.to = "ProofOk"]
           /\ st' = "ProofOkWaitingForRedeem"
    BY <1>2 DEF submit_verification, Notify, PutDone, Stored
  <2>3. Trails(note.read)' /\ (note'.to = "ProofOk" => st' # "Pending")
    <3>1. CASE UNCHANGED note
      BY <1>p, <3>1 DEF SessionInv, Trails
    <3>2. CASE ~UNCHANGED note
      BY <2>2, <3>2, NewTrails DEF NoNote, Trails
    <3> QED BY <3>1, <3>2
  <2> QED BY <1>p, <1>k, <1>c, <2>1, <2>3 DEF SessionInv
<1>3. CASE NotifyRead
  <2>1. UNCHANGED <<kvVars, copy>>
    BY <1>3 DEF NotifyRead, reqVars
  <2>2. CASE note' = NoNote
    BY <1>p, <1>k, <1>c, <2>1, <2>2, NewTrails DEF NoNote, SessionInv, Trails
  <2>3. ASSUME NEW s \in visible, note' = [note EXCEPT !.stage = "read", !.read = s]
        PROVE  SessionInv'
    <3>1. note'.to = note.to /\ note'.read = s
      BY <1>0, <2>3 DEF WalletType
    <3> QED BY <1>p, <1>k, <1>c, <2>1, <3>1 DEF SessionInv, Trails
  <2> QED BY <1>3, <2>2, <2>3 DEF NotifyRead
<1>4. CASE NotifyWrite
  <2> DEFINE s == [note.read EXCEPT !.state = note.to]
  <2>1. Trails(s)
    BY <1>0 DEF WalletType, HostedSession, SessionInv, Trails
  <2>2. Trails(session)' /\ \A v \in visible' : Trails(v)'
    BY <1>0, <1>p, <1>4, <2>1, WriteTrails DEF NotifyWrite
  <2>3. UNCHANGED copy /\ note' = NoNote
    BY <1>4 DEF NotifyWrite, reqVars
  <2> QED BY <1>p, <1>c, <2>2, <2>3, NewTrails DEF NoNote, SessionInv, Trails
<1>5. CASE Settle
  <2>1. session' = session /\ visible' = {session} /\ UNCHANGED <<walletVars, copy>>
    BY <1>5 DEF Settle, reqVars
  <2>2. Trails(session)' /\ \A v \in visible' : Trails(v)'
    BY <1>p, <2>1 DEF SessionInv, Trails
  <2> QED BY <1>p, <1>w, <1>c, <2>1, <2>2 DEF SessionInv
<1>6. CASE Deliver \/ Expire \/ UNCHANGED vars
  <2>1. UNCHANGED <<kvVars, walletVars, copy>>
    BY <1>6 DEF Deliver, Expire, vars, reqVars
  <2> QED BY <1>p, <1>k, <1>w, <1>c, <2>1 DEF SessionInv
<1> QED BY <1>1, <1>2, <1>3, <1>4, <1>5, <1>6 DEF Next

(* The session record never runs ahead of the challenge.                   *)
THEOREM SessionNeverAhead == Spec => []SessionTrailsChallenge
<1>1. Init => SessionInv
  BY DEF Init, SessionInv, Trails, NewSession, NoNote
<1>2. TypeOK /\ SessionInv /\ [Next]_vars => SessionInv'
  BY SessionStep
<1> QED BY <1>1, <1>2, TypeCorrect, SessionImplies, PTL DEF Spec

-----------------------------------------------------------------------------
(* The cookie is backed.  What must not happen is a late put that changes  *)
(* the challenge after the cookie.  The submission has one put, and it has *)
(* arrived when a redemption finds the proof; the put of a redemption is   *)
(* late only if its answer was an error.                                   *)

ProofOk == "ProofOkWaitingForRedeem"

Accepted(r) == pc[r] \in {"gated", "billed", "unbilled"} \/ answer[r] = "ok"

ProofSeen ==
    \/ st \in {ProofOk, "Verified"}
    \/ \E h \in Requests : seen[h] = ProofOk
    \/ \E r \in Redeemers : Accepted(r)

UndecidedInv == decision = "none" => late = {} /\ ~ProofSeen

LateInv ==
    /\ \A u, v \in late : u # "Verified" /\ v # "Verified" => u = v
    /\ ProofSeen => late \subseteq {"Verified"}
    /\ "Verified" \in late =>
          late \subseteq {"Verified"} /\ nonce = "used" /\ \A r \in Redeemers : ~Passed(r)

BackInv == UndecidedInv /\ LateInv /\ CookieIsBacked

LEMMA AcceptedPassed == \A r \in Redeemers : Accepted(r) => Passed(r)
BY DEF Accepted, Passed, Open

(* A step that lets no put arrive, adds no late one and sees no proof that *)
(* was not seen.                                                           *)
LEMMA BackQuiet ==
    ASSUME TypeOK, NonceInv, BackInv, late' = late, decision' = decision,
           st' = st \/ (st' = "Absent" /\ expired'), expired => expired',
           nonce = "used" => nonce' = "used",
           ProofSeen' => ProofSeen,
           \A r \in Redeemers : answer'[r] = "ok" => answer[r] = "ok",
           \A r \in Redeemers : Passed(r)' => Passed(r) \/ nonce = "free"
    PROVE  BackInv'
<1>1. UndecidedInv'
  BY DEF BackInv, UndecidedInv
<1>2. LateInv'
  BY DEF BackInv, LateInv
<1>3. CookieIsBacked'
  BY DEF BackInv, CookieIsBacked
<1> QED BY <1>1, <1>2, <1>3 DEF BackInv

(* What a get leaves.                                                      *)
LEMMA GetQuiet ==
    ASSUME NEW found, get(found)
    PROVE  /\ late' = late /\ expired' = expired
           /\ st' = st \/ (st' = "Absent" /\ expired')
           /\ found \in ChallengeState => found = st
BY DEF get, ChallengeState, Store!Live, Store!Terminal

(* Every action of a request but its put.                                  *)
LEMMA RequestQuiet ==
    ASSUME TypeOK, NEW h \in Requests, Request(h), ~RedeemWrite(h)
    PROVE  /\ late' = late /\ expired' = expired /\ decision' = decision
           /\ st' = st \/ (st' = "Absent" /\ expired')
           /\ nonce = "used" => nonce' = "used"
           /\ \A r \in Redeemers : Passed(r)' => Passed(r) \/ nonce = "free"
           /\ \A r \in Redeemers : answer'[r] = "ok" => answer[r] = "ok"
           /\ ProofSeen' => ProofSeen
<1>0. RequestType /\ BillType /\ h \in Requests
  BY DEF TypeOK
<1>o. \A q \in Requests : q # h => pc'[q] = pc[q] /\ answer'[q] = answer[q] /\ seen'[q] = seen[q]
  BY <1>0, OwnProgress
<1>r. Redeemers \subseteq Requests
  BY DEF Requests
<1>1. /\ late' = late /\ expired' = expired /\ decision' = decision
      /\ st' = st \/ (st' = "Absent" /\ expired')
  <2>1. CASE Load(h) \/ RedeemReread(h)
    BY <2>1, GetQuiet DEF Load, RedeemReread, walletVars
  <2>2. CASE ReadSession(h) \/ CountCheck(h) \/ handle_hosted_status(h) \/ CountAttempt(h)
               \/ ConsumeNonce(h) \/ RedeemExpiry(h) \/ RedeemBill(h)
    BY <2>2 DEF ReadSession, CountCheck, handle_hosted_status, CountAttempt,
       ConsumeNonce, RedeemExpiry, RedeemBill, storeVars, walletVars
  <2> QED BY <2>1, <2>2 DEF Request
<1>2. nonce = "used" => nonce' = "used"
  BY <1>0, NonceKept
<1>3. ASSUME NEW r \in Redeemers, Passed(r)' PROVE Passed(r) \/ nonce = "free"
  <2>1. CASE r = h
    BY <1>0, <1>3, <2>1, PassesAtNonce
  <2>2. CASE r # h
    BY <1>o, <1>r, <1>3, <2>2 DEF Passed
  <2> QED BY <2>1, <2>2
<1>4. h \in Redeemers => (answer'[h] = "ok" => answer[h] = "ok")
  BY <1>0, RequestAssumption DEF Request, ReadSession, Load, CountCheck, handle_hosted_status,
     CountAttempt, ConsumeNonce, RedeemExpiry, RedeemGate, RedeemReread, RedeemBill,
     consume_credits, Reply, Finish, Proceed, Count, RequestType
<1>5. \A r \in Redeemers : answer'[r] = "ok" => answer[r] = "ok"
  BY <1>o, <1>r, <1>4
<1>6. (h \in Redeemers /\ Accepted(h)') \/ seen'[h] = ProofOk => ProofSeen
  <2>1. CASE ReadSession(h) \/ CountCheck(h) \/ handle_hosted_status(h) \/ CountAttempt(h)
               \/ ConsumeNonce(h)
    <3>1. pc'[h] \notin {"gated", "billed", "unbilled"}
      BY <1>0, <2>1 DEF ReadSession, CountCheck, handle_hosted_status, CountAttempt,
         ConsumeNonce, Reply, Finish, Proceed, Count, Goto, RequestType
    <3>2. seen'[h] = seen[h] \/ seen'[h] = "Absent"
      BY <1>0, <2>1 DEF ReadSession, CountCheck, handle_hosted_status, CountAttempt,
         ConsumeNonce, Reply, Finish, Proceed, Count, RequestType
    <3> QED BY <1>0, <1>5, <3>1, <3>2 DEF Accepted, ProofSeen, ProofOk
  <2>2. CASE Load(h)
    <3>1. PICK found \in Found :
            /\ get(found)
            /\ \/ found = "Absent" /\ Reply(h, "refused")
               \/ found = "Failure" /\ Reply(h, "error")
               \/ /\ found \in ChallengeState
                  /\ seen' = [seen EXCEPT ![h] = found]
                  /\ Goto(h, "loaded")
                  /\ UNCHANGED <<copy, answer, told, known>>
      BY <2>2 DEF Load
    <3>2. found \in ChallengeState => found = st
      BY <3>1, GetQuiet
    <3>3. pc'[h] \in {"loaded", "done"}
      BY <1>0, <3>1 DEF Reply, Finish, Goto, RequestType
    <3>4. seen'[h] \in {st, "Absent"}
      BY <1>0, <3>1, <3>2 DEF Reply, Finish, RequestType
    <3> QED BY <1>0, <1>5, <3>3, <3>4 DEF Accepted, ProofSeen, ProofOk
  <2>3. ASSUME NEW c, RedeemGate(h, c), c = ProofOk => ProofSeen
        PROVE  (h \in Redeemers /\ Accepted(h)') \/ seen'[h] = ProofOk => ProofSeen
    <3>1. seen'[h] = "Absent"
      BY <1>0, <2>3 DEF RedeemGate, Reply, Finish, RequestType
    <3>2. c = ProofOk \/ pc'[h] = "done"
      BY <1>0, <2>3 DEF RedeemGate, Reply, Finish, Goto, RequestType, ProofOk
    <3> QED BY <1>0, <1>5, <2>3, <3>1, <3>2 DEF Accepted, ProofSeen, ProofOk
  <2>4. CASE RedeemExpiry(h)
    <3>1. CASE RedeemGate(h, seen[h])
      BY <1>0, <2>3, <3>1 DEF ProofSeen
    <3>2. CASE Reply(h, "refused") \/ Proceed(h, "pending")
      <4>1. pc'[h] \in {"done", "pending"} /\ (seen'[h] = seen[h] \/ seen'[h] = "Absent")
        BY <1>0, <3>2 DEF Reply, Finish, Proceed, Goto, RequestType
      <4> QED BY <1>0, <1>5, <4>1 DEF Accepted, ProofSeen, ProofOk
    <3> QED BY <2>4, <3>1, <3>2 DEF RedeemExpiry
  <2>5. CASE RedeemReread(h)
    <3>1. PICK found \in Found :
            get(found) /\ RedeemGate(h, IF found \in ChallengeState THEN found ELSE seen[h])
      BY <2>5 DEF RedeemReread
    <3>2. found \in ChallengeState => found = st
      BY <3>1, GetQuiet
    <3> DEFINE c == IF found \in ChallengeState THEN found ELSE seen[h]
    <3>3. c = ProofOk => ProofSeen
      BY <1>0, <3>2 DEF ProofSeen
    <3>4. RedeemGate(h, c)
      BY <3>1
    <3> HIDE DEF c
    <3> QED BY <2>3, <3>3, <3>4
  <2>6. CASE RedeemBill(h)
    <3>1. ProofSeen
      BY <2>6 DEF RedeemBill, ProofSeen, Accepted
    <3> QED BY <3>1
  <2> QED BY <2>1, <2>2, <2>4, <2>5, <2>6 DEF Request
<1>7. ProofSeen' => ProofSeen
  <2>1. ASSUME NEW q \in Requests, seen'[q] = ProofOk PROVE ProofSeen
    BY <1>o, <1>6, <2>1 DEF ProofSeen
  <2>2. ASSUME NEW r \in Redeemers, Accepted(r)' PROVE ProofSeen
    BY <1>o, <1>r, <1>6, <2>2 DEF ProofSeen, Accepted
  <2>3. st' \in {ProofOk, "Verified"} => ProofSeen
    BY <1>1 DEF ProofSeen, ProofOk
  <2> QED BY <2>1, <2>2, <2>3 DEF ProofSeen
<1> QED BY <1>1, <1>2, <1>3, <1>5, <1>7

LEMMA BackRequestStep ==
    ASSUME TypeOK, NonceInv, BackInv, NEW h \in Requests, Request(h), ~RedeemWrite(h)
    PROVE  BackInv'
BY RequestQuiet, BackQuiet

(* The put of the verdict.  No put is on its way when it is sent.          *)
LEMMA BackWriteStep ==
    ASSUME TypeOK, NonceInv, BackInv, NEW h \in Requests, RedeemWrite(h)
    PROVE  BackInv'
<1>0. /\ RequestType /\ BillType
      /\ h \in Redeemers /\ Accepted(h) /\ Passed(h)
  BY DEF TypeOK, RedeemWrite, Accepted, Passed, Open
<1>1. ProofSeen /\ decision # "none" /\ late \subseteq {"Verified"} /\ "Verified" \notin late
  BY <1>0 DEF ProofSeen, BackInv, UndecidedInv, LateInv
<1>2. late = {}
  BY <1>1
<1>3. nonce = "used" /\ nonce' = nonce /\ decision' = decision
  BY <1>0 DEF NonceInv, RedeemWrite, walletVars
<1>4. \A q \in Redeemers : q # h => ~Passed(q) /\ ~Passed(q)'
  BY <1>0, OwnProgress DEF NonceInv, Passed, Request, Requests
<1>5. UndecidedInv'
  BY <1>1, <1>3 DEF UndecidedInv
<1>6. CASE PutDone("Verified") /\ Reply(h, "ok")
  <2>1. late' = {} /\ st' = "Verified"
    BY <1>2, <1>6 DEF PutDone, Stored
  <2> QED BY <1>5, <2>1 DEF BackInv, LateInv, CookieIsBacked
<1>7. CASE PutFailed("Verified") /\ Reply(h, "error")
  <2>1. late' = {"Verified"}
    BY <1>2, <1>7 DEF PutFailed
  <2>2. pc'[h] = "done" /\ answer'[h] = "error"
    BY <1>0, <1>7 DEF Reply, Finish, Goto, RequestType
  <2>3. \A q \in Redeemers : ~Passed(q)'
    BY <1>4, <2>2 DEF Passed, Open
  <2>4. LateInv'
    BY <1>3, <2>1, <2>3 DEF LateInv
  <2>5. CookieIsBacked'
    BY <2>3 DEF CookieIsBacked, Passed
  <2> QED BY <1>5, <2>4, <2>5 DEF BackInv
<1> QED BY <1>6, <1>7 DEF RedeemWrite

(* The one put of the submission.                                          *)
LEMMA BackSubmitStep ==
    ASSUME TypeOK, BackInv, submit_verification
    PROVE  BackInv'
<1>1. decision = "none" /\ decision' # "none" /\ late = {} /\ ~ProofSeen
  BY DEF submit_verification, BackInv, UndecidedInv
<1>2. UNCHANGED <<pc, seen, answer, nonce>>
  BY DEF submit_verification, reqVars
<1>3. \A r \in Redeemers : answer'[r] # "ok"
  BY <1>1, <1>2 DEF ProofSeen, Accepted
<1>4. PICK v \in {ProofOk, "Failed", "Expired"} : PutDone(v) \/ PutFailed(v)
  BY DEF submit_verification, ProofOk
<1>5. CASE PutDone(v)
  <2>1. late' = {}
    BY <1>1, <1>5 DEF PutDone
  <2> QED BY <1>1, <1>3, <2>1 DEF BackInv, UndecidedInv, LateInv, CookieIsBacked
<1>6. CASE PutFailed(v)
  <2>1. late' = {v} /\ st' = st /\ v # "Verified"
    BY <1>1, <1>6 DEF PutFailed, ProofOk
  <2>2. ~ProofSeen'
    BY <1>1, <1>2, <2>1 DEF ProofSeen, Accepted
  <2> QED BY <1>1, <1>3, <2>1, <2>2 DEF BackInv, UndecidedInv, LateInv, CookieIsBacked
<1> QED BY <1>4, <1>5, <1>6

(* A late put arrives.                                                     *)
LEMMA BackDeliverStep ==
    ASSUME BackInv, Deliver
    PROVE  BackInv'
<1>1. PICK v \in late : Stored(v) /\ late' = late \ {v}
  BY DEF Deliver
<1>2. UNCHANGED <<pc, seen, answer, nonce, decision>>
  BY DEF Deliver, reqVars, walletVars
<1>3. decision' # "none" /\ (st' = v \/ st' = st)
  BY <1>1, <1>2 DEF BackInv, UndecidedInv, Stored
<1>4. UndecidedInv'
  BY <1>3 DEF UndecidedInv
<1>5. \A r \in Redeemers : Passed(r)' = Passed(r)
  BY <1>2 DEF Passed
<1>6. ProofSeen' => ProofSeen \/ v \in {ProofOk, "Verified"}
  BY <1>2, <1>3 DEF ProofSeen, Accepted
<1>7. ProofSeen' => late' \subseteq {"Verified"}
  <2>1. CASE ProofSeen
    BY <1>1, <2>1 DEF BackInv, LateInv
  <2>2. CASE v \in {ProofOk, "Verified"}
    <3>1. ProofOk # "Verified"
      BY DEF ProofOk
    <3>2. late' \subseteq {"Verified"}
      BY <1>1, <2>2, <3>1 DEF BackInv, LateInv
    <3> QED BY <3>2
  <2> QED BY <1>6, <2>1, <2>2
<1>8. LateInv'
  BY <1>1, <1>2, <1>5, <1>7 DEF BackInv, LateInv
<1>9. \A r \in Redeemers : answer[r] # "ok"
  <2> SUFFICES ASSUME NEW r \in Redeemers, answer[r] = "ok" PROVE FALSE
    OBVIOUS
  <2>1. Passed(r) /\ ProofSeen
    BY DEF Passed, ProofSeen, Accepted
  <2> QED BY <1>1, <2>1 DEF BackInv, LateInv
<1>10. CookieIsBacked'
  BY <1>2, <1>9 DEF CookieIsBacked
<1> QED BY <1>4, <1>8, <1>10 DEF BackInv

LEMMA BackStep ==
    ASSUME TypeOK, NonceInv, BackInv, [Next]_vars
    PROVE  BackInv'
<1>1. ASSUME NEW h \in Requests, Request(h) PROVE BackInv'
  BY <1>1, BackRequestStep, BackWriteStep
<1>2. CASE Expire \/ NotifyRead \/ NotifyWrite \/ Settle \/ UNCHANGED vars
  <2>1. UNCHANGED <<st, late, decision, nonce, pc, seen, answer>>
    BY <1>2 DEF Expire, NotifyRead, NotifyWrite, Settle, vars, storeVars, walletVars,
       reqVars, Store!Expire
  <2>2. expired' = TRUE \/ expired' = expired
    BY <1>2 DEF Expire, NotifyRead, NotifyWrite, Settle, vars, storeVars, Store!Expire
  <2>3. expired => expired'
    BY <2>2, Zenon
  <2>4. (ProofSeen' => ProofSeen) /\ \A r \in Redeemers : Passed(r)' => Passed(r)
    BY <2>1 DEF ProofSeen, Accepted, Passed
  <2> QED BY <2>1, <2>3, <2>4, BackQuiet
<1> QED BY <1>1, <1>2, BackSubmitStep, BackDeliverStep DEF Next

(* A cookie stands for a stored verdict until the challenge has expired.   *)
THEOREM CookieStands == Spec => []CookieIsBacked
<1>1. Init => NonceInv /\ BackInv
  BY DEF Init, NonceInv, Passed, Open, Requests, BackInv, UndecidedInv, LateInv, ProofSeen,
     ProofOk, Accepted, CookieIsBacked
<1>2. TypeOK /\ NonceInv /\ BackInv /\ [Next]_vars => NonceInv' /\ BackInv'
  BY NonceStep, BackStep
<1>3. BackInv => CookieIsBacked
  BY DEF BackInv
<1> QED BY <1>1, <1>2, <1>3, TypeCorrect, PTL DEF Spec

-----------------------------------------------------------------------------
(* Clients see progress.  Answers rest on what was read of the challenge   *)
(* after the request began; what was told before is still true then.       *)

KnownInv == \A h \in Requests :
    /\ known[h] # "nothing" => told # "nothing"
    /\ known[h] = "verified" => told = "verified"

SeenInv == \A h \in Requests :
    /\ pc[h] \in {"loaded", "pending"} <=> seen[h] # "Absent"
    /\ known[h] # "nothing" => seen[h] # "Pending"
    /\ known[h] = "verified" => seen[h] \in {"Verified", "Absent"}

MovedInv ==
    told # "nothing" \/ (\E h \in Requests : seen[h] \notin {"Pending", "Absent"})
       => st # "Pending"

VerdictSeen ==
    st = "Verified" \/ told = "verified" \/ \E h \in Requests : seen[h] = "Verified"

VerdictInv == VerdictSeen =>
    /\ st = "Verified" \/ (st = "Absent" /\ expired)
    /\ late = {} /\ decision # "none"
    /\ nonce = "used" /\ \A r \in Redeemers : pc[r] \notin Open

ProgressInv == KnownInv /\ SeenInv /\ MovedInv /\ VerdictInv /\ ClientsSeeProgress

LEMMA TellsMore ==
    ASSUME NEW a
    PROVE  /\ told # "nothing" => TellsOf(a) # "nothing"
           /\ told = "verified" => TellsOf(a) = "verified"
           /\ a \notin {"ok", "verified", "proof_ok"} => TellsOf(a) = told
           /\ a = "proof_ok" => TellsOf(a) \in {"proof_ok", told}
BY DEF TellsOf

(* An answer that tells nothing new about the challenge.                   *)
PlainAnswers == {"none", "refused", "error"}

(* A step of request h that changes nothing of the challenge, unless a get *)
(* deletes it, and answers nothing that depends on it.                     *)
LEMMA ProgressPlain ==
    ASSUME TypeOK, ProgressInv, NEW h \in Requests,
           late' = late, decision' = decision, expired => expired',
           st' = st \/ (st' = "Absent" /\ expired'),
           told' = told,
           \A q \in Requests : q # h =>
              pc'[q] = pc[q] /\ answer'[q] = answer[q] /\ seen'[q] = seen[q] /\ known'[q] = known[q],
           \/ seen'[h] = "Absent"
           \/ seen'[h] = seen[h] /\ known'[h] = known[h]
           \/ seen'[h] = st /\ st # "Absent" /\ known'[h] = known[h],
           known'[h] \in {known[h], told},
           pc'[h] \in {"loaded", "pending"} <=> seen'[h] # "Absent",
           nonce = "used" => nonce' = "used",
           h \in Redeemers => (pc'[h] \in Open => pc[h] \in Open \/ nonce = "free"),
           \/ answer'[h] \in PlainAnswers
           \/ answer'[h] = answer[h] /\ known'[h] = known[h]
           \/ answer'[h] = "not_ready" /\ known'[h] = "nothing"
    PROVE  ProgressInv'
<1> USE DEF ProgressInv
<1>1. KnownInv'
  BY DEF KnownInv
<1>2. VerdictSeen' => VerdictSeen
  BY DEF VerdictSeen
<1>3. SeenInv'
  <2>1. CASE seen'[h] = "Absent" \/ (seen'[h] = seen[h] /\ known'[h] = known[h])
    BY <2>1 DEF SeenInv
  <2>2. CASE seen'[h] = st /\ st # "Absent" /\ known'[h] = known[h]
    <3>1. known[h] # "nothing" => st # "Pending"
      BY DEF KnownInv, MovedInv
    <3>2. known[h] = "verified" => st = "Verified"
      BY <2>2 DEF KnownInv, VerdictInv, VerdictSeen
    <3> QED BY <2>2, <3>1, <3>2 DEF SeenInv
  <2> QED BY <2>1, <2>2
<1>4. MovedInv'
  BY DEF MovedInv
<1>5. VerdictInv'
  <2>1. \A r \in Redeemers : pc'[r] \in Open => pc[r] \in Open \/ nonce = "free"
    BY DEF Requests
  <2> QED BY <1>2, <2>1 DEF VerdictInv
<1>6. ClientsSeeProgress'
  BY DEF ClientsSeeProgress, PlainAnswers
<1> QED BY <1>1, <1>3, <1>4, <1>5, <1>6

(* The steps of a request up to the read of the challenge, and the bill.   *)
LEMMA ProgressEarly ==
    ASSUME TypeOK, ProgressInv, NEW h \in Requests,
           \/ ReadSession(h) \/ CountCheck(h) \/ CountAttempt(h) \/ ConsumeNonce(h)
           \/ RedeemBill(h)
    PROVE  ProgressInv'
<1>0. RequestType /\ BillType
  BY DEF TypeOK
<1>1. \A q \in Requests : q # h =>
         pc'[q] = pc[q] /\ answer'[q] = answer[q] /\ seen'[q] = seen[q] /\ known'[q] = known[q]
  BY <1>0, OwnProgress DEF Request
<1>2. UNCHANGED <<st, expired, late, decision>>
  BY DEF ReadSession, CountCheck, CountAttempt, ConsumeNonce, RedeemBill, walletVars, storeVars
<1>3. told' = told
  <2>1. TellsOf("refused") = told /\ TellsOf("error") = told
    BY TellsMore
  <2> QED BY <2>1 DEF ReadSession, CountCheck, CountAttempt, ConsumeNonce, RedeemBill,
                      consume_credits, Reply, Finish, Proceed, Count
<1>4. seen[h] = "Absent"
  BY DEF ProgressInv, SeenInv, ReadSession, CountCheck, CountAttempt, ConsumeNonce, RedeemBill
<1>5. seen'[h] = "Absent"
  BY <1>0, <1>4 DEF ReadSession, CountCheck, CountAttempt, ConsumeNonce, RedeemBill,
     consume_credits, Reply, Finish, Proceed, Count, RequestType
<1>6. pc'[h] \in {"read", "counted", "admitted", "billed", "unbilled", "done"}
  BY <1>0 DEF ReadSession, CountCheck, CountAttempt, ConsumeNonce, RedeemBill,
     consume_credits, Reply, Finish, Proceed, Count, Goto, RequestType
<1>7. known'[h] \in {known[h], told}
  BY <1>0 DEF ReadSession, CountCheck, CountAttempt, ConsumeNonce, RedeemBill,
     consume_credits, Reply, Finish, Proceed, Count, RequestType
<1>8. answer'[h] \in PlainAnswers \/ (answer'[h] = answer[h] /\ known'[h] = known[h])
  BY <1>0 DEF ReadSession, CountCheck, CountAttempt, ConsumeNonce, RedeemBill,
     consume_credits, Reply, Finish, Proceed, Count, RequestType, PlainAnswers
<1>9. nonce = "used" => nonce' = "used"
  BY <1>0, NonceKept DEF Request
<1>10. h \in Redeemers => (pc'[h] \in Open => pc[h] \in Open \/ nonce = "free")
  BY <1>0, RequestAssumption DEF ReadSession, CountCheck, CountAttempt, ConsumeNonce, RedeemBill,
     consume_credits, Reply, Finish, Proceed, Count, Goto, RequestType, Open
<1> QED BY <1>1, <1>2, <1>3, <1>4, <1>5, <1>6, <1>7, <1>8, <1>9, <1>10, ProgressPlain

(* What a request changes between its read of the challenge and its gate.  *)
ReadStep(h) ==
    /\ seen'[h] \in {seen[h], "Absent"} \/ (seen'[h] = st /\ st # "Absent")
    /\ known'[h] = known[h] /\ told' = told
    /\ pc'[h] \in {"loaded", "pending"} <=> seen'[h] # "Absent"
    /\ \/ answer'[h] \in PlainAnswers
       \/ answer'[h] = answer[h]
       \/ answer'[h] = "not_ready" /\ known'[h] = "nothing"

LEMMA GateReads ==
    ASSUME RequestType, NEW h \in Requests, NEW c, RedeemGate(h, c),
           c = "Pending" => known[h] = "nothing"
    PROVE  ReadStep(h)
<1>1. TellsOf("refused") = told /\ TellsOf("not_ready") = told
  BY TellsMore
<1>2. CASE Reply(h, "not_ready") /\ c = "Pending"
  BY <1>1, <1>2 DEF Reply, Finish, Goto, RequestType, ReadStep
<1>3. CASE Reply(h, "refused")
  BY <1>1, <1>3 DEF Reply, Finish, Goto, RequestType, ReadStep, PlainAnswers
<1>4. CASE /\ Goto(h, "gated")
           /\ seen' = [seen EXCEPT ![h] = "Absent"]
           /\ UNCHANGED <<copy, answer, told, known>>
  BY <1>4 DEF Goto, RequestType, ReadStep
<1> QED BY <1>2, <1>3, <1>4 DEF RedeemGate

(* Read, expiry, second read and gate.                                     *)
LEMMA ProgressRead ==
    ASSUME TypeOK, ProgressInv, NEW h \in Requests,
           Load(h) \/ RedeemExpiry(h) \/ RedeemReread(h)
    PROVE  ProgressInv'
<1>0. RequestType /\ BillType
  BY DEF TypeOK
<1>1. \A q \in Requests : q # h =>
         pc'[q] = pc[q] /\ answer'[q] = answer[q] /\ seen'[q] = seen[q] /\ known'[q] = known[q]
  BY <1>0, OwnProgress DEF Request
<1>2. /\ late' = late /\ decision' = decision /\ expired' = expired
      /\ st' = st \/ (st' = "Absent" /\ expired')
  BY GetQuiet DEF Load, RedeemExpiry, RedeemReread, walletVars, storeVars
<1>3. st = "Pending" => known[h] = "nothing"
  BY DEF ProgressInv, KnownInv, MovedInv
<1>4. seen[h] = "Pending" => known[h] = "nothing"
  BY DEF ProgressInv, SeenInv
<1>t. TellsOf("refused") = told /\ TellsOf("error") = told
  BY TellsMore
<1>5. ReadStep(h)
  <2>1. CASE Load(h)
    <3>1. PICK found \in Found :
            /\ get(found)
            /\ \/ found = "Absent" /\ Reply(h, "refused")
               \/ found = "Failure" /\ Reply(h, "error")
               \/ /\ found \in ChallengeState
                  /\ seen' = [seen EXCEPT ![h] = found]
                  /\ Goto(h, "loaded")
                  /\ UNCHANGED <<copy, answer, told, known>>
      BY <2>1 DEF Load
    <3>2. CASE Reply(h, "refused") \/ Reply(h, "error")
      BY <1>0, <1>t, <3>2 DEF Reply, Finish, Goto, RequestType, ReadStep, PlainAnswers
    <3>3. CASE /\ found \in ChallengeState
               /\ seen' = [seen EXCEPT ![h] = found]
               /\ Goto(h, "loaded")
               /\ UNCHANGED <<copy, answer, told, known>>
      <4>1. found = st /\ st # "Absent"
        BY <3>1, <3>3, GetQuiet DEF ChallengeState, Store!Live, Store!Terminal
      <4> QED BY <1>0, <3>3, <4>1 DEF Goto, RequestType, ReadStep
    <3> QED BY <3>1, <3>2, <3>3
  <2>2. CASE RedeemExpiry(h)
    <3>1. pc[h] = "loaded" /\ seen[h] # "Absent"
      BY <2>2 DEF RedeemExpiry, ProgressInv, SeenInv
    <3>2. CASE Reply(h, "refused")
      BY <1>0, <1>t, <3>2 DEF Reply, Finish, Goto, RequestType, ReadStep, PlainAnswers
    <3>3. CASE Proceed(h, "pending")
      BY <1>0, <3>1, <3>3 DEF Proceed, Goto, RequestType, ReadStep
    <3>4. CASE RedeemGate(h, seen[h])
      BY <1>0, <1>4, <3>4, GateReads
    <3> QED BY <2>2, <3>2, <3>3, <3>4 DEF RedeemExpiry
  <2>3. CASE RedeemReread(h)
    <3>1. PICK found \in Found :
            get(found) /\ RedeemGate(h, IF found \in ChallengeState THEN found ELSE seen[h])
      BY <2>3 DEF RedeemReread
    <3>2. found \in ChallengeState => found = st
      BY <3>1, GetQuiet
    <3> DEFINE c == IF found \in ChallengeState THEN found ELSE seen[h]
    <3>3. c = "Pending" => known[h] = "nothing"
      BY <1>3, <1>4, <3>2
    <3>4. RedeemGate(h, c)
      BY <3>1
    <3> HIDE DEF c
    <3> QED BY <1>0, <3>3, <3>4, GateReads
  <2> QED BY <2>1, <2>2, <2>3
<1>6. UNCHANGED nonce
  BY DEF Load, RedeemExpiry, RedeemReread
<1>7. pc[h] \in Open
  BY DEF Load, RedeemExpiry, RedeemReread, Open
<1> QED BY <1>1, <1>2, <1>5, <1>6, <1>7, ProgressPlain DEF ReadStep

(* A poll reports what it read.                                            *)
LEMMA ProgressReport ==
    ASSUME TypeOK, ProgressInv, NEW h \in Requests, handle_hosted_status(h)
    PROVE  ProgressInv'
<1> USE DEF ProgressInv
<1>0. RequestType
  BY DEF TypeOK
<1>1. \A q \in Requests : q # h =>
         pc'[q] = pc[q] /\ answer'[q] = answer[q] /\ seen'[q] = seen[q] /\ known'[q] = known[q]
  BY <1>0, OwnProgress DEF Request
<1>2. PICK a \in Report(h) : Reply(h, a)
  BY DEF handle_hosted_status
<1>3. /\ UNCHANGED <<st, expired, late, decision, nonce, known>>
      /\ pc'[h] = "done" /\ answer'[h] = a /\ seen'[h] = "Absent" /\ told' = TellsOf(a)
  BY <1>0, <1>2 DEF handle_hosted_status, storeVars, walletVars, Reply, Finish, Goto, RequestType
<1>4. pc[h] = "loaded" /\ seen[h] \in ChallengeState
  BY <1>0 DEF handle_hosted_status, SeenInv, RequestType
<1>5. /\ a = "pending" => seen[h] = "Pending"
      /\ a = "proof_ok" => seen[h] = "ProofOkWaitingForRedeem"
      /\ a = "verified" => seen[h] = "Verified"
      /\ seen[h] = "Verified" => a = "verified"
      /\ a \in {"pending", "proof_ok", "verified", "expired"}
  BY <1>4 DEF Report, from_challenge_state, ChallengeState, Store!Live, Store!Terminal
<1>6. KnownInv'
  BY <1>3, TellsMore DEF KnownInv
<1>7. SeenInv'
  BY <1>1, <1>3 DEF SeenInv
<1>8. told' # "nothing" => told # "nothing" \/ seen[h] \notin {"Pending", "Absent"}
  BY <1>3, <1>5, TellsMore
<1>9. MovedInv'
  BY <1>1, <1>3, <1>8 DEF MovedInv
<1>10. told' = "verified" => told = "verified" \/ seen[h] = "Verified"
  BY <1>3, <1>5, TellsMore
<1>11. VerdictSeen' => VerdictSeen
  BY <1>1, <1>3, <1>10 DEF VerdictSeen
<1>12. \A r \in Redeemers : pc'[r] \in Open => pc[r] \in Open
  BY <1>1, <1>3 DEF Requests, Open
<1>13. VerdictInv'
  BY <1>3, <1>11, <1>12 DEF VerdictInv
<1>14. ClientsSeeProgress'
  <2>1. known[h] # "nothing" => a # "pending"
    BY <1>5 DEF SeenInv
  <2>2. known[h] = "verified" => a = "verified"
    BY <1>4, <1>5 DEF SeenInv, ChallengeState, Store!Live, Store!Terminal
  <2> QED BY <1>1, <1>3, <1>5, <2>1, <2>2 DEF ClientsSeeProgress
<1> QED BY <1>6, <1>7, <1>9, <1>13, <1>14

(* The verdict of the one redemption that passed the nonce.                *)
LEMMA ProgressWrite ==
    ASSUME TypeOK, NonceInv, BackInv, SessionInv, ProgressInv, [Next]_vars,
           NEW h \in Requests, RedeemWrite(h)
    PROVE  ProgressInv'
<1> USE DEF ProgressInv
<1>0. /\ RequestType /\ BillType /\ h \in Redeemers
      /\ Accepted(h) /\ Passed(h) /\ pc[h] \in Open
  BY DEF TypeOK, RedeemWrite, Accepted, Passed, Open
<1>1. \A q \in Requests : q # h =>
         pc'[q] = pc[q] /\ answer'[q] = answer[q] /\ seen'[q] = seen[q] /\ known'[q] = known[q]
  BY <1>0, OwnProgress DEF Request
<1>2. ~VerdictSeen
  BY <1>0 DEF VerdictInv
<1>3. decision # "none" /\ late = {}
  BY <1>0 DEF ProofSeen, BackInv, UndecidedInv, LateInv
<1>4. nonce = "used" /\ nonce' = nonce /\ decision' = decision /\ known' = known
  BY <1>0 DEF NonceInv, RedeemWrite, walletVars, Reply
<1>5. pc'[h] = "done" /\ seen'[h] = "Absent"
  BY <1>0 DEF RedeemWrite, Reply, Finish, Goto, RequestType
<1>6. \A r \in Redeemers : pc'[r] \notin Open
  BY <1>0, <1>1, <1>5 DEF NonceInv, Passed, Open, Requests
<1>7. SeenInv'
  BY <1>1, <1>4, <1>5 DEF SeenInv
<1>8. CASE PutDone("Verified") /\ Reply(h, "ok")
  <2>1. st' = "Verified" /\ late' = {} /\ told' = "verified" /\ answer'[h] = "ok"
    BY <1>0, <1>3, <1>8 DEF PutDone, Stored, Reply, Finish, TellsOf, RequestType
  <2>2. KnownInv' /\ MovedInv'
    BY <2>1 DEF KnownInv, MovedInv
  <2>3. VerdictInv'
    BY <1>3, <1>4, <1>6, <2>1 DEF VerdictInv
  <2>4. known[h] # "verified"
    BY <1>2 DEF KnownInv, VerdictSeen
  <2>5. ClientsSeeProgress'
    BY <1>1, <1>4, <2>1, <2>4 DEF ClientsSeeProgress
  <2> QED BY <1>7, <2>2, <2>3, <2>5
<1>9. CASE PutFailed("Verified") /\ Reply(h, "error")
  <2>1. st' = st /\ told' = told /\ answer'[h] = "error"
    BY <1>0, <1>9, TellsMore DEF PutFailed, Reply, Finish, RequestType
  <2>2. KnownInv' /\ MovedInv'
    BY <1>1, <1>4, <1>5, <2>1 DEF KnownInv, MovedInv
  <2>3. ~VerdictSeen'
    BY <1>1, <1>2, <1>5, <2>1 DEF VerdictSeen
  <2>4. ClientsSeeProgress'
    BY <1>1, <1>4, <2>1 DEF ClientsSeeProgress
  <2> QED BY <1>7, <2>2, <2>3, <2>4 DEF VerdictInv
<1> QED BY <1>8, <1>9 DEF RedeemWrite

(* What happens besides the requests.                                      *)
LEMMA ProgressElsewhere ==
    ASSUME BackInv, SessionInv, ProgressInv, [Next]_vars,
           \/ submit_verification \/ NotifyRead \/ NotifyWrite
           \/ Deliver \/ Expire \/ Settle \/ UNCHANGED vars
    PROVE  ProgressInv'
<1> USE DEF ProgressInv
<1>1. UNCHANGED <<pc, seen, answer, told, known, nonce>>
  BY DEF submit_verification, NotifyRead, NotifyWrite, Deliver, Expire, Settle, reqVars, vars
<1>2. st # "Pending" => st' # "Pending"
  BY PendingLeft DEF SessionInv
<1>3. KnownInv' /\ SeenInv' /\ MovedInv' /\ ClientsSeeProgress'
  BY <1>1, <1>2 DEF KnownInv, SeenInv, MovedInv, ClientsSeeProgress
<1>4. VerdictInv'
  <2>1. CASE submit_verification
    <3>1. ~VerdictSeen
      BY <2>1 DEF submit_verification, VerdictInv
    <3>2. st' = st \/ st' # "Verified"
      BY <2>1 DEF submit_verification, PutDone, PutFailed, Stored
    <3>3. ~VerdictSeen'
      BY <1>1, <3>1, <3>2 DEF VerdictSeen
    <3> QED BY <3>3 DEF VerdictInv
  <2>2. CASE Deliver
    <3>1. PICK v \in late : Stored(v) /\ late' = late \ {v}
      BY <2>2 DEF Deliver
    <3>2. ~VerdictSeen
      BY <3>1 DEF VerdictInv
    <3>3. decision' = decision /\ decision # "none"
      BY <2>2, <3>1 DEF Deliver, walletVars, BackInv, UndecidedInv
    <3>4. CASE v = "Verified"
      <4>1. /\ late' = {} /\ nonce = "used"
            /\ \A r \in Redeemers : pc[r] \notin Open
        BY <3>1, <3>4 DEF BackInv, LateInv, Passed
      <4>2. st' = "Verified"
        BY <3>1, <3>4 DEF Stored
      <4> QED BY <1>1, <3>3, <4>1, <4>2 DEF VerdictInv
    <3>5. CASE v # "Verified"
      <4>1. ~VerdictSeen'
        BY <1>1, <3>1, <3>2, <3>5 DEF VerdictSeen, Stored
      <4> QED BY <4>1 DEF VerdictInv
    <3> QED BY <3>4, <3>5
  <2>3. CASE NotifyRead \/ NotifyWrite \/ Expire \/ Settle \/ UNCHANGED vars
    <3>1. UNCHANGED <<st, late, decision>>
      BY <2>3 DEF NotifyRead, NotifyWrite, Expire, Settle, vars, storeVars, walletVars, Store!Expire
    <3>2. expired' = TRUE \/ expired' = expired
      BY <2>3 DEF NotifyRead, NotifyWrite, Expire, Settle, vars, storeVars, Store!Expire
    <3>3. expired => expired'
      BY <3>2, Zenon
    <3>4. VerdictSeen' => VerdictSeen
      BY <1>1, <3>1 DEF VerdictSeen
    <3> QED BY <1>1, <3>1, <3>3, <3>4 DEF VerdictInv
  <2> QED BY <2>1, <2>2, <2>3
<1> QED BY <1>3, <1>4

LEMMA ProgressStep ==
    ASSUME TypeOK, NonceInv, BackInv, SessionInv, ProgressInv, [Next]_vars
    PROVE  ProgressInv'
<1>1. ASSUME NEW h \in Requests, Request(h) PROVE ProgressInv'
  BY <1>1, ProgressEarly, ProgressRead, ProgressReport, ProgressWrite DEF Request
<1> QED BY <1>1, ProgressElsewhere DEF Next

(* What clients were told when a request began is not taken back by its    *)
(* answer.                                                                 *)
THEOREM ProgressIsSeen == Spec => []ClientsSeeProgress
<1>1. Init => NonceInv /\ BackInv /\ SessionInv
  BY DEF Init, NonceInv, Passed, Open, Requests, BackInv, UndecidedInv, LateInv, ProofSeen,
     ProofOk, Accepted, CookieIsBacked, SessionInv, Trails, NewSession, NoNote
<1>2. Init => ProgressInv
  BY DEF Init, ProgressInv, KnownInv, SeenInv, MovedInv, VerdictInv, VerdictSeen,
     ClientsSeeProgress
<1>3. TypeOK /\ NonceInv /\ BackInv /\ SessionInv /\ ProgressInv /\ [Next]_vars
         => NonceInv' /\ BackInv' /\ SessionInv' /\ ProgressInv'
  BY NonceStep, BackStep, SessionStep, ProgressStep
<1>4. ProgressInv => ClientsSeeProgress
  BY DEF ProgressInv
<1> QED BY <1>1, <1>2, <1>3, <1>4, TypeCorrect, PTL DEF Spec

-----------------------------------------------------------------------------
(* The session sells what Redemption promises.  A claim of a proof, seen   *)
(* by a request, stored or on its way to the store, has its origin in a    *)
(* submission that was accepted.                                           *)

OwnedInv == decision # "accepted" => ~ProofSeen /\ late \cap {ProofOk, "Verified"} = {}

\* a redemption that was given the cookie takes no further step
CookieEnds == \A r \in Redeemers : answer[r] = "ok" => pc[r] = "done"

Granted == {r \in Redeemers : answer[r] = "ok"}

LEMMA OwnedStep ==
    ASSUME TypeOK, BackInv, OwnedInv, [Next]_vars
    PROVE  OwnedInv'
<1>1. ASSUME NEW h \in Requests, Request(h), ~RedeemWrite(h) PROVE OwnedInv'
  BY <1>1, RequestQuiet DEF OwnedInv
<1>2. ASSUME NEW h \in Requests, RedeemWrite(h) PROVE OwnedInv'
  <2>1. Accepted(h) /\ h \in Redeemers /\ decision' = decision
    BY <1>2 DEF RedeemWrite, Accepted, walletVars
  <2> QED BY <2>1 DEF OwnedInv, ProofSeen
<1>3. CASE submit_verification /\ decision' # "accepted"
  <2>1. late = {} /\ ~ProofSeen
    BY <1>3 DEF submit_verification, BackInv, UndecidedInv
  <2>2. UNCHANGED <<pc, seen, answer>>
    BY <1>3 DEF submit_verification, reqVars
  <2>3. PICK v \in {"Failed", "Expired"} : PutDone(v) \/ PutFailed(v)
    BY <1>3 DEF submit_verification
  <2>4. late' \subseteq {v} /\ (st' = st \/ st' = v)
    BY <2>1, <2>3 DEF PutDone, PutFailed, Stored
  <2>5. ~ProofSeen' /\ late' \cap {ProofOk, "Verified"} = {}
    BY <2>1, <2>2, <2>3, <2>4 DEF ProofSeen, Accepted, ProofOk
  <2> QED BY <2>5 DEF OwnedInv
<1>4. CASE submit_verification /\ decision' = "accepted"
  BY <1>4 DEF OwnedInv
<1>5. CASE Deliver
  <2>1. PICK v \in late : Stored(v) /\ late' = late \ {v}
    BY <1>5 DEF Deliver
  <2>2. UNCHANGED <<pc, seen, answer, decision>> /\ (st' = v \/ st' = st)
    BY <1>5, <2>1 DEF Deliver, reqVars, walletVars, Stored
  <2> QED BY <2>1, <2>2 DEF OwnedInv, ProofSeen, Accepted
<1>6. CASE Expire \/ NotifyRead \/ NotifyWrite \/ Settle \/ UNCHANGED vars
  <2>1. UNCHANGED <<st, late, decision, pc, seen, answer>>
    BY <1>6 DEF Expire, NotifyRead, NotifyWrite, Settle, vars, storeVars, walletVars,
       reqVars, Store!Expire
  <2> QED BY <2>1 DEF OwnedInv, ProofSeen, Accepted
<1> QED BY <1>1, <1>2, <1>3, <1>4, <1>5, <1>6 DEF Next

LEMMA CookieEndsStep ==
    ASSUME TypeOK, CookieEnds, [Next]_vars
    PROVE  /\ CookieEnds'
           /\ \A r \in Redeemers : answer[r] = "ok" => answer'[r] = "ok"
<1>1. ASSUME NEW h \in Requests, Request(h)
      PROVE  /\ CookieEnds'
             /\ \A r \in Redeemers : answer[r] = "ok" => answer'[r] = "ok"
  <2>1. \A q \in Redeemers : q # h => pc'[q] = pc[q] /\ answer'[q] = answer[q]
    BY <1>1, OwnProgress DEF TypeOK, Requests
  <2>2. h \in Redeemers => pc[h] # "done"
    BY <1>1, RequestAssumption DEF Request, ReadSession, Load, CountCheck, handle_hosted_status,
       CountAttempt, ConsumeNonce, RedeemExpiry, RedeemReread, RedeemBill, RedeemWrite
  <2>3. h \in Redeemers /\ answer'[h] = "ok" /\ answer[h] # "ok" => pc'[h] = "done"
    <3>1. ~RedeemWrite(h) => (h \in Redeemers /\ answer'[h] = "ok" => answer[h] = "ok")
      BY <1>1, RequestQuiet
    <3>2. RedeemWrite(h) => pc'[h] = "done"
      BY DEF RedeemWrite, Reply, Finish, Goto, TypeOK, RequestType
    <3> QED BY <3>1, <3>2
  <2> QED BY <2>1, <2>2, <2>3 DEF CookieEnds
<1>2. CASE UNCHANGED <<pc, answer>>
  BY <1>2 DEF CookieEnds
<1> QED BY <1>1, <1>2
        DEF Next, submit_verification, NotifyRead, NotifyWrite, Deliver, Expire, Settle, vars,
            reqVars

(* Between its nonce and its answer a redemption is alone, and no cookie   *)
(* has been given.                                                         *)
LEMMA RedemptionAlone ==
    ASSUME TypeOK, NonceInv, OwnedInv, CookieEnds, NEW r \in Redeemers,
           pc[r] \in {"gated", "billed", "unbilled"}
    PROVE  decision = "accepted" /\ Granted = {}
<1>1. Passed(r) /\ Accepted(r)
  BY DEF Passed, Accepted, Open
<1>2. decision = "accepted"
  BY <1>1 DEF OwnedInv, ProofSeen
<1>3. \A q \in Redeemers : answer[q] # "ok"
  BY <1>1 DEF NonceInv, Passed, CookieEnds
<1> QED BY <1>2, <1>3 DEF Granted

SaleInv == TypeOK /\ NonceInv /\ BillInv /\ OwnedInv /\ CookieEnds

LEMMA SaleRequestStep ==
    ASSUME SaleInv, NEW r \in Redeemers, Request(r)
    PROVE  [Sale!Next]_(Sale!saleVars)
<1>0. r \in Requests /\ r \notin Pollers /\ RequestType /\ BillType
  BY RequestAssumption DEF Requests, SaleInv, TypeOK
<1>1. decision' = decision
  BY DEF Request, ReadSession, Load, CountCheck, handle_hosted_status, CountAttempt,
     ConsumeNonce, RedeemExpiry, RedeemReread, RedeemBill, RedeemWrite, walletVars
<1>2. \A q \in Redeemers : q # r => answer'[q] = answer[q]
  BY <1>0, OwnProgress DEF Requests
<1>3. CookieEnds' /\ (answer[r] = "ok" => answer'[r] = "ok")
  BY <1>0, CookieEndsStep DEF SaleInv, Next
<1>4. CASE ~RedeemWrite(r)
  <2>1. Granted' = Granted
    BY <1>0, <1>2, <1>3, <1>4, RequestQuiet DEF Granted, SaleInv
  <2>2. CASE RedeemBill(r)
    <3>1. decision = "accepted" /\ Granted = {}
      BY <2>2, RedemptionAlone DEF RedeemBill, SaleInv
    <3>2. /\ metered' \in {metered, TRUE}
          /\ charged' \in {charged, TRUE}
          /\ charged' # charged => metered'
      BY <2>2 DEF RedeemBill, consume_credits, billVars
    <3>3. Sale!Bill
      BY <1>1, <2>1, <3>1, <3>2 DEF Sale!Bill, Sale!Open, Granted
    <3> QED BY <3>3 DEF Sale!Next
  <2>3. CASE ~RedeemBill(r)
    <3>1. UNCHANGED billVars
      BY <1>0, <1>4, <2>3 DEF Request, ReadSession, Load, CountCheck, handle_hosted_status,
         CountAttempt, ConsumeNonce, RedeemExpiry, RedeemReread
    <3> QED BY <1>1, <2>1, <3>1 DEF billVars, Sale!saleVars, Granted
  <2> QED BY <2>2, <2>3
<1>5. CASE RedeemWrite(r)
  <2>1. pc[r] \in {"billed", "unbilled"} /\ metered' = metered
    BY <1>5 DEF RedeemWrite
  <2>2. decision = "accepted" /\ Granted = {}
    BY <2>1, RedemptionAlone DEF SaleInv
  <2>3. metered => charged
    BY <2>1 DEF SaleInv, BillInv, Open
  <2>4. CASE Reply(r, "ok") /\ charged' \in {charged, TRUE}
    <3>1. answer'[r] = "ok"
      BY <1>0, <2>4 DEF Reply, Finish, RequestType
    <3>2. Granted' = {r}
      BY <1>2, <2>2, <3>1 DEF Granted
    <3>3. Sale!Grant(r)
      BY <1>1, <2>1, <2>2, <2>3, <2>4, <3>2 DEF Sale!Grant, Sale!Open, Granted
    <3> QED BY <3>3 DEF Sale!Next
  <2>5. CASE Reply(r, "error") /\ charged' = charged
    <3>1. answer'[r] = "error"
      BY <1>0, <2>5 DEF Reply, Finish, RequestType
    <3>2. Granted' = Granted
      BY <1>2, <2>2, <3>1 DEF Granted
    <3> QED BY <1>1, <2>1, <2>5, <3>2 DEF Sale!saleVars, Granted
  <2> QED BY <1>5, <2>4, <2>5 DEF RedeemWrite
<1> QED BY <1>4, <1>5

LEMMA SaleStep ==
    ASSUME SaleInv, [Next]_vars
    PROVE  [Sale!Next]_(Sale!saleVars)
<1>1. ASSUME UNCHANGED <<decision, answer, billVars>> PROVE UNCHANGED Sale!saleVars
  BY <1>1 DEF billVars, Sale!saleVars
<1>2. ASSUME NEW h \in Requests, Request(h) PROVE [Sale!Next]_(Sale!saleVars)
  <2>1. CASE h \in Redeemers
    BY <1>2, <2>1, SaleRequestStep
  <2>2. CASE h \notin Redeemers
    <3>1. \A q \in Redeemers : answer'[q] = answer[q]
      BY <1>2, <2>2, OwnProgress DEF SaleInv, TypeOK, Requests
    <3>2. UNCHANGED <<decision, billVars>>
      BY <1>2, <2>2 DEF Request, ReadSession, Load, CountCheck, handle_hosted_status,
         CountAttempt, ConsumeNonce, RedeemExpiry, RedeemReread, RedeemBill, RedeemWrite,
         walletVars
    <3> QED BY <3>1, <3>2 DEF billVars, Sale!saleVars
  <2> QED BY <2>1, <2>2
<1>3. CASE submit_verification
  <2>1. UNCHANGED <<answer, billVars>> /\ decision = "none"
    BY <1>3 DEF submit_verification, reqVars
  <2>2. CASE decision' = "accepted"
    BY <2>1, <2>2 DEF Sale!Next, Sale!Accept, billVars
  <2>3. CASE decision' # "accepted"
    BY <2>1, <2>3 DEF Sale!saleVars, billVars
  <2> QED BY <2>2, <2>3
<1>4. CASE NotifyRead \/ NotifyWrite \/ Deliver \/ Expire \/ Settle \/ UNCHANGED vars
  BY <1>1, <1>4 DEF NotifyRead, NotifyWrite, Deliver, Expire, Settle, vars, reqVars, walletVars
<1> QED BY <1>2, <1>3, <1>4 DEF Next

(* A hosted session implements Redemption with any number of redemptions,  *)
(* whatever the stores and the credit service do: no cookie and no         *)
(* deduction without a proof that was accepted, no cookie before the       *)
(* deduction once metering was found enabled, and nothing after it.        *)
THEOREM SessionImplementsRedemption == Spec => ImplementsRedemption
<1>1. Init => SaleInv /\ BackInv
  <2> SUFFICES ASSUME Init PROVE SaleInv /\ BackInv
    OBVIOUS
  <2>1. TypeOK
    BY InitTyped
  <2> QED BY <2>1
          DEF Init, SaleInv, NonceInv, Passed, Open, Requests, BillInv, OwnedInv, CookieEnds,
              BackInv, UndecidedInv, LateInv, ProofSeen, ProofOk, Accepted, CookieIsBacked
<1>2. SaleInv /\ BackInv /\ [Next]_vars => SaleInv' /\ BackInv'
  BY NextTyped, NonceStep, BillStep, BackStep, OwnedStep, CookieEndsStep DEF SaleInv
<1>3. Init => Sale!Init
  <2>1. Init => Granted = {} /\ decision # "accepted"
    BY DEF Init, Granted, Requests
  <2> QED BY <2>1 DEF Init, Sale!Init, Granted
<1> QED BY <1>1, <1>2, <1>3, SaleStep, PTL DEF Spec, ImplementsRedemption, Sale!Spec

(* The composition asks no more of the challenge than the store promises:  *)
(* every step of the session is one of its lifecycle, or leaves it alone.  *)
THEOREM StoreUsedAsPromised == Spec => [][Store!Next]_(Store!lcVars)
<1>1. [Next]_vars => [Store!Next]_(Store!lcVars)
  <2> SUFFICES ASSUME [Next]_vars PROVE [Store!Next]_(Store!lcVars)
    OBVIOUS
  <2> USE DEF Store!Next, Store!lcVars
  <2>1. ASSUME NEW v, Stored(v) PROVE [Store!Next]_(Store!lcVars)
    BY <2>1 DEF Stored
  <2>2. ASSUME NEW found, get(found) PROVE [Store!Next]_(Store!lcVars)
    BY <2>2 DEF get, Store!Remove
  <2>3. CASE UNCHANGED <<st, expired>>
    BY <2>3
  <2>4. ASSUME NEW h \in Requests, Request(h) PROVE [Store!Next]_(Store!lcVars)
    BY <2>1, <2>2, <2>3, <2>4 DEF Request, ReadSession, Load, CountCheck, handle_hosted_status,
       CountAttempt, ConsumeNonce, RedeemExpiry, RedeemReread, RedeemBill, RedeemWrite,
       PutDone, PutFailed, storeVars
  <2>5. CASE submit_verification \/ NotifyRead \/ NotifyWrite \/ Deliver \/ Expire \/ Settle
             \/ UNCHANGED vars
    BY <2>1, <2>3, <2>5 DEF submit_verification, NotifyRead, NotifyWrite, Deliver, Expire,
       Settle, PutDone, PutFailed, vars, storeVars
  <2> QED BY <2>4, <2>5 DEF Next
<1> QED BY <1>1, PTL DEF Spec

=============================================================================
