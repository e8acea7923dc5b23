------------------------- MODULE RequestAuth_proofs -------------------------
(***************************************************************************)
(* Proofs about RequestAuth: the shard behaves as NonceDO says while       *)
(* requests use it, and a request to an internal endpoint is accepted once *)
(* under InternalMargin, which the constants of the code satisfy.  No such *)
(* statement is made of the client's surface, where it is not true.        *)
(***************************************************************************)
EXTENDS RequestAuth, NonceDO_proofs

OffsetType == offset \in [Message -> Int \cup {None}]
RequestType == request \in [Requester -> [msg : Message, waited : Nat] \cup {None}]
AcceptedType == accepted \in [Message -> Nat]

LEMMA RequestTypeInductive ==
    ASSUME RequestType, [AuthNext]_authVars
    PROVE  RequestType'
<1>1. ASSUME NEW m \in Message, Sign(m) \/ Forget(m) PROVE RequestType'
  BY <1>1 DEF Sign, Forget, RequestType
<1>2. ASSUME NEW r \in Requester, verify_nonce(r) PROVE RequestType'
  BY <1>2 DEF verify_nonce, RequestType
<1>3. ASSUME NEW r \in Requester, NEW m \in Message, check_window(r, m) PROVE RequestType'
  BY <1>3 DEF check_window, RequestType
<1>4. ASSUME NEW r \in Requester, NEW t \in Tag, NEW ttl \in Ttl, spend(r, t, ttl)
      PROVE  RequestType'
  BY <1>4 DEF spend, RequestType
<1>5. CASE ShardAlarm
  BY <1>5 DEF ShardAlarm, RequestType
<1>6. CASE Second
  <2>1. ASSUME NEW r \in Requester
        PROVE  Waits(r) \in [msg : Message, waited : Nat] \cup {None}
    BY DEF Waits, RequestType
  <2> QED BY <1>6, <2>1 DEF Second, RequestType
<1>7. CASE UNCHANGED authVars
  BY <1>7 DEF authVars, RequestType
<1> QED BY <1>1, <1>2, <1>3, <1>4, <1>5, <1>6, <1>7 DEF AuthNext

LEMMA RequestsTyped == AuthSpec => []RequestType
<1>1. AuthInit => RequestType
  BY DEF AuthInit, RequestType
<1> QED BY <1>1, RequestTypeInductive, PTL DEF AuthSpec

LEMMA ShardStep ==
    ASSUME RequestType, [AuthNext]_authVars
    PROVE  [Next]_nonceVars
<1>1. ASSUME NEW r \in Requester, verify_nonce(r) PROVE Next
  <2>1. request[r].msg \in Message
    BY <1>1 DEF verify_nonce, RequestType
  <2>2. request[r].msg \in Tag /\ TtlOf(request[r].msg) \in Ttl
    BY <2>1, MessageAssumption DEF TtlOf
  <2> QED BY <1>1, <2>2 DEF verify_nonce, Next
<1>2. ASSUME NEW r \in Requester, NEW t \in Tag, NEW ttl \in Ttl, spend(r, t, ttl)
      PROVE  Next
  BY <1>2 DEF spend, Next
<1>3. ShardAlarm \/ Second => Next
  BY DEF ShardAlarm, Second, Next
<1>4. ASSUME NEW m \in Message, Sign(m) \/ Forget(m) PROVE UNCHANGED nonceVars
  BY <1>4 DEF Sign, Forget, nonceVars
<1>5. ASSUME NEW r \in Requester, NEW m \in Message, check_window(r, m)
      PROVE  UNCHANGED nonceVars
  BY <1>5 DEF check_window, nonceVars
<1> QED BY <1>1, <1>2, <1>3, <1>4, <1>5 DEF AuthNext, authVars, nonceVars

(* What the shard does under the requests of this module is what NonceDO   *)
(* lets it do, so the results about NonceDO hold here too.                 *)
THEOREM ShardRefined == AuthSpec => Spec
<1>1. AuthInit => Init
  BY DEF AuthInit
<1> QED BY <1>1, RequestsTyped, ShardStep, PTL DEF AuthSpec, Spec

(* A nonce has one owner, whatever requests are under way.                 *)
THEOREM RequestsSingleUse ==
    ASSUME ReadsSucceed
    PROVE  AuthSpec => []SingleUse
<1>1. Spec => []SingleUse
  BY NonceSingleUse
<1> QED BY <1>1, ShardRefined, PTL

(* The entry of a granted nonce is stored for as long as the grant runs.   *)
THEOREM RequestsBacked ==
    ASSUME ReadsSucceed
    PROVE  AuthSpec => []GrantIsBacked
<1>1. Spec => []GrantIsBacked
  BY NonceBacked
<1> QED BY <1>1, ShardRefined, PTL

(* While alarms can be set, one is set as long as an entry is stored.      *)
THEOREM RequestsSwept ==
    ASSUME AlarmsSucceed
    PROVE  AuthSpec => []EntriesAreSwept
<1>1. Spec => []EntriesAreSwept
  BY SweepArmed
<1> QED BY <1>1, ShardRefined, PTL

-----------------------------------------------------------------------------
(* A handler found its message within the window when its wait began.      *)
RequestsInTime ==
    \A r \in Requester :
       request[r] # None =>
          LET m == request[r].msg IN
          /\ offset[m] # None
          /\ offset[m] <= Window
          /\ offset[m] >= -(Window + request[r].waited)
          /\ request[r].waited <= Delay

AuthTypes == TypeOK /\ OffsetType /\ RequestType /\ AcceptedType

TimeInv == AuthTypes /\ RequestsInTime

LEMMA TimeInductive ==
    ASSUME TimeInv, [AuthNext]_authVars
    PROVE  TimeInv'
<1> USE NoneAssumption, MessageAssumption
<1>1. TypeOK' /\ RequestType'
  BY ShardStep, TypeInductive, RequestTypeInductive DEF TimeInv, AuthTypes
<1> USE DEF TimeInv, AuthTypes, RequestsInTime
<1>2. ASSUME NEW m \in Message, Sign(m)
      PROVE  OffsetType' /\ AcceptedType' /\ RequestsInTime'
  <2>1. PICK skew \in -Window .. Ahead : offset' = [offset EXCEPT ![m] = skew]
    BY <1>2 DEF Sign
  <2>2. skew \in Int
    BY <2>1
  <2>3. OffsetType' /\ AcceptedType'
    BY <1>2, <2>1, <2>2 DEF Sign, OffsetType, AcceptedType
  <2>4. \A r \in Requester : request[r] # None => request[r].msg # m
    BY <1>2 DEF Sign
  <2>5. RequestsInTime'
    BY <1>2, <2>1, <2>4 DEF Sign, OffsetType, RequestType
  <2> QED BY <2>3, <2>5
<1>3. ASSUME NEW m \in Message, Forget(m)
      PROVE  OffsetType' /\ AcceptedType' /\ RequestsInTime'
  <2>1. OffsetType' /\ AcceptedType'
    BY <1>3 DEF Forget, OffsetType, AcceptedType
  <2>2. RequestsInTime'
    BY <1>3 DEF Forget, OffsetType, RequestType
  <2> QED BY <2>1, <2>2
<1>4. ASSUME NEW r \in Requester, verify_nonce(r)
      PROVE  OffsetType' /\ AcceptedType' /\ RequestsInTime'
  <2>1. request[r].msg \in Message
    BY <1>4 DEF verify_nonce, RequestType
  <2>2. OffsetType' /\ AcceptedType'
    BY <1>4, <2>1 DEF verify_nonce, OffsetType, AcceptedType
  <2> QED BY <1>4, <2>2 DEF verify_nonce, RequestType
<1>5. ASSUME NEW r \in Requester, NEW m \in Message, check_window(r, m)
      PROVE  OffsetType' /\ AcceptedType' /\ RequestsInTime'
  <2>1. \A q \in Requester :
           request'[q] = IF q = r THEN [msg |-> m, waited |-> 0] ELSE request[q]
    BY <1>5 DEF check_window, RequestType
  <2>2. /\ offset[m] # None /\ offset[m] \in Int
        /\ offset[m] <= Window /\ offset[m] >= -(Window + 0) /\ 0 <= Delay
    BY <1>5 DEF check_window, WithinWindow, OffsetType
  <2> QED BY <1>5, <2>1, <2>2 DEF check_window, OffsetType, AcceptedType
<1>6. ASSUME NEW r \in Requester, NEW t \in Tag, NEW ttl \in Ttl, spend(r, t, ttl)
      PROVE  OffsetType' /\ AcceptedType' /\ RequestsInTime'
  BY <1>6 DEF spend, OffsetType, AcceptedType
<1>7. CASE ShardAlarm
  BY <1>1, <1>7 DEF ShardAlarm, OffsetType, AcceptedType
<1>8. CASE Second
  <2>1. ASSUME NEW m \in Message
        PROVE  /\ offset'[m] = Aged(m)
               /\ Aged(m) \in Int \cup {None}
    BY <1>8 DEF Second, Aged, OffsetType
  <2>2. OffsetType' /\ AcceptedType'
    BY <1>8, <2>1 DEF Second, OffsetType, AcceptedType
  <2>3. ASSUME NEW r \in Requester, request'[r] # None
        PROVE  /\ request[r] # None
               /\ request[r].msg \in Message
               /\ request'[r].msg = request[r].msg
               /\ request'[r].waited = request[r].waited + 1
               /\ request[r].waited \in Nat
               /\ request[r].waited < Delay
    BY <1>8, <2>3 DEF Second, Waits, GivesUp, RequestType
  <2>4. ASSUME NEW r \in Requester, request'[r] # None
        PROVE  LET m == request'[r].msg IN
               /\ offset'[m] # None
               /\ offset'[m] <= Window
               /\ offset'[m] >= -(Window + request'[r].waited)
               /\ request'[r].waited <= Delay
    <3> DEFINE m == request[r].msg
    <3>1. /\ offset[m] # None /\ offset[m] \in Int /\ offset[m] <= Window
          /\ offset[m] >= -(Window + request[r].waited)
      BY <2>3, <2>4 DEF OffsetType
    <3>2. offset'[m] = offset[m] - 1
      BY <2>1, <2>3, <2>4, <3>1 DEF Aged, Dead
    <3> QED BY <2>3, <2>4, <3>1, <3>2
  <2>5. RequestsInTime'
    BY <2>4
  <2> QED BY <1>1, <2>2, <2>5
<1>9. CASE UNCHANGED authVars
  <2>1. offset' = offset /\ request' = request /\ accepted' = accepted
    BY <1>9 DEF authVars
  <2>2. OffsetType' /\ AcceptedType'
    BY <2>1 DEF OffsetType, AcceptedType
  <2>3. RequestsInTime'
    BY <2>1
  <2> QED BY <1>1, <2>2, <2>3
<1> QED BY <1>1, <1>2, <1>3, <1>4, <1>5, <1>6, <1>7, <1>8, <1>9 DEF AuthNext

LEMMA TimeInit == AuthInit => TimeInv
BY DEF AuthInit, Init, TimeInv, AuthTypes, TypeOK, OffsetType, RequestType,
       AcceptedType, RequestsInTime

(* Every reachable state of the shard and its requests is well typed.      *)
THEOREM AuthTypeCorrect == AuthSpec => []AuthTypeOK
<1>1. TimeInv => AuthTypeOK
  BY DEF TimeInv, AuthTypes, AuthTypeOK, OffsetType, RequestType, AcceptedType
<1> QED BY <1>1, TimeInit, TimeInductive, PTL DEF AuthSpec

-----------------------------------------------------------------------------
(* While a request can still present an internal message that was accepted *)
(* the nonce of the message is stored, and for as long.                    *)
NonceKept ==
    \A m \in InternalMessage :
       accepted[m] # 0 =>
          /\ offset[m] # None
          /\ \/ Dead(m)
             \/ entry[m] # None /\ entry[m] >= offset[m] + Window + Delay

KeptInv == TimeInv /\ NonceKept /\ BearerAcceptedOnce

(* A step of the shard that leaves live entries and the messages alone.    *)
LEMMA KeptQuiet ==
    ASSUME KeptInv, offset' = offset, accepted' = accepted,
           \A t \in Tag : Live(entry[t]) => entry'[t] = entry[t]
    PROVE  NonceKept' /\ BearerAcceptedOnce'
<1> USE MessageAssumption, NoneAssumption
<1>1. ASSUME NEW m \in InternalMessage, accepted[m] # 0, ~Dead(m)
      PROVE  entry'[m] = entry[m]
  <2>0. m \in Message /\ m \in Tag
    BY DEF Message
  <2>1. offset[m] \in Int /\ offset[m] >= -(Window + Delay)
    BY <1>1, <2>0 DEF KeptInv, TimeInv, AuthTypes, OffsetType, NonceKept, Dead
  <2>2. entry[m] # None /\ entry[m] \in Int /\ entry[m] >= 0
    BY <1>1, <2>0, <2>1 DEF KeptInv, TimeInv, AuthTypes, TypeOK, NonceKept
  <2> QED BY <2>0, <2>2 DEF Live
<1> QED BY <1>1 DEF KeptInv, NonceKept, BearerAcceptedOnce, Dead

LEMMA LiveEntriesStay ==
    ASSUME TypeOK, ReadsSucceed,
           Alarm \/ \E r \in Requester, t \in Tag, ttl \in Ttl : set_nonce(r, t, ttl)
    PROVE  \A t \in Tag : Live(entry[t]) => entry'[t] = entry[t]
<1>1. CASE Alarm
  BY <1>1 DEF Alarm, cleanup_expired_nonces, Live, Stale, TypeOK
<1>2. ASSUME NEW r \in Requester, NEW t \in Tag, NEW ttl \in Ttl, set_nonce(r, t, ttl)
      PROVE  \A s \in Tag : Live(entry[s]) => entry'[s] = entry[s]
  BY <1>2 DEF set_nonce, Store, Seen, Replay, ReadsSucceed, nonceVars, TypeOK
<1> QED BY <1>1, <1>2

LEMMA KeptInductive ==
    ASSUME ReadsSucceed, KeptInv, [AuthNext]_authVars
    PROVE  KeptInv'
<1> USE MessageAssumption, NoneAssumption
<1>1. TimeInv /\ TimeInv' /\ NonceKept /\ BearerAcceptedOnce
  BY TimeInductive DEF KeptInv
<1> SUFFICES NonceKept' /\ BearerAcceptedOnce'
  BY <1>1 DEF KeptInv
<1>t. /\ TypeOK /\ OffsetType /\ RequestType /\ AcceptedType
  BY <1>1 DEF TimeInv, AuthTypes
<1>2. ASSUME NEW m \in Message, Sign(m) PROVE NonceKept' /\ BearerAcceptedOnce'
  <2>1. /\ m \in InternalMessage => accepted[m] = 0
        /\ accepted' = accepted /\ entry' = entry
    BY <1>1, <1>2 DEF Sign, NonceKept
  <2>2. \A n \in Message : n # m => offset'[n] = offset[n]
    BY <1>2, <1>t DEF Sign, OffsetType
  <2> QED BY <1>1, <2>1, <2>2 DEF NonceKept, BearerAcceptedOnce, Dead, Message
<1>3. ASSUME NEW m \in Message, Forget(m) PROVE NonceKept' /\ BearerAcceptedOnce'
  <2>1. \A n \in Message : accepted'[n] = IF n = m THEN 0 ELSE accepted[n]
    BY <1>3, <1>t DEF Forget, AcceptedType
  <2>2. entry' = entry /\ \A n \in Message : n # m => offset'[n] = offset[n]
    BY <1>3, <1>t DEF Forget, OffsetType
  <2> QED BY <1>1, <2>1, <2>2 DEF NonceKept, BearerAcceptedOnce, Dead, Message
<1>4. ASSUME NEW r \in Requester, verify_nonce(r) PROVE NonceKept' /\ BearerAcceptedOnce'
  <2> DEFINE m == request[r].msg
             ttl == TtlOf(m)
  <2>1. /\ m \in Message /\ m \in Tag /\ ttl \in Ttl /\ ttl \in Nat
        /\ set_nonce(r, m, ttl) /\ offset' = offset
    BY <1>4, <1>t, TtlAssumption DEF verify_nonce, RequestType, TtlOf
  <2>2. \A t \in Tag : Live(entry[t]) => entry'[t] = entry[t]
    BY <1>t, <2>1, LiveEntriesStay
  <2>3. CASE accepted' = accepted
    BY <1>1, <2>1, <2>2, <2>3, KeptQuiet DEF KeptInv
  <2>4. ASSUME accepted' # accepted
        PROVE  /\ accepted' = [accepted EXCEPT ![m] = @ + 1]
               /\ entry' = [entry EXCEPT ![m] = ttl] /\ ~Live(entry[m])
    <3>1. accepted' = [accepted EXCEPT ![m] = @ + 1] /\ granted'[r] # None
      BY <1>4, <2>4 DEF verify_nonce
    <3> QED BY <2>1, <3>1 DEF set_nonce, Store, Seen, Replay, ReadsSucceed, nonceVars
  <2>5. CASE accepted' # accepted /\ m \notin InternalMessage
    <3>1. ASSUME NEW n \in InternalMessage
          PROVE  n \in Message /\ accepted'[n] = accepted[n] /\ entry'[n] = entry[n]
      BY <1>t, <2>1, <2>4, <2>5 DEF AcceptedType, TypeOK, Message
    <3> QED BY <1>1, <2>1, <3>1 DEF NonceKept, BearerAcceptedOnce, Dead
  <2>6. CASE accepted' # accepted /\ m \in InternalMessage
    <3>2. accepted' = [accepted EXCEPT ![m] = @ + 1]
          /\ entry' = [entry EXCEPT ![m] = ttl] /\ ~Live(entry[m])
      BY <2>4, <2>6
    <3>3. /\ offset[m] # None /\ offset[m] \in Int /\ offset[m] <= Window
          /\ offset[m] >= -(Window + Delay)
      BY <1>1, <1>4, <1>t, <2>1
      DEF verify_nonce, TimeInv, RequestsInTime, OffsetType, RequestType
    <3>4. accepted[m] = 0
      <4>1. ~Dead(m)
        BY <2>1, <3>3 DEF Dead
      <4>2. ASSUME accepted[m] # 0 PROVE Live(entry[m])
        <5>1. entry[m] # None /\ entry[m] >= offset[m] + Window + Delay
          BY <1>1, <2>6, <4>1, <4>2 DEF NonceKept
        <5>2. entry[m] \in Int
          BY <1>t, <2>1, <5>1 DEF TypeOK
        <5> QED BY <2>1, <3>3, <5>1, <5>2 DEF Live
      <4> QED BY <3>2, <4>2
    <3>5. entry'[m] = ttl /\ ttl # None /\ ttl >= offset[m] + Window + Delay
      <4>1. ttl = InternalTtl
        BY <2>6 DEF TtlOf
      <4>2. entry'[m] = ttl
        BY <1>t, <2>1, <3>2 DEF TypeOK
      <4> QED BY <2>1, <3>3, <4>1, <4>2, InternalMargin
    <3>6. ASSUME NEW n \in InternalMessage
          PROVE  /\ n \in Message
                 /\ accepted'[n] = IF n = m THEN 1 ELSE accepted[n]
                 /\ n # m => entry'[n] = entry[n]
      BY <1>t, <2>1, <3>2, <3>4 DEF AcceptedType, TypeOK, Message
    <3>7. ASSUME NEW n \in InternalMessage, accepted'[n] # 0
          PROVE  /\ offset'[n] # None
                 /\ \/ Dead(n)'
                    \/ entry'[n] # None /\ entry'[n] >= offset'[n] + Window + Delay
      <4>1. CASE n = m
        BY <2>1, <3>3, <3>5, <4>1
      <4>2. CASE n # m
        BY <1>1, <2>1, <3>6, <3>7, <4>2 DEF NonceKept, Dead
      <4> QED BY <4>1, <4>2
    <3>8. BearerAcceptedOnce'
      BY <1>1, <3>6 DEF BearerAcceptedOnce
    <3> QED BY <3>7, <3>8 DEF NonceKept
  <2> QED BY <2>3, <2>5, <2>6
<1>5. ASSUME NEW r \in Requester, NEW m \in Message, check_window(r, m)
      PROVE  NonceKept' /\ BearerAcceptedOnce'
  BY <1>1, <1>5 DEF check_window, NonceKept, BearerAcceptedOnce, Dead
<1>6. ASSUME NEW r \in Requester, NEW t \in Tag, NEW ttl \in Ttl, spend(r, t, ttl)
      PROVE  NonceKept' /\ BearerAcceptedOnce'
  <2>1. \A s \in Tag : Live(entry[s]) => entry'[s] = entry[s]
    BY <1>6, <1>t, LiveEntriesStay DEF spend
  <2> QED BY <1>1, <1>6, <2>1, KeptQuiet DEF spend, KeptInv
<1>7. CASE ShardAlarm
  <2>1. \A s \in Tag : Live(entry[s]) => entry'[s] = entry[s]
    BY <1>7, <1>t, LiveEntriesStay DEF ShardAlarm
  <2> QED BY <1>1, <1>7, <2>1, KeptQuiet DEF ShardAlarm, KeptInv
<1>8. CASE Second
  <2>1. accepted' = accepted
    BY <1>8 DEF Second
  <2>2. ASSUME NEW m \in InternalMessage, accepted[m] # 0
        PROVE  /\ offset'[m] # None
               /\ \/ Dead(m)'
                  \/ entry'[m] # None /\ entry'[m] >= offset'[m] + Window + Delay
    <3>1. offset[m] # None /\ offset[m] \in Int /\ offset'[m] = Aged(m)
      BY <1>1, <1>8, <1>t, <2>2 DEF Second, OffsetType, NonceKept, Message
    <3>2. CASE Dead(m)
      BY <3>1, <3>2 DEF Aged, Dead
    <3>3. CASE ~Dead(m)
      <4>1. offset'[m] = offset[m] - 1 /\ offset[m] >= -(Window + Delay)
        BY <3>1, <3>3 DEF Aged, Dead
      <4>2. /\ entry[m] # None /\ entry[m] \in Int
            /\ entry[m] >= offset[m] + Window + Delay
        BY <1>1, <1>t, <2>2, <3>3 DEF NonceKept, TypeOK, Message
      <4>3. entry'[m] = entry[m] - 1
        BY <1>8, <3>1, <4>1, <4>2 DEF Second, Tick, Older, Live, Message
      <4> QED BY <3>1, <4>1, <4>2, <4>3
    <3> QED BY <3>2, <3>3
  <2>3. NonceKept'
    BY <2>1, <2>2 DEF NonceKept
  <2> QED BY <1>1, <2>1, <2>3 DEF BearerAcceptedOnce
<1>9. CASE UNCHANGED authVars
  BY <1>1, <1>9 DEF authVars, NonceKept, BearerAcceptedOnce, Dead
<1> QED BY <1>2, <1>3, <1>4, <1>5, <1>6, <1>7, <1>8, <1>9 DEF AuthNext

(* While reads of the shard succeed, a request to an internal endpoint is  *)
(* accepted once, for any number of requests and presentations and however *)
(* fast its sender's clock runs; InternalMargin relates constants only.    *)
THEOREM BearerRequestsAcceptedOnce ==
    ASSUME ReadsSucceed
    PROVE  AuthSpec => []BearerAcceptedOnce
<1>1. AuthInit => NonceKept /\ BearerAcceptedOnce
  BY DEF AuthInit, NonceKept, BearerAcceptedOnce, Message
<1>2. TimeInv /\ NonceKept /\ BearerAcceptedOnce <=> KeptInv
  BY DEF KeptInv
<1>3. KeptInv => BearerAcceptedOnce
  BY DEF KeptInv
<1> QED BY <1>1, <1>2, <1>3, TimeInit, KeptInductive, PTL DEF AuthSpec

=============================================================================
