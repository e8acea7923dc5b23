--------------------------- MODULE NonceDO_proofs ---------------------------
(***************************************************************************)
(* Proofs about NonceDO, for all tags, requesters, times to live and alarm *)
(* intervals.                                                              *)
(***************************************************************************)
EXTENDS NonceDO, TLAPS

EntryType == entry \in [Tag -> Int \cup {None}] /\ \A t \in Tag : entry[t] # None => entry[t] >= -1
GrantType == granted \in [Requester -> [tag : Tag, left : Nat] \cup {None}]

LEMMA TypeInductive == TypeOK /\ [Next]_nonceVars => TypeOK'
<1> SUFFICES ASSUME EntryType, alarm \in Nat \cup {None}, GrantType, [Next]_nonceVars
             PROVE  EntryType' /\ alarm' \in Nat \cup {None} /\ GrantType'
  BY DEF TypeOK, EntryType, GrantType
<1>1. ASSUME NEW r \in Requester, NEW t \in Tag, NEW ttl \in Ttl, set_nonce(r, t, ttl)
      PROVE  EntryType' /\ alarm' \in Nat \cup {None} /\ GrantType'
  <2>1. ttl \in Nat /\ [tag |-> t, left |-> ttl] \in [tag : Tag, left : Nat]
    BY TtlAssumption
  <2>2. EntryType'
    BY <1>1, <2>1 DEF set_nonce, Store, nonceVars, EntryType
  <2>3. alarm' \in Nat \cup {None}
    BY <1>1, IntervalAssumption DEF set_nonce, Store, nonceVars, ensure_alarm_scheduled
  <2>4. GrantType'
    BY <1>1, <2>1 DEF set_nonce, Store, nonceVars, GrantType
  <2> QED BY <2>2, <2>3, <2>4
<1>2. CASE Alarm
  <2>1. EntryType'
    BY <1>2 DEF Alarm, cleanup_expired_nonces, EntryType
  <2>2. alarm' \in Nat \cup {None} /\ GrantType'
    BY <1>2, IntervalAssumption DEF Alarm, cleanup_expired_nonces, Reschedule, GrantType
  <2> QED BY <2>1, <2>2
<1>3. CASE Tick
  <2>1. ASSUME NEW t \in Tag
        PROVE  /\ Older(entry[t]) \in Int \cup {None}
               /\ Older(entry[t]) # None => Older(entry[t]) >= -1
    BY DEF Older, Live, EntryType
  <2>2. EntryType'
    BY <1>3, <2>1 DEF Tick, EntryType
  <2>3. alarm' \in Nat \cup {None}
    BY <1>3 DEF Tick
  <2>4. ASSUME NEW r \in Requester, granted[r] # None, granted[r].left # 0
        PROVE  [granted[r] EXCEPT !.left = @ - 1] \in [tag : Tag, left : Nat]
    BY <2>4 DEF GrantType
  <2>5. GrantType'
    BY <1>3, <2>4 DEF Tick, GrantType
  <2> QED BY <2>2, <2>3, <2>5
<1>4. CASE UNCHANGED nonceVars
  BY <1>4 DEF nonceVars, EntryType, GrantType
<1> QED BY <1>1, <1>2, <1>3, <1>4 DEF Next

(* Every reachable state is well typed, and no entry ages past -1.         *)
THEOREM TypeCorrect == Spec => []TypeOK
<1>1. Init => TypeOK
  BY DEF Init, TypeOK
<1> QED BY <1>1, TypeInductive, PTL DEF Spec

-----------------------------------------------------------------------------
(* While no read fails, the entry behind a granted nonce outlasts the      *)
(* grant, and so blocks every other use of the tag.                        *)
ReadsSucceed == "read" \notin Faults

UseInv == TypeOK /\ GrantIsBacked /\ SingleUse

LEMMA UseInductive ==
    ASSUME ReadsSucceed, UseInv, [Next]_nonceVars
    PROVE  UseInv'
<1>1. TypeOK /\ GrantIsBacked /\ SingleUse /\ TypeOK'
  BY TypeInductive DEF UseInv
<1> SUFFICES GrantIsBacked' /\ SingleUse'
  BY <1>1 DEF UseInv
<1>2. ASSUME NEW r \in Requester, NEW t \in Tag, NEW ttl \in Ttl, set_nonce(r, t, ttl)
      PROVE  GrantIsBacked' /\ SingleUse'
  <2>1. CASE UNCHANGED nonceVars
    BY <1>1, <2>1 DEF nonceVars, GrantIsBacked, SingleUse
  <2>2. CASE ~Replay(entry[t]) /\ entry' = [entry EXCEPT ![t] = ttl]
    <3>1. \A q \in Requester : granted[q] # None => granted[q].tag # t
      BY <1>1, <2>2 DEF GrantIsBacked, Replay
    <3>2. \A s \in Tag : entry'[s] = IF s = t THEN ttl ELSE entry[s]
      BY <1>1, <2>2 DEF TypeOK
    <3>3. CASE granted' = [granted EXCEPT ![r] = [tag |-> t, left |-> ttl]]
      <4>1. ASSUME NEW q \in Requester, granted'[q] # None
            PROVE  IF q = r THEN granted'[q].tag = t /\ granted'[q].left = ttl
                            ELSE granted'[q] = granted[q] /\ granted[q].tag # t
        BY <1>1, <3>1, <3>3, <4>1 DEF TypeOK
      <4>2. SingleUse'
        BY <1>1, <4>1 DEF SingleUse
      <4>3. ttl \in Nat /\ ttl # None
        BY TtlAssumption, NoneAssumption
      <4>4. ASSUME NEW q \in Requester, granted'[q] # None
            PROVE  /\ Live(entry'[granted'[q].tag])
                   /\ entry'[granted'[q].tag] >= granted'[q].left
        <5>1. CASE q = r
          BY <3>2, <4>1, <4>3, <4>4, <5>1 DEF Live
        <5>2. CASE q # r
          <6>1. granted'[q] = granted[q] /\ granted[q].tag # t /\ granted[q].tag \in Tag
            BY <1>1, <4>1, <4>4, <5>2 DEF TypeOK
          <6> QED BY <1>1, <3>2, <4>4, <6>1 DEF GrantIsBacked
        <5> QED BY <5>1, <5>2
      <4> QED BY <4>2, <4>4 DEF GrantIsBacked
    <3>4. CASE UNCHANGED granted
      BY <1>1, <3>1, <3>2, <3>4 DEF TypeOK, GrantIsBacked, SingleUse
    <3> QED BY <1>2, <2>1, <2>2, <3>3, <3>4 DEF set_nonce, Store
  <2> QED BY <1>2, <2>1, <2>2 DEF set_nonce, Store, Seen, ReadsSucceed
<1>3. CASE Alarm
  <2>1. \A t \in Tag : Live(entry[t]) => entry'[t] = entry[t]
    BY <1>1, <1>3 DEF Alarm, cleanup_expired_nonces, Live, Stale, TypeOK
  <2> QED BY <1>1, <1>3, <2>1 DEF Alarm, GrantIsBacked, SingleUse, TypeOK
<1>4. CASE Tick
  <2>1. ASSUME NEW r \in Requester, granted'[r] # None
        PROVE  /\ granted[r] # None
               /\ granted[r].tag \in Tag
               /\ granted[r].left \in Nat \ {0}
               /\ granted'[r].tag = granted[r].tag
               /\ granted'[r].left = granted[r].left - 1
    BY <1>1, <1>4, <2>1 DEF Tick, TypeOK
  <2>2. ASSUME NEW r \in Requester, granted'[r] # None
        PROVE  /\ Live(entry'[granted'[r].tag])
               /\ entry'[granted'[r].tag] >= granted'[r].left
    <3> DEFINE t == granted[r].tag
    <3>1. entry[t] \in Nat /\ entry[t] >= granted[r].left
      BY <1>1, <2>1, <2>2 DEF GrantIsBacked, TypeOK, Live
    <3>2. entry'[t] = entry[t] - 1 /\ entry[t] >= 1
      BY <1>1, <1>4, <2>1, <2>2, <3>1, NoneAssumption DEF Tick, Older, Live
    <3>3. entry'[t] # None /\ entry'[t] >= 0
      BY <3>1, <3>2, NoneAssumption
    <3> QED BY <2>1, <2>2, <3>1, <3>2, <3>3 DEF Live
  <2> QED BY <1>1, <2>1, <2>2 DEF GrantIsBacked, SingleUse
<1>5. CASE UNCHANGED nonceVars
  BY <1>1, <1>5 DEF nonceVars, GrantIsBacked, SingleUse
<1> QED BY <1>2, <1>3, <1>4, <1>5 DEF Next

(* A nonce has one owner while its time to live runs, as long as no read   *)
(* of the storage fails.                                                   *)
THEOREM NonceSingleUse ==
    ASSUME ReadsSucceed
    PROVE  Spec => []SingleUse
<1>1. Init => UseInv
  BY DEF Init, UseInv, TypeOK, GrantIsBacked, SingleUse
<1>2. UseInv => SingleUse
  BY DEF UseInv
<1> QED BY <1>1, <1>2, UseInductive, PTL DEF Spec

(* The entry of a granted nonce is stored for as long as the grant runs.   *)
THEOREM NonceBacked ==
    ASSUME ReadsSucceed
    PROVE  Spec => []GrantIsBacked
<1>1. Init => UseInv
  BY DEF Init, UseInv, TypeOK, GrantIsBacked, SingleUse
<1>2. UseInv => GrantIsBacked
  BY DEF UseInv
<1> QED BY <1>1, <1>2, UseInductive, PTL DEF Spec

-----------------------------------------------------------------------------
(* While alarms can be set and entries listed, an alarm is set as long as  *)
(* there is an entry to sweep.                                             *)
AlarmsSucceed == "alarm" \notin Faults /\ "list" \notin Faults

LEMMA SweptInductive ==
    ASSUME AlarmsSucceed, TypeOK, EntriesAreSwept, [Next]_nonceVars
    PROVE  EntriesAreSwept'
<1> USE IntervalAssumption, NoneAssumption DEF EntriesAreSwept, TypeOK
<1>1. ASSUME NEW r \in Requester, NEW t \in Tag, NEW ttl \in Ttl, set_nonce(r, t, ttl)
      PROVE  EntriesAreSwept'
  BY <1>1 DEF set_nonce, Store, ensure_alarm_scheduled, AlarmsSucceed, nonceVars
<1>2. CASE Alarm
  BY <1>2 DEF Alarm, cleanup_expired_nonces, Reschedule, AlarmsSucceed
<1>3. CASE Tick
  <2>1. \A t \in Tag : entry'[t] # None => entry[t] # None
    BY <1>3 DEF Tick, Older, Live
  <2>2. alarm # None => alarm' # None
    BY <1>3 DEF Tick
  <2> QED BY <2>1, <2>2
<1>4. CASE UNCHANGED nonceVars
  BY <1>4 DEF nonceVars
<1> QED BY <1>1, <1>2, <1>3, <1>4 DEF Next

(* While setting an alarm succeeds, the shard has one as long as an entry  *)
(* is stored: ensure_alarm_scheduled and the sweep leave no gap.           *)
THEOREM SweepArmed ==
    ASSUME AlarmsSucceed
    PROVE  Spec => []EntriesAreSwept
<1>1. Init => EntriesAreSwept
  BY DEF Init, EntriesAreSwept
<1>2. AlarmsSucceed
  OBVIOUS
<1> QED BY <1>1, <1>2, SweptInductive, TypeCorrect, PTL DEF Spec
=============================================================================
