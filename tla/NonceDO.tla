------------------------------ MODULE NonceDO ------------------------------
(***************************************************************************)
(* One shard of the object that makes nonces single-use                    *)
(* (src/src/durable_objects/nonce_do.rs), with its alarm.                  *)
(*                                                                         *)
(* set_nonce and the alarm handler await storage operations only, so the   *)
(* runtime's input gate makes each of them atomic.  Times are kept as the  *)
(* seconds that remain until them, which leaves the clock without a bound: *)
(* entry[t] is expires_at - now, and -1 stands for every expiry in the     *)
(* past.                                                                   *)
(***************************************************************************)
EXTENDS Integers

CONSTANTS
    Tag,            \* nonce tags routed to this shard
    Requester,      \* request handlers that consume nonces
    Ttl,            \* the ttl_seconds requesters ask for
    AlarmInterval,  \* ALARM_INTERVAL_MS, in seconds
    Faults,         \* operations that may fail: "read", "put", "alarm", "list"
    None            \* an absent entry, alarm or grant

VARIABLES
    entry,   \* the entry under nonce:{tag}: remaining seconds, or None
    alarm,   \* seconds until the alarm is due, or None
    granted  \* the nonce a requester was told is its own, and for how long

nonceVars == <<entry, alarm, granted>>

ASSUME TtlAssumption == Ttl \subseteq Nat \ {0}
ASSUME IntervalAssumption == AlarmInterval \in Nat \ {0}
ASSUME NoneAssumption ==
    /\ None \notin Int
    /\ None \notin [tag : Tag, left : Int]
ASSUME FaultAssumption == Faults \subseteq {"read", "put", "alarm", "list"}

Live(e) == e # None /\ e >= 0
Stale(e) == e # None /\ e < 0

-----------------------------------------------------------------------------
\* storage().get(..).ok().flatten(): a failed read is an absent entry
Seen(t) == {entry[t]} \cup (IF "read" \in Faults THEN {None} ELSE {})

\* mutant: every new nonce puts the alarm off
PutOffAlarm == alarm' = AlarmInterval

ensure_alarm_scheduled == alarm' = IF alarm = None THEN AlarmInterval ELSE alarm

\* mutant: an entry is not live in its last second
ReplayBeforeExpiry(e) == e # None /\ e > 0

\* the entry blocks every other use of its tag
Replay(e) == Live(e)

\* set_nonce, when it does not find a live entry
Store(r, t, ttl) ==
    \/ "put" \in Faults /\ UNCHANGED nonceVars
    \/ /\ entry' = [entry EXCEPT ![t] = ttl]
       /\ \/ /\ ensure_alarm_scheduled
             /\ granted' = [granted EXCEPT ![r] = [tag |-> t, left |-> ttl]]
          \/ "alarm" \in Faults /\ UNCHANGED <<alarm, granted>>

set_nonce(r, t, ttl) ==
    /\ granted[r] = None
    /\ \E seen \in Seen(t) :
          \/ Replay(seen) /\ UNCHANGED nonceVars
          \/ ~Replay(seen) /\ Store(r, t, ttl)

\* another sweep while entries remain
Reschedule ==
    alarm' = IF \E t \in Tag : entry'[t] # None THEN AlarmInterval ELSE None

cleanup_expired_nonces ==
    /\ entry' = [t \in Tag |-> IF Stale(entry[t]) THEN None ELSE entry[t]]
    /\ Reschedule \/ ("alarm" \in Faults /\ alarm' \in {0, None})

\* The alarm is due.  A handler that fails is run again, until the runtime
\* gives up on it.
Alarm ==
    /\ alarm = 0
    /\ \/ cleanup_expired_nonces
       \/ "list" \in Faults /\ alarm' \in {0, None} /\ UNCHANGED entry
    /\ UNCHANGED granted

-----------------------------------------------------------------------------
\* mutant: keeps counting after the expiry
OlderForever(e) == IF e = None THEN e ELSE e - 1

Older(e) == IF Live(e) THEN e - 1 ELSE e

\* One second passes; a requester's claim ends with its time to live.
Tick ==
    /\ entry' = [t \in Tag |-> Older(entry[t])]
    /\ alarm' = IF alarm = None \/ alarm = 0 THEN alarm ELSE alarm - 1
    /\ granted' = [r \in Requester |->
                     IF granted[r] = None \/ granted[r].left = 0 THEN None
                     ELSE [granted[r] EXCEPT !.left = @ - 1]]

Init ==
    /\ entry = [t \in Tag |-> None]
    /\ alarm = None
    /\ granted = [r \in Requester |-> None]

Next ==
    \/ \E r \in Requester, t \in Tag, ttl \in Ttl : set_nonce(r, t, ttl)
    \/ Alarm
    \/ Tick

Spec == Init /\ [][Next]_nonceVars

\* Time passes and the runtime runs an alarm that is due.
FairSpec == Spec /\ WF_nonceVars(Tick) /\ WF_nonceVars(Alarm)

-----------------------------------------------------------------------------
TypeOK ==
    /\ entry \in [Tag -> Int \cup {None}]
    /\ alarm \in Nat \cup {None}
    /\ granted \in [Requester -> [tag : Tag, left : Nat] \cup {None}]
    /\ \A t \in Tag : entry[t] # None => entry[t] >= -1

\* A nonce has one owner at a time: while the time to live of one successful
\* set_nonce runs, no other set_nonce of the same tag succeeds, whatever the
\* sweep of expired entries does in between.
SingleUse ==
    \A r, q \in Requester :
       (r # q /\ granted[r] # None /\ granted[q] # None)
       => granted[r].tag # granted[q].tag

\* Why: the entry of a granted nonce is stored for at least as long.
GrantIsBacked ==
    \A r \in Requester :
       granted[r] # None => /\ Live(entry[granted[r].tag])
                            /\ entry[granted[r].tag] >= granted[r].left

\* No entry is left behind: while there is one, an alarm is set.
EntriesAreSwept == (\E t \in Tag : entry[t] # None) => alarm # None

\* An expired nonce leaves the storage, unless it is used again: set_nonce and
\* the alarm handler between them keep the sweep going.
ExpiredEntriesGo == \A t \in Tag : Stale(entry[t]) ~> ~Stale(entry[t])

=============================================================================
