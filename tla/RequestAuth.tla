---------------------------- MODULE RequestAuth ----------------------------
(***************************************************************************)
(* Whether a timestamped request is accepted once: the clock window and    *)
(* the nonce, together.                                                    *)
(*                                                                         *)
(* Two surfaces do this: the client's authorizer                           *)
(* (src/src/security/auth.rs, ClientAuthenticator) and the internal bearer *)
(* (src/src/security/status_auth.rs, enforce_internal_replay_window).      *)
(* Each first compares the timestamp with its clock and then asks the      *)
(* shard of NonceDO for the nonce, so time passes in between.  They admit  *)
(* the same window and keep their nonces for very different times.  A      *)
(* message is a tag of the shard; the signature and the bearer are         *)
(* external.                                                               *)
(***************************************************************************)
EXTENDS NonceDO

CONSTANTS
    ClientMessage,   \* requests signed for the authorizer, named by nonce tag
    InternalMessage, \* requests to the internal bearer endpoints, likewise
    ClientTtl,       \* NONCE_DEDUP_TTL, 300 s
    InternalTtl,     \* INTERNAL_REPLAY_NONCE_TTL_SECS, 24 h
    Window,          \* the greatest skew, 300 s on both surfaces
    Ahead,           \* bound on how far a sender's clock is ahead of ours
    Delay            \* how long a request may take from the check to the shard

VARIABLES
    offset,    \* a message's timestamp minus our clock, or None
    request,   \* the message a handler found fresh, and for how long it waits
    accepted   \* how often a message was accepted

authVars == <<entry, alarm, granted, offset, request, accepted>>

Message == ClientMessage \cup InternalMessage

\* the time to live a surface asks the shard for
TtlOf(m) == IF m \in ClientMessage THEN ClientTtl ELSE InternalTtl

ASSUME MessageAssumption ==
    /\ Message \subseteq Tag
    /\ ClientMessage \cap InternalMessage = {}
    /\ {ClientTtl, InternalTtl} \subseteq Ttl
    /\ {Window, Ahead, Delay} \subseteq Nat
    /\ None \notin [msg : Message, waited : Nat]

\* 300 s on either side of our clock and a call of 2 s fit into 24 h.  Of the
\* client's surface nothing of the kind is true.
ASSUME InternalMargin == 2 * Window + Delay <= InternalTtl

\* The message is too old for any request that is still under way.
Dead(m) == offset[m] < -(Window + Delay)

-----------------------------------------------------------------------------
\* mutant: only the age of a message is checked
NotOlder(m) == offset[m] >= -Window

\* skew <= 300, in either direction
WithinWindow(m) == -Window <= offset[m] /\ offset[m] <= Window

\* A sender makes a message; its clock may be behind or ahead.
Sign(m) ==
    /\ offset[m] = None
    /\ \E skew \in -Window .. Ahead : offset' = [offset EXCEPT ![m] = skew]
    /\ UNCHANGED <<entry, alarm, granted, request, accepted>>

\* authenticate, enforce_internal_replay_window: up to the call of the shard
check_window(r, m) ==
    /\ request[r] = None /\ granted[r] = None
    /\ offset[m] # None
    /\ WithinWindow(m)
    /\ request' = [request EXCEPT ![r] = [msg |-> m, waited |-> 0]]
    /\ UNCHANGED <<entry, alarm, granted, offset, accepted>>

\* verify_nonce: the shard's answer decides
verify_nonce(r) ==
    /\ request[r] # None
    /\ LET m == request[r].msg IN
       /\ set_nonce(r, m, TtlOf(m))
       /\ accepted' = IF granted'[r] = None THEN accepted
                      ELSE [accepted EXCEPT ![m] = @ + 1]
    /\ request' = [request EXCEPT ![r] = None]
    /\ UNCHANGED offset

\* A nonce spent by another request: one that names a message's nonce and
\* fails its signature, one that its handler gave up, or a verification or
\* redemption with its own tag.
spend(r, t, ttl) ==
    /\ request[r] = None
    /\ t \in Message => ttl = TtlOf(t)
    /\ set_nonce(r, t, ttl)
    /\ UNCHANGED <<offset, request, accepted>>

\* A message that no request can use any more is forgotten, with its nonce.
Forget(m) ==
    /\ offset[m] # None /\ Dead(m)
    /\ \A r \in Requester : request[r] # None => request[r].msg # m
    /\ offset' = [offset EXCEPT ![m] = None]
    /\ accepted' = [accepted EXCEPT ![m] = 0]
    /\ UNCHANGED <<entry, alarm, granted, request>>

ShardAlarm == Alarm /\ UNCHANGED <<offset, request, accepted>>

Aged(m) == IF offset[m] = None \/ Dead(m) THEN offset[m] ELSE offset[m] - 1

\* with_timeout: a handler gives its call up after Delay, and refuses
GivesUp(r) == request[r].waited >= Delay

Waits(r) ==
    IF request[r] = None \/ GivesUp(r) THEN None
    ELSE [request[r] EXCEPT !.waited = @ + 1]

\* One second passes.
Second ==
    /\ Tick
    /\ offset' = [m \in Message |-> Aged(m)]
    /\ request' = [r \in Requester |-> Waits(r)]
    /\ UNCHANGED accepted

AuthInit ==
    /\ Init
    /\ offset = [m \in Message |-> None]
    /\ request = [r \in Requester |-> None]
    /\ accepted = [m \in Message |-> 0]

AuthNext ==
    \/ \E m \in Message : Sign(m) \/ Forget(m)
    \/ \E r \in Requester : verify_nonce(r) \/ \E m \in Message : check_window(r, m)
    \/ \E r \in Requester, t \in Tag, ttl \in Ttl : spend(r, t, ttl)
    \/ ShardAlarm
    \/ Second

AuthSpec == AuthInit /\ [][AuthNext]_authVars

\* Time passes and the runtime runs an alarm that is due.
FairAuthSpec == AuthSpec /\ WF_authVars(Second) /\ WF_authVars(ShardAlarm)

-----------------------------------------------------------------------------
AuthTypeOK ==
    /\ TypeOK
    /\ offset \in [Message -> Int \cup {None}]
    /\ request \in [Requester -> [msg : Message, waited : Nat] \cup {None}]
    /\ accepted \in [Message -> Nat]

\* A request to an internal endpoint is accepted at most once, however often
\* it is presented, however fast its sender's clock runs and however late its
\* presentations reach the shard: as long as enforce_internal_replay_window
\* admits it, its nonce is still stored.
BearerAcceptedOnce == \A m \in InternalMessage : accepted[m] <= 1

\* What the comment in ClientAuthenticator::authenticate says, that the window
\* matches the life of the nonce: a signed request is accepted at most once.
ClientAcceptedOnce == \A m \in ClientMessage : accepted[m] <= 1

=============================================================================
