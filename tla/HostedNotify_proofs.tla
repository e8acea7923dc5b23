------------------------- MODULE HostedNotify_proofs -------------------------
(***************************************************************************)
(* A ticket stays spent for the life of its session because the put of its *)
(* marker comes before the socket and after the session's creation: while  *)
(* the session has time left, the marker is no older than the session, so  *)
(* KV has not dropped it, and it is at least as old as the first socket,   *)
(* so a read sees it.  This needs SessionTtl <= MarkerTtl.                 *)
(***************************************************************************)
EXTENDS HostedNotify, TLAPS

USE TtlAssumption, NoneAssumption

\* an upgrade that is past its put has left a marker, if the session lives
MarkedOK == left > 0 => \A u \in Upgrade : upgrade[u] = "marked" => marks # {}

\* no marker is older than the session
MarksOK == left > 0 => \A m \in marks : m + left <= SessionTtl

\* some marker is as old as the first socket
OpenedOK == left > 0 /\ opened # None => \E m \in marks : m >= opened

NeverAgain == \A u \in Upgrade : again[u] = "no"

TicketInv == TypeOK /\ MarkedOK /\ MarksOK /\ OpenedOK /\ NeverAgain

\* the notification and the messages agree with the challenge
NoticeOK ==
    /\ notice.phase = "none" => challenge = "pending" /\ \A u \in Upgrade : heard[u] = None
    /\ notice.phase \in {"due", "push", "late"} /\ notice.what = "proof_ok_waiting_for_redeem"
          => challenge = "proof_ok"
    /\ notice.phase \in {"due", "push", "late"} /\ notice.what = "expired"
          => challenge # "proof_ok"
    /\ notice.phase \in {"due", "push", "late"} => notice.what \in Message

NoticeInv == TypeOK /\ NoticeOK /\ MessageIsTrue

-----------------------------------------------------------------------------
LEMMA TypeInit == Init => TypeOK
BY DEF Init, TypeOK, AtLeast

LEMMA TypeStep == TypeOK /\ [Next]_vars => TypeOK'
<1> SUFFICES ASSUME TypeOK, [Next]_vars PROVE TypeOK'
  OBVIOUS
<1> USE DEF TypeOK, sessionVars, ticketVars, objectVars, walletVars
<1>a. NewLife \in 0 .. AtLeast(SessionTtl, Floor)
  BY DEF NewLife, AtLeast
<1>1. CASE UNCHANGED vars
  BY <1>1 DEF vars
<1>2. ASSUME NEW u \in Upgrade, ReadSession(u) PROVE TypeOK'
  BY <1>2 DEF ReadSession, Refuse, Goto
<1>3. ASSUME NEW u \in Upgrade, CheckMarker(u) PROVE TypeOK'
  BY <1>3 DEF CheckMarker, Refuse, Goto
<1>4. ASSUME NEW u \in Upgrade, PutMarker(u) PROVE TypeOK'
  <2>1. marks \cup {0} \subseteq 0 .. MarkerTtl - 1
    OBVIOUS
  <2>2. marks' \subseteq 0 .. MarkerTtl - 1
    BY <1>4, <2>1 DEF PutMarker
  <2> QED
    BY <1>4, <2>2 DEF PutMarker, Goto
<1>5. ASSUME NEW u \in Upgrade, handle_ws_upgrade(u) PROVE TypeOK'
  BY <1>5 DEF handle_ws_upgrade, Goto, ensure_alarm_scheduled
<1>6. ASSUME NEW u \in Upgrade, RefuseMarked(u) PROVE TypeOK'
  BY <1>6 DEF RefuseMarked, Refuse, Goto
<1>7. ASSUME NEW u \in Upgrade, Leave(u) PROVE TypeOK'
  BY <1>7 DEF Leave
<1>8. CASE Alarm
  BY <1>8 DEF Alarm, CloseAll
<1>9. CASE Decide
  BY <1>9 DEF Decide, ProofOk, Fail, Notify, Message
<1>10. CASE UpdateSession
  BY <1>10, <1>a DEF UpdateSession
<1>11. CASE Push
  <2>1. notice.what \in Message \cup {None}
    OBVIOUS
  <2> QED
    BY <1>11, <2>1 DEF Push, handle_notify, CloseAll
<1>12. CASE PushTimesOut
  BY <1>12 DEF PushTimesOut
<1>13. CASE NoticeIsLost
  BY <1>13 DEF NoticeIsLost
<1>14. CASE PollRead
  BY <1>14 DEF PollRead
<1>15. CASE PollWrite
  BY <1>15, <1>a DEF PollWrite
<1>16. CASE Tick
  <2>0. AtLeast(SessionTtl, Floor) \in Nat /\ left \in Int /\ record \in Int
    BY DEF AtLeast
  <2>1. left' \in 0 .. SessionTtl /\ record' \in 0 .. AtLeast(SessionTtl, Floor)
    BY <1>16, <2>0 DEF Tick, Down
  <2>2. marks' \subseteq 0 .. MarkerTtl - 1
    BY <1>16 DEF Tick
  <2>3. opened' \in 0 .. Lag + 1 \cup {None} /\ alarm' \in 0 .. AlarmTtl \cup {None}
    BY <1>16 DEF Tick, Down
  <2>4. age' \in [Upgrade -> 0 .. AlarmTtl]
    BY <1>16 DEF Tick
  <2> QED
    BY <1>16, <2>1, <2>2, <2>3, <2>4 DEF Tick
<1> QED
  BY <1>1, <1>2, <1>3, <1>4, <1>5, <1>6, <1>7, <1>8, <1>9, <1>10, <1>11, <1>12,
     <1>13, <1>14, <1>15, <1>16 DEF Next

\* Every variable keeps its type; in particular the object is told no message
\* but the two it passes on.
THEOREM NotifyTypeCorrect == Spec => []TypeOK
BY TypeInit, TypeStep, PTL DEF Spec

-----------------------------------------------------------------------------
\* A ticket is spent for the life of its session, for every number of upgrades.
THEOREM TicketsAreSpent ==
    ASSUME SessionTtl <= MarkerTtl
    PROVE  Spec => []TicketIsSpent
<1>1. Init => TicketInv
  BY TypeInit DEF Init, TicketInv, MarkedOK, MarksOK, OpenedOK, NeverAgain
<1>2. TicketInv /\ [Next]_vars => TicketInv'
  <2> SUFFICES ASSUME TicketInv, [Next]_vars PROVE TicketInv'
    OBVIOUS
  <2> USE DEF TicketInv, MarkedOK, MarksOK, OpenedOK, NeverAgain,
              sessionVars, ticketVars, objectVars, walletVars
  <2>0. TypeOK'
    BY TypeStep
  <2>1. ASSUME NEW u \in Upgrade, CheckMarker(u) PROVE TicketInv'
    <3>1. ~(Unmarked /\ opened # None /\ opened > Lag /\ left > 0)
      BY DEF Unmarked, Seen, TypeOK
    <3>2. UNCHANGED <<left, marks, opened>>
          /\ \A v \in Upgrade : upgrade'[v] = "marked" => upgrade[v] = "marked"
      BY <2>1 DEF CheckMarker, Refuse, Goto, TypeOK
    <3>3. again' = again \/ again' = [again EXCEPT ![u] = "no"]
      BY <2>1, <3>1 DEF CheckMarker, Refuse
    <3>4. NeverAgain'
      BY <3>3 DEF TypeOK
    <3> QED
      BY <2>0, <3>2, <3>4
  <2>2. ASSUME NEW u \in Upgrade, PutMarker(u) PROVE TicketInv'
    <3>1. 0 + left <= SessionTtl
      BY DEF TypeOK
    <3> QED
      BY <2>0, <2>2, <3>1 DEF PutMarker, Goto, TypeOK
  <2>3. ASSUME NEW u \in Upgrade, handle_ws_upgrade(u) PROVE TicketInv'
    <3>1. left > 0 => \E m \in marks : m >= 0
      <4> SUFFICES ASSUME left > 0 PROVE \E m \in marks : m >= 0
        OBVIOUS
      <4>1. marks # {}
        BY <2>3 DEF handle_ws_upgrade
      <4>2. \A m \in marks : m \in Int /\ m >= 0
        BY DEF TypeOK
      <4> QED
        BY <4>1, <4>2
    <3> QED
      BY <2>0, <2>3, <3>1 DEF handle_ws_upgrade, Goto, TypeOK
  <2>4. CASE Tick
    <3>1. left' > 0 => left > 0 /\ left' = left - 1
      BY <2>4 DEF Tick, Down, TypeOK
    <3>2. ASSUME left > 0, left' > 0, NEW m \in marks
          PROVE  m + 1 \in marks' /\ m \in Nat /\ (m + 1) + left' <= SessionTtl
      BY <2>4, <3>1, <3>2 DEF Tick, TypeOK
    <3>3. MarkedOK'
      BY <2>4, <3>1, <3>2 DEF Tick
    <3>4. MarksOK'
      BY <2>4, <3>1, <3>2 DEF Tick, TypeOK
    <3>5. OpenedOK'
      <4> SUFFICES ASSUME left' > 0, opened' # None
                   PROVE  \E m \in marks' : m >= opened'
        OBVIOUS
      <4>1. opened # None /\ opened \in Nat /\ opened' <= opened + 1
        BY <2>4 DEF Tick, TypeOK
      <4>2. PICK m \in marks : m >= opened
        BY <3>1, <4>1
      <4>3. opened' \in Nat
        BY <2>4, <4>1 DEF Tick
      <4> QED
        BY <3>1, <3>2, <4>1, <4>2, <4>3
    <3> QED
      BY <2>0, <2>4, <3>3, <3>4, <3>5 DEF Tick
  <2>5. CASE UNCHANGED <<left, marks, opened, again>>
             /\ \A u \in Upgrade : upgrade'[u] = "marked" => upgrade[u] = "marked"
    BY <2>0, <2>5
  <2>6. ASSUME NEW u \in Upgrade, ReadSession(u) \/ RefuseMarked(u) \/ Leave(u)
        PROVE  TicketInv'
    BY <2>5, <2>6 DEF ReadSession, RefuseMarked, Refuse, Goto, Leave, TypeOK
  <2>7. CASE UNCHANGED vars \/ Alarm \/ Decide \/ UpdateSession \/ Push \/ PushTimesOut
             \/ NoticeIsLost \/ PollRead \/ PollWrite
    BY <2>5, <2>7 DEF vars, Alarm, Decide, UpdateSession, Push, PushTimesOut,
       NoticeIsLost, PollRead, PollWrite
  <2> QED
    BY <2>1, <2>2, <2>3, <2>4, <2>6, <2>7 DEF Next
<1>3. TicketInv => TicketIsSpent
  BY DEF TicketInv, NeverAgain, TicketIsSpent
<1> QED
  BY <1>1, <1>2, <1>3, PTL DEF Spec

-----------------------------------------------------------------------------
\* An open socket will be closed, however many came before it.
THEOREM AlarmsGuardSockets == Spec => []AlarmGuardsSockets
<1> DEFINE I == TypeOK /\ AlarmGuardsSockets
<1>1. Init => I
  BY TypeInit DEF Init, AlarmGuardsSockets
<1>2. I /\ [Next]_vars => I'
  <2> SUFFICES ASSUME I, [Next]_vars PROVE I'
    OBVIOUS
  <2> USE DEF AlarmGuardsSockets, sessionVars, ticketVars, objectVars, walletVars
  <2>0. TypeOK'
    BY TypeStep
  <2>1. ASSUME NEW u \in Upgrade, handle_ws_upgrade(u) PROVE I'
    <3>1. ensure_alarm_scheduled \in 0 .. AlarmTtl /\ ensure_alarm_scheduled # None
      BY DEF ensure_alarm_scheduled, TypeOK
    <3>2. \A v \in Upgrade : socket[v] = "open" => ensure_alarm_scheduled = alarm
      BY DEF ensure_alarm_scheduled
    <3>3. age' = [age EXCEPT ![u] = 0]
      BY <2>1 DEF handle_ws_upgrade
    <3>4. CASE upgrade'[u] = "accepted"
      <4>1. /\ socket' = [socket EXCEPT ![u] = "open"]
            /\ alarm' = ensure_alarm_scheduled
        BY <2>1, <3>4 DEF handle_ws_upgrade, Goto, TypeOK
      <4> QED
        BY <2>0, <3>1, <3>2, <3>3, <4>1 DEF TypeOK
    <3>5. CASE upgrade'[u] # "accepted"
      <4>1. /\ socket' = [socket EXCEPT ![u] = "orphan"]
            /\ alarm' \in {alarm, ensure_alarm_scheduled}
        BY <2>1, <3>5 DEF handle_ws_upgrade, Goto, TypeOK
      <4>2. \A v \in Upgrade : socket'[v] = "open" =>
               v # u /\ socket[v] = "open" /\ age'[v] = age[v] /\ alarm' = alarm
        BY <3>2, <3>3, <4>1 DEF TypeOK
      <4> QED
        BY <2>0, <4>2
    <3> QED
      BY <3>4, <3>5
  <2>2. ASSUME NEW u \in Upgrade, Leave(u) PROVE I'
    BY <2>0, <2>2 DEF Leave, Held, TypeOK
  <2>3. CASE Alarm
    BY <2>0, <2>3 DEF Alarm, CloseAll, Held, TypeOK
  <2>4. CASE Push
    BY <2>0, <2>4 DEF Push, handle_notify, CloseAll, Held, TypeOK
  <2>5. CASE Tick
    BY <2>0, <2>5 DEF Tick, Down, TypeOK
  <2>6. CASE UNCHANGED objectVars
    BY <2>0, <2>6
  <2>7. ASSUME NEW u \in Upgrade, ReadSession(u) \/ CheckMarker(u) \/ PutMarker(u) \/ RefuseMarked(u)
        PROVE  I'
    BY <2>6, <2>7 DEF ReadSession, CheckMarker, PutMarker, RefuseMarked, Refuse
  <2>8. CASE UNCHANGED vars \/ Decide \/ UpdateSession \/ PushTimesOut
             \/ NoticeIsLost \/ PollRead \/ PollWrite
    BY <2>6, <2>8 DEF vars, Decide, UpdateSession, PushTimesOut, NoticeIsLost, PollRead, PollWrite
  <2> QED
    BY <2>1, <2>2, <2>3, <2>4, <2>5, <2>7, <2>8 DEF Next
<1> QED
  BY <1>1, <1>2, PTL DEF Spec

-----------------------------------------------------------------------------
\* What a browser hears is what the challenge says.
THEOREM MessagesAreTrue == Spec => []MessageIsTrue
<1>1. Init => NoticeInv
  BY TypeInit DEF Init, NoticeInv, NoticeOK, MessageIsTrue, Message
<1>2. NoticeInv /\ [Next]_vars => NoticeInv'
  <2> SUFFICES ASSUME NoticeInv, [Next]_vars PROVE NoticeInv'
    OBVIOUS
  <2> USE DEF NoticeInv, NoticeOK, MessageIsTrue, Message,
              sessionVars, ticketVars, objectVars, walletVars
  <2>0. TypeOK'
    BY TypeStep
  <2>1. CASE Decide
    BY <2>0, <2>1 DEF Decide, ProofOk, Fail, Notify, TypeOK
  <2>2. CASE Push
    BY <2>0, <2>2 DEF Push, handle_notify, TypeOK
  <2>3. CASE UpdateSession \/ PushTimesOut \/ NoticeIsLost
    BY <2>0, <2>3 DEF UpdateSession, PushTimesOut, NoticeIsLost, TypeOK
  <2>4. CASE UNCHANGED <<challenge, notice, heard>>
    BY <2>0, <2>4
  <2>5. ASSUME NEW u \in Upgrade,
               ReadSession(u) \/ CheckMarker(u) \/ PutMarker(u) \/ RefuseMarked(u)
               \/ handle_ws_upgrade(u) \/ Leave(u)
        PROVE  NoticeInv'
    BY <2>4, <2>5 DEF ReadSession, CheckMarker, PutMarker, RefuseMarked, Refuse,
       handle_ws_upgrade, Leave
  <2>6. CASE UNCHANGED vars \/ Alarm \/ PollRead \/ PollWrite \/ Tick
    BY <2>4, <2>6 DEF vars, Alarm, PollRead, PollWrite, Tick
  <2> QED
    BY <2>1, <2>2, <2>3, <2>5, <2>6 DEF Next
<1>3. NoticeInv => MessageIsTrue
  BY DEF NoticeInv
<1> QED
  BY <1>1, <1>2, <1>3, PTL DEF Spec

=============================================================================
