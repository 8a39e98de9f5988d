------------------------ MODULE EventDelivery_proofs ------------------------
(***************************************************************************)
(* Theorems about the event session, for every set of events, any number   *)
(* of connections, sends and restarts.                                     *)
(***************************************************************************)
EXTENDS EventDelivery, SequenceTheorems, TLAPS

USE DeliveryAssumption DEF ghostVars, wireVars, handlerVars, entryVars, historyVars

Ack == Events \cup {Registered}

LEMMA WireTypes ==
  ASSUME TypeOK, NEW n \in Conns
  PROVE  /\ toMirage[n] \in Seq(Events)
         /\ toMirage[n] # << >> =>
              Head(toMirage[n]) \in Events /\ Tail(toMirage[n]) \in Seq(Events)
         /\ \A e \in Events : Append(toMirage[n], e) \in Seq(Events)
         /\ toGhost[n] \in Seq(Ack)
         /\ toGhost[n] # << >> =>
              Head(toGhost[n]) \in Ack /\ Tail(toGhost[n]) \in Seq(Ack)
         /\ \A a \in Ack : Append(toGhost[n], a) \in Seq(Ack)
  <1>1. toMirage[n] \in Seq(Events) /\ toGhost[n] \in Seq(Ack)
    BY DEF TypeOK, Ack
  <1>2. QED
    BY <1>1, HeadTailProperties, AppendProperties

LEMMA InitType == Init => TypeOK
  <1> SUFFICES ASSUME Init PROVE TypeOK
    OBVIOUS
  <1>1. << >> \in Seq(Events) /\ << >> \in Seq(Events \cup {Registered})
    BY EmptySeq
  <1>2. QED
    BY <1>1 DEF Init, TypeOK, Conns, HandlerState, Working, Talking

\* A Ghost that is not offline has a connection, one that sends has an event.
LEMMA CurrentConn ==
  ASSUME TypeOK
  PROVE  /\ phase # "offline" => conn \in Conns
         /\ phase \in {"waiting", "backoff"} => sending \in Events
  BY DEF TypeOK

LEMMA AttemptType ==
  ASSUME TypeOK, conn \in Conns, NEW e \in Events, Attempt(e)
  PROVE  /\ toMirage' \in [Conns -> Seq(Events)]
         /\ writes' \in 0 .. MaxWrites
         /\ phase' \in {"waiting", "backoff"}
  <1>1. Append(toMirage[conn], e) \in Seq(Events)
    BY WireTypes
  <1>2. toMirage' \in [Conns -> Seq(Events)]
    BY <1>1 DEF TypeOK, Attempt
  <1>3. QED
    BY <1>2 DEF TypeOK, Attempt

LEMMA TypeNext == TypeOK /\ [Next]_vars => TypeOK'
  <1> SUFFICES ASSUME TypeOK, [Next]_vars PROVE TypeOK'
    OBVIOUS
  <1> USE DEF Conns, HandlerState, Working, Talking, Ack
  <1>1. CASE Dial
    BY <1>1 DEF TypeOK, Dial
  <1>2. CASE OpenSession
    <2>1. toGhost' \in [Conns -> Seq(Ack)]
      BY <1>2, WireTypes, CurrentConn DEF TypeOK, OpenSession
    <2>2. QED
      BY <1>2, <2>1 DEF TypeOK, OpenSession
  <1>3. CASE Retry
    <2>1. conn \in Conns /\ sending \in Events
      BY <1>3, CurrentConn DEF Retry
    <2>2. QED
      BY <1>3, <2>1, AttemptType DEF TypeOK, Retry
  <1>4. CASE ReadAck
    <2>1. toGhost' \in [Conns -> Seq(Ack)]
      BY <1>4, WireTypes, CurrentConn DEF TypeOK, ReadAck
    <2>2. QED
      BY <1>4, <2>1, CurrentConn DEF TypeOK, ReadAck
  <1>5. CASE ReadWrongAck
    <2>1. toGhost' \in [Conns -> Seq(Ack)]
      BY <1>5, WireTypes, CurrentConn DEF TypeOK, ReadWrongAck
    <2>2. QED
      BY <1>5, <2>1 DEF TypeOK, ReadWrongAck
  <1>6. CASE AckTimeout
    BY <1>6 DEF TypeOK, AckTimeout
  <1>7. CASE GiveUp
    BY <1>7 DEF TypeOK, GiveUp
  <1>8. CASE HangUp
    BY <1>8 DEF TypeOK, HangUp
  <1>9. CASE Restart
    <2>1. << >> \in Seq(Events)
      BY EmptySeq
    <2>2. QED
      BY <1>9, <2>1 DEF TypeOK, Restart
  <1>10. ASSUME NEW e \in Events, SendEventWithAck(e) PROVE TypeOK'
    <2>1. conn \in Conns
      BY <1>10, CurrentConn DEF SendEventWithAck
    <2>2. QED
      BY <1>10, <2>1, AttemptType DEF TypeOK, SendEventWithAck
  <1>11. ASSUME NEW n \in Conns, Refuse(n) PROVE TypeOK'
    BY <1>11 DEF TypeOK, Refuse
  <1>12. ASSUME NEW n \in Conns, UpsertRegistration(n) PROVE TypeOK'
    BY <1>12 DEF TypeOK, UpsertRegistration
  <1>13. ASSUME NEW n \in Conns, AckRegistration(n) PROVE TypeOK'
    <2>0. Append(toGhost[n], Registered) \in Seq(Ack)
      BY WireTypes
    <2>1. toGhost' \in [Conns -> Seq(Ack)]
      BY <1>13, <2>0 DEF TypeOK, AckRegistration
    <2>2. QED
      BY <1>13, <2>1 DEF TypeOK, AckRegistration
  <1>14. ASSUME NEW n \in Conns, ObserveEvent(n) PROVE TypeOK'
    <2>1. /\ Head(toMirage[n]) \in Events
          /\ toMirage' \in [Conns -> Seq(Events)]
      BY <1>14, WireTypes DEF TypeOK, ObserveEvent
    <2>2. QED
      BY <1>14, <2>1 DEF TypeOK, ObserveEvent
  <1>15. ASSUME NEW n \in Conns, AckEvent(n) PROVE TypeOK'
    <2>1. reading[n] \in Events
      BY <1>15 DEF TypeOK, AckEvent
    <2>2. /\ ackByEvent' \subseteq Events
          /\ eventCount' \in Nat
          /\ accepted' \subseteq Events
      BY <1>15, <2>1 DEF TypeOK, AckEvent, Record
    <2>0. Append(toGhost[n], reading[n]) \in Seq(Ack)
      BY <2>1, WireTypes
    <2>3. toGhost' \in [Conns -> Seq(Ack)]
      BY <1>15, <2>0 DEF TypeOK, AckEvent
    <2>4. QED
      BY <1>15, <2>2, <2>3 DEF TypeOK, AckEvent
  <1>16. ASSUME NEW n \in Conns, ReadFails(n) PROVE TypeOK'
    BY <1>16 DEF TypeOK, ReadFails
  <1>17. ASSUME NEW n \in Conns, MarkGhostDisconnected(n) PROVE TypeOK'
    BY <1>17 DEF TypeOK, MarkGhostDisconnected
  <1>18. CASE UNCHANGED vars
    BY <1>18 DEF TypeOK, vars
  <1>19. QED
    BY <1>1, <1>2, <1>3, <1>4, <1>5, <1>6, <1>7, <1>8, <1>9, <1>10, <1>11,
       <1>12, <1>13, <1>14, <1>15, <1>16, <1>17, <1>18 DEF Next

\* Every variable has its type.
THEOREM TypeCorrect == Spec => []TypeOK
  <1>1. QED
    BY InitType, TypeNext, PTL DEF Spec

LEMMA AddressNext == TypeOK /\ AddressIsLive /\ [Next]_vars => AddressIsLive'
  <1> SUFFICES ASSUME TypeOK, AddressIsLive, [Next]_vars PROVE AddressIsLive'
    OBVIOUS
  <1>1. CASE Dial
    BY <1>1 DEF TypeOK, AddressIsLive, Working, Conns, Dial
  <1>2. CASE OpenSession
    BY <1>2 DEF TypeOK, AddressIsLive, Working, Conns, OpenSession
  <1>3. CASE Retry
    BY <1>3 DEF TypeOK, AddressIsLive, Working, Conns, Retry
  <1>4. CASE ReadAck
    BY <1>4 DEF TypeOK, AddressIsLive, Working, Conns, ReadAck
  <1>5. CASE ReadWrongAck
    BY <1>5 DEF TypeOK, AddressIsLive, Working, Conns, ReadWrongAck
  <1>6. CASE AckTimeout
    BY <1>6 DEF TypeOK, AddressIsLive, Working, Conns, AckTimeout
  <1>7. CASE GiveUp
    BY <1>7 DEF TypeOK, AddressIsLive, Working, Conns, GiveUp
  <1>8. CASE HangUp
    BY <1>8 DEF TypeOK, AddressIsLive, Working, Conns, HangUp
  <1>9. CASE Restart
    BY <1>9 DEF TypeOK, AddressIsLive, Working, Conns, Restart
  <1>10. ASSUME NEW e \in Events, SendEventWithAck(e) PROVE AddressIsLive'
    BY <1>10 DEF TypeOK, AddressIsLive, Working, Conns, SendEventWithAck
  <1>11. ASSUME NEW n \in Conns, Refuse(n) PROVE AddressIsLive'
    BY <1>11 DEF TypeOK, AddressIsLive, Working, Conns, Refuse
  <1>12. ASSUME NEW n \in Conns, UpsertRegistration(n) PROVE AddressIsLive'
    BY <1>12 DEF TypeOK, AddressIsLive, Working, Conns, UpsertRegistration
  <1>13. ASSUME NEW n \in Conns, AckRegistration(n) PROVE AddressIsLive'
    BY <1>13 DEF TypeOK, AddressIsLive, Working, Conns, AckRegistration
  <1>14. ASSUME NEW n \in Conns, ObserveEvent(n) PROVE AddressIsLive'
    BY <1>14 DEF TypeOK, AddressIsLive, Working, Conns, ObserveEvent
  <1>15. ASSUME NEW n \in Conns, AckEvent(n) PROVE AddressIsLive'
    BY <1>15 DEF TypeOK, AddressIsLive, Working, Conns, AckEvent
  <1>16. ASSUME NEW n \in Conns, ReadFails(n) PROVE AddressIsLive'
    BY <1>16 DEF TypeOK, AddressIsLive, Working, Conns, ReadFails
  <1>17. ASSUME NEW n \in Conns, MarkGhostDisconnected(n) PROVE AddressIsLive'
    BY <1>17 DEF TypeOK, AddressIsLive, Working, Conns, MarkGhostDisconnected
  <1>18. CASE UNCHANGED vars
    BY <1>18 DEF TypeOK, AddressIsLive, Working, Conns, vars
  <1>19. QED
    BY <1>1, <1>2, <1>3, <1>4, <1>5, <1>6, <1>7, <1>8, <1>9, <1>10, <1>11,
       <1>12, <1>13, <1>14, <1>15, <1>16, <1>17, <1>18 DEF Next

\* The registry never shows a connection whose goroutine is over, however
\* connections overlap.
THEOREM AddressesAreLive == Spec => []AddressIsLive
  <1>1. Init => AddressIsLive
    BY DEF Init, AddressIsLive
  <1>2. QED
    BY <1>1, AddressNext, TypeCorrect, PTL DEF Spec

-----------------------------------------------------------------------------
(***************************************************************************)
(* SessionInv, part by part.                                               *)
(***************************************************************************)

\* A send writes on the current connection only.
LEMMA AttemptFrame ==
  ASSUME TypeOK, conn \in Conns, NEW e \in Events, Attempt(e)
  PROVE  /\ \A n \in Conns : n # conn => toMirage'[n] = toMirage[n]
         /\ \/ phase' = "backoff" /\ toMirage'[conn] = toMirage[conn]
            \/ phase' = "waiting" /\ toMirage'[conn] = Append(toMirage[conn], e)
  <1>1. CASE UNCHANGED toMirage /\ phase' = "backoff"
    BY <1>1
  <1>2. CASE /\ toMirage' = [toMirage EXCEPT ![conn] = Append(@, e)]
             /\ phase' = "waiting"
    BY <1>2 DEF TypeOK
  <1>3. QED
    BY <1>1, <1>2 DEF Attempt

LEMMA UndialledNext == TypeOK /\ Undialled /\ [Next]_vars => Undialled'
  <1> SUFFICES ASSUME TypeOK, Undialled, [Next]_vars PROVE Undialled'
    OBVIOUS
  <1>1. CASE Dial
    BY <1>1 DEF TypeOK, Undialled, Empty, Conns, Dial
  <1>2. CASE OpenSession
    BY <1>2 DEF TypeOK, Undialled, Empty, Conns, OpenSession
  <1>3. CASE Retry
    <2>1. conn \in Conns /\ sending \in Events
      BY <1>3, CurrentConn DEF Retry
    <2>2. \A n \in Conns : n # conn => toMirage'[n] = toMirage[n]
      BY <1>3, <2>1, AttemptFrame DEF Retry
    <2>3. QED
      BY <1>3, <2>1, <2>2 DEF Undialled, Empty, Conns, Retry
  <1>4. CASE ReadAck
    BY <1>4 DEF TypeOK, Undialled, Empty, Conns, ReadAck
  <1>5. CASE ReadWrongAck
    BY <1>5 DEF TypeOK, Undialled, Empty, Conns, ReadWrongAck
  <1>6. CASE AckTimeout
    BY <1>6 DEF TypeOK, Undialled, Empty, Conns, AckTimeout
  <1>7. CASE GiveUp
    BY <1>7 DEF TypeOK, Undialled, Empty, Conns, GiveUp
  <1>8. CASE HangUp
    BY <1>8 DEF TypeOK, Undialled, Empty, Conns, HangUp
  <1>9. CASE Restart
    BY <1>9 DEF TypeOK, Undialled, Empty, Conns, Restart
  <1>10. ASSUME NEW e \in Events, SendEventWithAck(e) PROVE Undialled'
    <2>1. conn \in Conns /\ e \in Events
      BY <1>10, CurrentConn DEF SendEventWithAck
    <2>2. \A n \in Conns : n # conn => toMirage'[n] = toMirage[n]
      BY <1>10, <2>1, AttemptFrame DEF SendEventWithAck
    <2>3. QED
      BY <1>10, <2>1, <2>2 DEF Undialled, Empty, Conns, SendEventWithAck
  <1>11. ASSUME NEW n \in Conns, Refuse(n) PROVE Undialled'
    BY <1>11 DEF TypeOK, Undialled, Empty, Conns, Refuse
  <1>12. ASSUME NEW n \in Conns, UpsertRegistration(n) PROVE Undialled'
    BY <1>12 DEF TypeOK, Undialled, Empty, Conns, UpsertRegistration
  <1>13. ASSUME NEW n \in Conns, AckRegistration(n) PROVE Undialled'
    BY <1>13 DEF TypeOK, Undialled, Empty, Conns, AckRegistration
  <1>14. ASSUME NEW n \in Conns, ObserveEvent(n) PROVE Undialled'
    BY <1>14 DEF TypeOK, Undialled, Empty, Conns, ObserveEvent
  <1>15. ASSUME NEW n \in Conns, AckEvent(n) PROVE Undialled'
    BY <1>15 DEF TypeOK, Undialled, Empty, Conns, AckEvent
  <1>16. ASSUME NEW n \in Conns, ReadFails(n) PROVE Undialled'
    BY <1>16 DEF TypeOK, Undialled, Empty, Conns, ReadFails
  <1>17. ASSUME NEW n \in Conns, MarkGhostDisconnected(n) PROVE Undialled'
    BY <1>17 DEF TypeOK, Undialled, Empty, Conns, MarkGhostDisconnected
  <1>18. CASE UNCHANGED vars
    BY <1>18 DEF TypeOK, Undialled, Empty, Conns, vars
  <1>19. QED
    BY <1>1, <1>2, <1>3, <1>4, <1>5, <1>6, <1>7, <1>8, <1>9, <1>10, <1>11,
       <1>12, <1>13, <1>14, <1>15, <1>16, <1>17, <1>18 DEF Next

LEMMA ServedNext ==
  TypeOK /\ Registering /\ SessionServed /\ [Next]_vars => SessionServed'
  <1> SUFFICES ASSUME TypeOK, Registering, SessionServed, [Next]_vars PROVE SessionServed'
    OBVIOUS
  <1>1. CASE Dial
    BY <1>1 DEF TypeOK, SessionServed, Talking, Conns, Dial
  <1>2. CASE OpenSession
    BY <1>2 DEF OpenSession, Registering, SessionServed, Empty
  <1>3. CASE Retry
    BY <1>3 DEF Retry, SessionServed, Talking
  <1>4. CASE ReadAck
    BY <1>4 DEF TypeOK, SessionServed, Talking, Conns, ReadAck
  <1>5. CASE ReadWrongAck
    BY <1>5 DEF TypeOK, SessionServed, Talking, Conns, ReadWrongAck
  <1>6. CASE AckTimeout
    BY <1>6 DEF TypeOK, SessionServed, Talking, Conns, AckTimeout
  <1>7. CASE GiveUp
    BY <1>7 DEF TypeOK, SessionServed, Talking, Conns, GiveUp
  <1>8. CASE HangUp
    BY <1>8 DEF TypeOK, SessionServed, Talking, Conns, HangUp
  <1>9. CASE Restart
    BY <1>9 DEF TypeOK, SessionServed, Talking, Conns, Restart
  <1>10. ASSUME NEW e \in Events, SendEventWithAck(e) PROVE SessionServed'
    BY <1>10 DEF SendEventWithAck, SessionServed, Talking
  <1>11. ASSUME NEW n \in Conns, Refuse(n) PROVE SessionServed'
    BY <1>11 DEF TypeOK, SessionServed, Talking, Conns, Refuse
  <1>12. ASSUME NEW n \in Conns, UpsertRegistration(n) PROVE SessionServed'
    BY <1>12 DEF TypeOK, SessionServed, Talking, Conns, UpsertRegistration
  <1>13. ASSUME NEW n \in Conns, AckRegistration(n) PROVE SessionServed'
    BY <1>13 DEF TypeOK, SessionServed, Talking, Conns, AckRegistration
  <1>14. ASSUME NEW n \in Conns, ObserveEvent(n) PROVE SessionServed'
    BY <1>14 DEF TypeOK, SessionServed, Talking, Conns, ObserveEvent
  <1>15. ASSUME NEW n \in Conns, AckEvent(n) PROVE SessionServed'
    BY <1>15 DEF TypeOK, SessionServed, Talking, Conns, AckEvent
  <1>16. ASSUME NEW n \in Conns, ReadFails(n) PROVE SessionServed'
    BY <1>16 DEF TypeOK, SessionServed, Talking, Conns, ReadFails
  <1>17. ASSUME NEW n \in Conns, MarkGhostDisconnected(n) PROVE SessionServed'
    BY <1>17 DEF TypeOK, SessionServed, Talking, Conns, MarkGhostDisconnected
  <1>18. CASE UNCHANGED vars
    BY <1>18 DEF TypeOK, SessionServed, Talking, Conns, vars
  <1>19. QED
    BY <1>1, <1>2, <1>3, <1>4, <1>5, <1>6, <1>7, <1>8, <1>9, <1>10, <1>11,
       <1>12, <1>13, <1>14, <1>15, <1>16, <1>17, <1>18 DEF Next

LEMMA RegisteringNext ==
  TypeOK /\ Undialled /\ Registering /\ [Next]_vars => Registering'
  <1> SUFFICES ASSUME TypeOK, Undialled, Registering, [Next]_vars PROVE Registering'
    OBVIOUS
  <1>1. CASE Dial
    BY <1>1 DEF TypeOK, Registering, Undialled, Empty, Conns, Dial
  <1>2. CASE OpenSession
    BY <1>2 DEF TypeOK, Registering, Empty, Conns, OpenSession
  <1>3. CASE Retry
    BY <1>3 DEF Registering, Retry, Attempt
  <1>4. CASE ReadAck
    BY <1>4 DEF TypeOK, Registering, Empty, Conns, ReadAck
  <1>5. CASE ReadWrongAck
    BY <1>5 DEF TypeOK, Registering, Empty, Conns, ReadWrongAck
  <1>6. CASE AckTimeout
    BY <1>6 DEF TypeOK, Registering, Empty, Conns, AckTimeout
  <1>7. CASE GiveUp
    BY <1>7 DEF TypeOK, Registering, Empty, Conns, GiveUp
  <1>8. CASE HangUp
    BY <1>8 DEF TypeOK, Registering, Empty, Conns, HangUp
  <1>9. CASE Restart
    BY <1>9 DEF TypeOK, Registering, Empty, Conns, Restart
  <1>10. ASSUME NEW e \in Events, SendEventWithAck(e) PROVE Registering'
    BY <1>10 DEF Registering, SendEventWithAck, Attempt
  <1>11. ASSUME NEW n \in Conns, Refuse(n) PROVE Registering'
    BY <1>11 DEF TypeOK, Registering, Empty, Conns, Refuse
  <1>12. ASSUME NEW n \in Conns, UpsertRegistration(n) PROVE Registering'
    BY <1>12 DEF TypeOK, Registering, Empty, Conns, UpsertRegistration
  <1>13. ASSUME NEW n \in Conns, AckRegistration(n) PROVE Registering'
    <2>1. ASSUME phase = "registering", n = conn PROVE Registering'
      <3>1. Empty(conn)
        BY <1>13, <2>1 DEF Registering, AckRegistration
      <3>2. Append(toGhost[conn], Registered) = <<Registered>>
        BY <3>1 DEF Empty
      <3>3. CASE handler' = [handler EXCEPT ![n] = "dropped"] /\ UNCHANGED toGhost
        BY <1>13, <2>1, <3>1, <3>3 DEF Registering, Empty, AckRegistration
      <3>4. CASE /\ toGhost' = [toGhost EXCEPT ![n] = Append(@, Registered)]
                 /\ handler' = [handler EXCEPT ![n] = "serving"]
        BY <1>13, <2>1, <3>1, <3>2, <3>4 DEF TypeOK, Registering, Empty, AckRegistration
      <3>5. QED
        BY <1>13, <3>3, <3>4 DEF AckRegistration
    <2>2. CASE phase = "registering" /\ n # conn
      BY <1>13, <2>2, CurrentConn DEF TypeOK, Registering, Empty, AckRegistration
    <2>3. QED
      BY <1>13, <2>1, <2>2 DEF Registering, AckRegistration
  <1>14. ASSUME NEW n \in Conns, ObserveEvent(n) PROVE Registering'
    BY <1>14 DEF TypeOK, Registering, Empty, Conns, ObserveEvent
  <1>15. ASSUME NEW n \in Conns, AckEvent(n) PROVE Registering'
    BY <1>15 DEF TypeOK, Registering, Empty, Conns, AckEvent
  <1>16. ASSUME NEW n \in Conns, ReadFails(n) PROVE Registering'
    BY <1>16 DEF TypeOK, Registering, Empty, Conns, ReadFails
  <1>17. ASSUME NEW n \in Conns, MarkGhostDisconnected(n) PROVE Registering'
    BY <1>17 DEF TypeOK, Registering, Empty, Conns, MarkGhostDisconnected
  <1>18. CASE UNCHANGED vars
    BY <1>18 DEF TypeOK, Registering, Empty, Conns, vars
  <1>19. QED
    BY <1>1, <1>2, <1>3, <1>4, <1>5, <1>6, <1>7, <1>8, <1>9, <1>10, <1>11,
       <1>12, <1>13, <1>14, <1>15, <1>16, <1>17, <1>18 DEF Next

LEMMA OneFrameNext ==
  TypeOK /\ Undialled /\ Registering /\ SessionServed /\ OneFrame /\ [Next]_vars
    => OneFrame'
  <1> SUFFICES ASSUME TypeOK, Undialled, Registering, SessionServed, OneFrame, [Next]_vars
               PROVE  OneFrame'
    OBVIOUS
  <1>1. CASE Dial
    BY <1>1 DEF TypeOK, OneFrame, Empty, Talking, Dial
  <1>2. CASE OpenSession
    BY <1>2, CurrentConn DEF TypeOK, OneFrame, Registering, Empty, Talking, OpenSession
  <1>3. CASE Retry
    BY <1>3, AttemptFrame, CurrentConn DEF TypeOK, OneFrame, Empty, Talking, Retry
  <1>4. CASE ReadAck
    <2>1. CASE abandoned = 0
      <3>1. /\ toMirage[conn] = << >>
            /\ reading[conn] = None
            /\ toGhost[conn] = <<sending>>
        BY <1>4, <2>1 DEF OneFrame, Empty, Talking, ReadAck
      <3>2. Tail(toGhost[conn]) = << >>
        BY <3>1
      <3>3. QED
        BY <1>4, <3>1, <3>2, CurrentConn DEF TypeOK, OneFrame, Empty, ReadAck
    <2>2. CASE abandoned # 0
      BY <1>4, <2>2 DEF OneFrame, ReadAck
    <2>3. QED
      BY <2>1, <2>2
  <1>5. CASE ReadWrongAck
    BY <1>5 DEF TypeOK, OneFrame, Empty, Talking, ReadWrongAck
  <1>6. CASE AckTimeout
    BY <1>6 DEF TypeOK, OneFrame, Empty, Talking, AckTimeout
  <1>7. CASE GiveUp
    BY <1>7 DEF TypeOK, OneFrame, Empty, Talking, GiveUp
  <1>8. CASE HangUp
    BY <1>8 DEF TypeOK, OneFrame, Empty, Talking, HangUp
  <1>9. CASE Restart
    BY <1>9 DEF TypeOK, OneFrame, Empty, Talking, Restart
  <1>10. ASSUME NEW e \in Events, SendEventWithAck(e) PROVE OneFrame'
    BY <1>10, AttemptFrame, CurrentConn
       DEF TypeOK, OneFrame, Empty, Talking, SendEventWithAck
  <1>11. ASSUME NEW n \in Conns, Refuse(n) PROVE OneFrame'
    BY <1>11 DEF TypeOK, OneFrame, Empty, Talking, Refuse
  <1>12. ASSUME NEW n \in Conns, UpsertRegistration(n) PROVE OneFrame'
    BY <1>12 DEF TypeOK, OneFrame, Empty, Talking, UpsertRegistration
  <1>13. ASSUME NEW n \in Conns, AckRegistration(n) PROVE OneFrame'
    BY <1>13, CurrentConn
       DEF TypeOK, OneFrame, SessionServed, Empty, Talking, AckRegistration
  <1>14. ASSUME NEW n \in Conns, ObserveEvent(n) PROVE OneFrame'
    <2>1. CASE n = conn /\ phase \in Talking /\ abandoned = 0
      <3>1. /\ phase = "waiting"
            /\ toMirage[conn] = <<sending>>
            /\ toGhost[conn] = << >>
        BY <1>14, <2>1 DEF OneFrame, Empty, ObserveEvent
      <3>2. Head(toMirage[conn]) = sending /\ Tail(toMirage[conn]) = << >>
        BY <3>1
      <3>3. QED
        BY <1>14, <2>1, <3>1, <3>2 DEF TypeOK, OneFrame, Empty, ObserveEvent
    <2>2. CASE n # conn
      BY <1>14, <2>2, CurrentConn DEF TypeOK, OneFrame, Empty, Talking, ObserveEvent
    <2>3. QED
      BY <1>14, <2>1, <2>2 DEF OneFrame, ObserveEvent
  <1>15. ASSUME NEW n \in Conns, AckEvent(n) PROVE OneFrame'
    BY <1>15 DEF TypeOK, OneFrame, Empty, Talking, AckEvent
  <1>16. ASSUME NEW n \in Conns, ReadFails(n) PROVE OneFrame'
    BY <1>16 DEF TypeOK, OneFrame, Empty, Talking, ReadFails
  <1>17. ASSUME NEW n \in Conns, MarkGhostDisconnected(n) PROVE OneFrame'
    BY <1>17 DEF TypeOK, OneFrame, Empty, Talking, MarkGhostDisconnected
  <1>18. CASE UNCHANGED vars
    BY <1>18 DEF TypeOK, OneFrame, Empty, Talking, vars
  <1>19. QED
    BY <1>1, <1>2, <1>3, <1>4, <1>5, <1>6, <1>7, <1>8, <1>9, <1>10, <1>11,
       <1>12, <1>13, <1>14, <1>15, <1>16, <1>17, <1>18 DEF Next

\* Taking the head off a sequence, or adding a good element, keeps it good.
LEMMA TailKeeps ==
  ASSUME NEW S, NEW A, NEW s \in Seq(S), s # << >>,
         \A k \in DOMAIN s : s[k] \in A
  PROVE  Head(s) \in A /\ \A k \in DOMAIN Tail(s) : Tail(s)[k] \in A
  <1>1. /\ Len(s) \in Nat \ {0}
        /\ DOMAIN s = 1 .. Len(s)
        /\ Head(s) = s[1]
    BY EmptySeq, LenProperties
  <1>2. /\ Tail(s) \in Seq(S)
        /\ Len(Tail(s)) = Len(s) - 1
        /\ \A k \in 1 .. Len(Tail(s)) : Tail(s)[k] = s[k + 1]
    BY HeadTailProperties
  <1>3. DOMAIN Tail(s) = 1 .. (Len(s) - 1)
    BY <1>2, LenProperties
  <1>4. QED
    BY <1>1, <1>2, <1>3

LEMMA AppendKeeps ==
  ASSUME NEW S, NEW A, NEW s \in Seq(S), NEW a \in S, a \in A,
         \A k \in DOMAIN s : s[k] \in A
  PROVE  \A k \in DOMAIN Append(s, a) : Append(s, a)[k] \in A
  <1>1. Len(s) \in Nat /\ DOMAIN s = 1 .. Len(s)
    BY LenProperties
  <1>2. /\ Append(s, a) \in Seq(S)
        /\ Len(Append(s, a)) = Len(s) + 1
        /\ \A k \in 1 .. Len(s) : Append(s, a)[k] = s[k]
        /\ Append(s, a)[Len(s) + 1] = a
    BY AppendProperties
  <1>3. DOMAIN Append(s, a) = 1 .. (Len(s) + 1)
    BY <1>2, LenProperties
  <1>4. QED
    BY <1>1, <1>2, <1>3

LEMMA TailIsReal ==
  ASSUME TypeOK, AcksAreReal, NEW n \in Conns, toGhost[n] # << >>,
         toGhost' = [toGhost EXCEPT ![n] = Tail(@)],
         UNCHANGED <<ackByEvent, accepted>>
  PROVE  AcksAreReal'
  <1>1. \A k \in DOMAIN Tail(toGhost[n]) :
          Tail(toGhost[n])[k] \in accepted \cup {Registered}
    BY WireTypes, TailKeeps DEF AcksAreReal
  <1>2. QED
    BY <1>1 DEF TypeOK, AcksAreReal

LEMMA AcksNext == TypeOK /\ AcksAreReal /\ [Next]_vars => AcksAreReal'
  <1> SUFFICES ASSUME TypeOK, AcksAreReal, [Next]_vars PROVE AcksAreReal'
    OBVIOUS
  <1>1. CASE Dial
    BY <1>1 DEF AcksAreReal, Dial
  <1>2. CASE OpenSession
    <2>1. conn \in Conns
      BY <1>2, CurrentConn DEF OpenSession
    <2>2. QED
      BY <1>2, <2>1, TailIsReal DEF OpenSession
  <1>3. CASE Retry
    BY <1>3 DEF AcksAreReal, Retry
  <1>4. CASE ReadAck
    <2>1. conn \in Conns
      BY <1>4, CurrentConn DEF ReadAck
    <2>2. QED
      BY <1>4, <2>1, TailIsReal DEF ReadAck
  <1>5. CASE ReadWrongAck
    <2>1. conn \in Conns
      BY <1>5, CurrentConn DEF ReadWrongAck
    <2>2. QED
      BY <1>5, <2>1, TailIsReal DEF ReadWrongAck
  <1>6. CASE AckTimeout
    BY <1>6 DEF AcksAreReal, AckTimeout
  <1>7. CASE GiveUp
    BY <1>7 DEF AcksAreReal, GiveUp
  <1>8. CASE HangUp
    BY <1>8 DEF AcksAreReal, HangUp
  <1>9. CASE Restart
    BY <1>9 DEF AcksAreReal, Restart
  <1>10. ASSUME NEW e \in Events, SendEventWithAck(e) PROVE AcksAreReal'
    BY <1>10 DEF AcksAreReal, SendEventWithAck
  <1>11. ASSUME NEW n \in Conns, Refuse(n) PROVE AcksAreReal'
    BY <1>11 DEF AcksAreReal, Refuse
  <1>12. ASSUME NEW n \in Conns, UpsertRegistration(n) PROVE AcksAreReal'
    BY <1>12 DEF AcksAreReal, UpsertRegistration
  <1>13. ASSUME NEW n \in Conns, AckRegistration(n) PROVE AcksAreReal'
    <2>1. \A k \in DOMAIN Append(toGhost[n], Registered) :
            Append(toGhost[n], Registered)[k] \in accepted \cup {Registered}
      <3>1. toGhost[n] \in Seq(Ack) /\ Registered \in Ack
        BY WireTypes DEF Ack
      <3>2. QED
        BY <3>1, AppendKeeps DEF AcksAreReal
    <2>2. CASE toGhost' = [toGhost EXCEPT ![n] = Append(@, Registered)]
      BY <1>13, <2>1, <2>2 DEF TypeOK, AcksAreReal, AckRegistration
    <2>3. CASE UNCHANGED toGhost
      BY <1>13, <2>3 DEF AcksAreReal, AckRegistration
    <2>4. QED
      BY <1>13, <2>2, <2>3 DEF AckRegistration
  <1>14. ASSUME NEW n \in Conns, ObserveEvent(n) PROVE AcksAreReal'
    BY <1>14 DEF AcksAreReal, ObserveEvent
  <1>15. ASSUME NEW n \in Conns, AckEvent(n) PROVE AcksAreReal'
    <2> DEFINE e == reading[n]
    <2>1. e \in Events /\ ackByEvent' \subseteq accepted' /\ accepted' = accepted \cup {e}
      BY <1>15 DEF TypeOK, AcksAreReal, AckEvent, Record
    <2>2. \A k \in DOMAIN Append(toGhost[n], e) :
            Append(toGhost[n], e)[k] \in accepted' \cup {Registered}
      <3>1. toGhost[n] \in Seq(Ack) /\ e \in Ack
        BY <2>1, WireTypes DEF Ack
      <3>2. /\ e \in accepted' \cup {Registered}
            /\ \A k \in DOMAIN toGhost[n] : toGhost[n][k] \in accepted' \cup {Registered}
        BY <2>1 DEF AcksAreReal
      <3> HIDE DEF e
      <3>3. QED
        BY <3>1, <3>2, AppendKeeps
    <2>3. CASE toGhost' = [toGhost EXCEPT ![n] = Append(@, e)]
      BY <2>1, <2>2, <2>3 DEF TypeOK, AcksAreReal
    <2>4. CASE UNCHANGED toGhost
      BY <2>1, <2>4 DEF AcksAreReal
    <2>5. QED
      BY <1>15, <2>3, <2>4 DEF AckEvent
  <1>16. ASSUME NEW n \in Conns, ReadFails(n) PROVE AcksAreReal'
    BY <1>16 DEF AcksAreReal, ReadFails
  <1>17. ASSUME NEW n \in Conns, MarkGhostDisconnected(n) PROVE AcksAreReal'
    BY <1>17 DEF AcksAreReal, MarkGhostDisconnected
  <1>18. CASE UNCHANGED vars
    BY <1>18 DEF AcksAreReal, vars
  <1>19. QED
    BY <1>1, <1>2, <1>3, <1>4, <1>5, <1>6, <1>7, <1>8, <1>9, <1>10, <1>11,
       <1>12, <1>13, <1>14, <1>15, <1>16, <1>17, <1>18 DEF Next

\* What keeps the acks of a session in step with its events, through
\* overlapping connections, repeated sends and restarts of Mirage.
THEOREM SessionsAreSound == Spec => []SessionInv
  <1>1. Init => SessionInv
    BY DEF Init, SessionInv, Undialled, Registering, SessionServed, OneFrame,
           AcksAreReal, Empty, Talking
  <1>2. TypeOK /\ SessionInv /\ [Next]_vars => SessionInv'
    BY UndialledNext, RegisteringNext, ServedNext, OneFrameNext, AcksNext
       DEF SessionInv
  <1>3. QED
    BY <1>1, <1>2, TypeCorrect, PTL DEF Spec

\* On a session without a timeout no ack is misread.
THEOREM AcksKeepStep == Spec => []AcksInStep
  <1>1. SessionInv => AcksInStep
    BY DEF SessionInv, OneFrame, AcksInStep, Empty
  <1>2. QED
    BY <1>1, SessionsAreSound, PTL

-----------------------------------------------------------------------------
(***************************************************************************)
(* Refinement of EventLedger.                                              *)
(***************************************************************************)
LEMMA LedgerInit == Init => Ledger!Init
  BY DEF Init, Ledger!Init

LEMMA LedgerNext ==
  ASSUME TypeOK, SessionInv, [Next]_vars
  PROVE  [Ledger!Next]_(Ledger!vars)
  <1> USE DEF Ledger!vars
  <1>1. CASE ReadAck
    <2>1. conn \in Conns /\ sending \in Events
      BY <1>1, CurrentConn DEF ReadAck
    <2>2. Head(toGhost[conn]) \in accepted \cup {Registered}
      BY <1>1, <2>1, WireTypes, TailKeeps DEF SessionInv, AcksAreReal, ReadAck
    <2>3. Ledger!Deliver(sending)
      BY <1>1, <2>1, <2>2 DEF Ledger!Deliver, ReadAck
    <2>4. QED
      BY <2>1, <2>3 DEF Ledger!Next
  <1>2. ASSUME NEW n \in Conns, AckEvent(n) PROVE [Ledger!Next]_(Ledger!vars)
    <2>1. reading[n] \in Events
      BY <1>2 DEF TypeOK, AckEvent
    <2>2. CASE reading[n] \in ackByEvent
      BY <1>2, <2>2 DEF SessionInv, AcksAreReal, AckEvent, Record
    <2>3. CASE reading[n] \notin ackByEvent
      <3>1. Ledger!Accept(reading[n])
        BY <1>2, <2>3 DEF Ledger!Accept, AckEvent, Record
      <3>2. QED
        BY <2>1, <3>1 DEF Ledger!Next
    <2>4. QED
      BY <2>2, <2>3
  <1>3. CASE Restart
    BY <1>3 DEF Restart, Ledger!Next, Ledger!Forget
  <1>4. CASE \/ Dial \/ OpenSession \/ Retry \/ ReadWrongAck \/ AckTimeout
             \/ GiveUp \/ HangUp
             \/ \E e \in Events : SendEventWithAck(e)
    BY <1>4 DEF Dial, OpenSession, Retry, ReadWrongAck, AckTimeout, GiveUp,
                HangUp, SendEventWithAck
  <1>5. CASE \E n \in Conns :
               \/ Refuse(n) \/ UpsertRegistration(n) \/ AckRegistration(n)
               \/ ObserveEvent(n) \/ ReadFails(n) \/ MarkGhostDisconnected(n)
    BY <1>5 DEF Refuse, UpsertRegistration, AckRegistration, ObserveEvent,
                ReadFails, MarkGhostDisconnected
  <1>6. CASE UNCHANGED vars
    BY <1>6 DEF vars
  <1>7. QED
    BY <1>1, <1>2, <1>3, <1>4, <1>5, <1>6 DEF Next

\* The session implements EventLedger: an event is counted once however often
\* it is sent, and delivered only if Mirage accepted it.
THEOREM SessionImplementsLedger == Spec => ImplementsLedger
  <1>1. Spec => [](TypeOK /\ SessionInv)
    BY TypeCorrect, SessionsAreSound, PTL
  <1>2. TypeOK /\ SessionInv /\ [Next]_vars => [Ledger!Next]_(Ledger!vars)
    BY LedgerNext
  <1>3. QED
    BY <1>1, <1>2, LedgerInit, PTL DEF Spec, ImplementsLedger, Ledger!Spec
=============================================================================
