-------------------------- MODULE BotInstanceProofs --------------------------
(***************************************************************************)
(* Proofs about BotInstance for every set of bots and attempts, every      *)
(* queue bound and both values of LateLogin and RetryMayThrow: the type    *)
(* invariant, the inductive invariant of connections, and what follows.    *)
(*                                                                         *)
(* The second half assumes that an abandoned socket does not log in and,   *)
(* for InstanceLifecycle, that createBot does not throw in the reconnect   *)
(* timer (the gaps that the runs late_login and retry_throws show): then   *)
(* the instance implements the safety part of InstanceLifecycle, its       *)
(* contract with a control surface, and that of InstanceQueue, its         *)
(* contract with BotManager.                                               *)
(***************************************************************************)
EXTENDS BotInstance, SequenceTheorems, TLAPS

------------------------------------------------------------------------------
(* The promise chain *)

\* Queueing a well-formed operation leaves a well-formed chain.
LEMMA EnqueueTyped ==
  ASSUME queue \in Seq(Operation), NEW op \in Operation, Enqueue(op)
  PROVE  queue' \in Seq(Operation)
BY DEF Enqueue

\* Taking the head leaves a well-formed chain, and the head is an operation.
LEMMA DequeueTyped ==
  ASSUME queue \in Seq(Operation), NEW kind, Dequeue(kind)
  PROVE  queue' \in Seq(Operation) /\ Head(queue) \in Operation
BY HeadTailProperties DEF Dequeue

------------------------------------------------------------------------------
(* Types *)

\* A new instance is typed.
LEMMA InitTyped == Init => TypeOK
<1> SUFFICES ASSUME Init PROVE TypeOK
  OBVIOUS
<1>1. queue \in Seq(Operation)
  BY DEF Init
<1>2. authStatus \in IF config.microsoft THEN AuthStatus ELSE {"none"}
  BY DEF Init, AuthStatus
<1>3. reconnectAttempts \in 0..MaxAttempts
  BY BoundAssumption DEF Init
<1>4. status \in Active \cup Inactive
  BY DEF Init, Inactive
<1>5. QED
  BY <1>1, <1>2, <1>3, <1>4 DEF Init, TypeOK

\* Calls keep the instance typed.
LEMMA CallsTyped == TypeOK /\ Calls => TypeOK'
<1> SUFFICES ASSUME TypeOK, Calls PROVE TypeOK'
  OBVIOUS
<1> USE DEF desired, link, auth, chain, sockets
<1>1. /\ \A k \in {"connect", "disconnect"} : Op(k, NoAttempt) \in Operation
      /\ \A a \in Attempt : Op("authenticate", a) \in Operation
  BY DEF Op, Operation
<1>2. CASE Connect
  BY <1>1, <1>2, EnqueueTyped DEF TypeOK, Connect
<1>3. CASE Disconnect
  BY <1>1, <1>3, EnqueueTyped DEF TypeOK, Disconnect
<1>4. CASE CancelAuthentication
  BY <1>4 DEF TypeOK, CancelAuthentication, AuthStatus
<1>5. ASSUME NEW a \in Attempt, Authenticate(a) PROVE TypeOK'
  BY <1>1, <1>5, EnqueueTyped DEF TypeOK, Authenticate, AuthStatus
<1>6. QED
  BY <1>2, <1>3, <1>4, <1>5 DEF Calls

\* The turns of the queued operations keep the instance typed.
LEMMA OperationsTyped == TypeOK /\ Operations => TypeOK'
<1> SUFFICES ASSUME TypeOK, Operations PROVE TypeOK'
  OBVIOUS
<1> USE DEF desired, link, auth, chain, sockets
<1>1. CASE DoConnect
  <2>1. queue' \in Seq(Operation)
    BY <1>1, DequeueTyped DEF TypeOK, DoConnect
  <2>2. reconnectAttempts' \in 0..MaxAttempts
    BY <1>1, BoundAssumption DEF DoConnect
  <2>3. QED
    BY <1>1, <2>1, <2>2 DEF TypeOK, DoConnect, Active
<1>2. CASE DoConnectRejects
  BY <1>2, DequeueTyped DEF TypeOK, DoConnectRejects
<1>3. CASE InstanceStartFails
  BY <1>3 DEF TypeOK, InstanceStartFails, Inactive
<1>4. ASSUME NEW b \in Bot, InstanceStarted(b) PROVE TypeOK'
  BY <1>4 DEF TypeOK, InstanceStarted, CreateBot
<1>5. CASE DoDisconnectRejects
  BY <1>5, DequeueTyped DEF TypeOK, DoDisconnectRejects
<1>6. CASE DoDisconnectAtOnce
  BY <1>6, DequeueTyped DEF TypeOK, DoDisconnectAtOnce, ClearTimer, FinishDisconnect, Inactive
<1>7. CASE DoDisconnect
  BY <1>7, DequeueTyped DEF TypeOK, DoDisconnect
<1>8. CASE DisconnectConfirmed \/ DisconnectTimesOut
  BY <1>8 DEF TypeOK, DisconnectConfirmed, DisconnectTimesOut, DisconnectSettles,
              FinishDisconnect, Inactive
<1>9. CASE DoAuthenticate
  <2>1. Head(queue).attempt \in Attempt
    BY <1>9, DequeueTyped DEF TypeOK, DoAuthenticate, Dequeue, Operation
  <2>2. QED
    BY <1>9, <2>1, DequeueTyped, AttemptAssumption DEF TypeOK, DoAuthenticate
<1>10. CASE DoAuthenticateSkips
  BY <1>10, DequeueTyped DEF TypeOK, DoAuthenticateSkips
<1>11. ASSUME NEW outcome \in {"authenticated", "auth_error"}, PollSettles(outcome)
       PROVE  TypeOK'
  <2>1. CASE ~AttemptIsCurrent
    BY <1>11, <2>1 DEF TypeOK, PollSettles
  <2>2. CASE AttemptIsCurrent
    <3>1. config.microsoft
      BY <1>11, <2>2 DEF TypeOK, PollSettles, AttemptIsCurrent
    <3>2. QED
      BY <1>11, <2>2, <3>1 DEF TypeOK, PollSettles, AttemptOver, AuthStatus
  <2>3. QED
    BY <2>1, <2>2
<1>12. QED
  BY <1>1, <1>2, <1>3, <1>4, <1>5, <1>6, <1>7, <1>8, <1>9, <1>10, <1>11 DEF Operations

\* The reconnect timer keeps the instance typed.
LEMMA RetryTyped == TypeOK /\ Retry => TypeOK'
<1> SUFFICES ASSUME TypeOK, Retry PROVE TypeOK'
  OBVIOUS
<1> USE DEF desired, link, auth, chain, sockets
<1>1. CASE RetryThrows
  <2>1. reconnectTimer' \in BOOLEAN
    BY <1>1, Zenon DEF RetryThrows
  <2>2. UNCHANGED <<config, status, stopRequested, reconnectAttempts, link, auth, chain, sockets>>
    BY <1>1, Zenon DEF RetryThrows
  <2>3. QED
    BY <2>1, <2>2 DEF TypeOK
<1>2. ASSUME NEW b \in Bot, RetryFires(b) PROVE TypeOK'
  <2>1. open' \in SUBSET Bot
    BY <1>2 DEF TypeOK, RetryFires, CreateBot
  <2>2. currentBot' \in Bot \cup {NoBot} /\ ctx' \in Bot \cup {NoBot} /\ reconnectTimer' \in BOOLEAN
    BY <1>2 DEF RetryFires, CreateBot, FreeBots
  <2>3. UNCHANGED <<config, status, stopRequested, reconnectAttempts, connectedSince, auth, chain,
                    ending, joined, fatal, busy>>
    BY <1>2 DEF RetryFires
  <2>4. QED
    BY <2>1, <2>2, <2>3 DEF TypeOK
<1>3. QED
  BY <1>1, <1>2 DEF Retry

\* The part of the end of a current bot that its three outcomes share.
LEMMA EndCurrentTyped ==
  ASSUME TypeOK, NEW b \in Bot, EndCurrent(b),
         status' \in Active \cup Inactive, ctx' \in Bot \cup {NoBot},
         reconnectTimer' \in BOOLEAN, reconnectAttempts' \in 0..MaxAttempts
  PROVE  TypeOK'
BY DEF TypeOK, EndCurrent, Closed, AbortTasks, auth, chain

\* Scheduling a retry keeps its variables typed.
LEMMA ScheduleReconnectTyped ==
  ASSUME TypeOK, ScheduleReconnect
  PROVE  reconnectTimer' \in BOOLEAN /\ reconnectAttempts' \in 0..MaxAttempts
<1>1. reconnectTimer' \in BOOLEAN
  <2>1. CASE reconnectTimer
    BY <2>1, Zenon DEF TypeOK, ScheduleReconnect
  <2>2. CASE ~reconnectTimer
    BY <2>2, Zenon DEF ScheduleReconnect
  <2>3. QED
    BY <2>1, <2>2
<1>2. reconnectAttempts' \in 0..MaxAttempts
  BY BoundAssumption DEF TypeOK, ScheduleReconnect
<1>3. QED
  BY <1>1, <1>2

\* The listeners of the sockets keep the instance typed.
LEMMA EventsTyped == TypeOK /\ Events => TypeOK'
<1> SUFFICES ASSUME TypeOK, Events PROVE TypeOK'
  OBVIOUS
<1> USE DEF desired, link, auth, chain, sockets
<1>1. CASE OnCode
  BY <1>1 DEF TypeOK, OnCode
<1>2. ASSUME NEW b \in Bot, Login(b) PROVE TypeOK'
  <2>1. reconnectAttempts' \in 0..MaxAttempts
    BY <1>2, BoundAssumption DEF TypeOK, Login
  <2>2. authStatus' \in IF config.microsoft THEN AuthStatus ELSE {"none"}
    BY <1>2 DEF TypeOK, Login, SignedInByLogin, AuthStatus
  <2>3. QED
    BY <1>2, <2>1, <2>2 DEF TypeOK, Login, Active
<1>3. ASSUME NEW b \in Bot, FatalError(b) PROVE TypeOK'
  BY <1>3 DEF TypeOK, FatalError
<1>4. ASSUME NEW b \in Bot, EndAbandoned(b) PROVE TypeOK'
  BY <1>4 DEF TypeOK, EndAbandoned, Closed
<1>5. ASSUME NEW b \in Bot, EndRequested(b) PROVE TypeOK'
  BY <1>5, EndCurrentTyped DEF TypeOK, EndRequested, Inactive
<1>6. ASSUME NEW b \in Bot, EndFatal(b) PROVE TypeOK'
  BY <1>6, EndCurrentTyped DEF TypeOK, EndFatal, Inactive
<1>7. ASSUME NEW b \in Bot, EndDropped(b) PROVE TypeOK'
  BY <1>7, EndCurrentTyped, ScheduleReconnectTyped DEF TypeOK, EndDropped, Active
<1>8. ASSUME NEW b \in Bot, StartTask(b) PROVE TypeOK'
  BY <1>8 DEF TypeOK, StartTask
<1>9. ASSUME NEW b \in Bot, TaskOver(b) PROVE TypeOK'
  BY <1>9 DEF TypeOK, TaskOver
<1>10. QED
  BY <1>1, <1>2, <1>3, <1>4, <1>5, <1>6, <1>7, <1>8, <1>9 DEF Events, End

\* Every field keeps its type, and an offline account never has a sign-in.
THEOREM TypeCorrect == Spec => []TypeOK
<1>1. TypeOK /\ [Next]_vars => TypeOK'
  <2> SUFFICES ASSUME TypeOK, [Next]_vars PROVE TypeOK'
    OBVIOUS
  <2>1. CASE Next
    BY <2>1, CallsTyped, OperationsTyped, RetryTyped, EventsTyped DEF Next
  <2>2. CASE UNCHANGED vars
    BY <2>2 DEF vars, desired, link, auth, chain, sockets, TypeOK
  <2>3. QED
    BY <2>1, <2>2
<1>2. QED
  BY <1>1, InitTyped, PTL DEF Spec

------------------------------------------------------------------------------
(* One connection at a time *)

\* The invariant of the connection holds of a new instance.
LEMMA InitConnection == Init => ConnectionInv
BY DEF Init, ConnectionInv, RecordsAreOpen, SingleConnection, InactiveIsQuiet,
       RetryIsExclusive, OperationsAgree

\* Calls only queue: they keep the invariant of the connection.
LEMMA CallsConnection == TypeOK /\ ConnectionInv /\ Calls => ConnectionInv'
<1> SUFFICES ASSUME TypeOK, ConnectionInv, Calls PROVE ConnectionInv'
  OBVIOUS
<1>1. UNCHANGED <<status, desired, link, pc, sockets>>
  BY DEF Calls, Connect, Disconnect, CancelAuthentication, Authenticate, chain
<1>2. QED
  BY <1>1 DEF ConnectionInv, RecordsAreOpen, SingleConnection, InactiveIsQuiet,
              RetryIsExclusive, OperationsAgree, desired, link, sockets

\* The turns of the queued operations keep the invariant of the connection.
LEMMA OperationsConnection == TypeOK /\ ConnectionInv /\ Operations => ConnectionInv'
<1> SUFFICES ASSUME TypeOK, ConnectionInv, Operations PROVE ConnectionInv'
  OBVIOUS
<1> USE DEF ConnectionInv, RecordsAreOpen, SingleConnection, InactiveIsQuiet,
            RetryIsExclusive, OperationsAgree, desired, link, auth, chain, sockets
<1>1. CASE DoConnect
  BY <1>1 DEF DoConnect, MayConnect, Dequeue, Active, Inactive
<1>2. CASE InstanceStartFails
  BY <1>2 DEF InstanceStartFails, Inactive
<1>3. ASSUME NEW b \in Bot, InstanceStarted(b) PROVE ConnectionInv'
  BY <1>3, BotAssumption DEF TypeOK, InstanceStarted, CreateBot, FreeBots, Active, Inactive
<1>4. CASE DoDisconnectAtOnce
  BY <1>4 DEF DoDisconnectAtOnce, ClearTimer, FinishDisconnect, Dequeue
<1>5. CASE DoDisconnect
  BY <1>5 DEF DoDisconnect, Dequeue
<1>6. CASE DisconnectConfirmed \/ DisconnectTimesOut
  BY <1>6, BotAssumption DEF TypeOK, DisconnectConfirmed, DisconnectTimesOut, DisconnectSettles,
                             FinishDisconnect
<1>7. CASE DoConnectRejects \/ DoDisconnectRejects \/ DoAuthenticateSkips
  BY <1>7 DEF DoConnectRejects, DoDisconnectRejects, DoAuthenticateSkips
<1>8. CASE DoAuthenticate
  BY <1>8 DEF DoAuthenticate
<1>9. ASSUME NEW outcome \in {"authenticated", "auth_error"}, PollSettles(outcome)
      PROVE  ConnectionInv'
  BY <1>9 DEF PollSettles
<1>10. QED
  BY <1>1, <1>2, <1>3, <1>4, <1>5, <1>6, <1>7, <1>8, <1>9 DEF Operations

\* The reconnect timer keeps the invariant of the connection.
LEMMA RetryConnection == TypeOK /\ ConnectionInv /\ Retry => ConnectionInv'
<1> SUFFICES ASSUME TypeOK, ConnectionInv, Retry PROVE ConnectionInv'
  OBVIOUS
<1> USE DEF ConnectionInv, RecordsAreOpen, SingleConnection, InactiveIsQuiet,
            RetryIsExclusive, OperationsAgree, desired, link, auth, chain, sockets
<1>1. CASE RetryThrows
  BY <1>1 DEF RetryThrows
<1>2. ASSUME NEW b \in Bot, RetryFires(b) PROVE ConnectionInv'
  BY <1>2, BotAssumption DEF TypeOK, RetryFires, CreateBot, FreeBots, Active, Inactive
<1>3. QED
  BY <1>1, <1>2 DEF Retry

\* The listeners of the sockets keep the invariant of the connection.
LEMMA EventsConnection == TypeOK /\ ConnectionInv /\ Events => ConnectionInv'
<1> SUFFICES ASSUME TypeOK, ConnectionInv, Events PROVE ConnectionInv'
  OBVIOUS
<1> USE DEF ConnectionInv, RecordsAreOpen, SingleConnection, InactiveIsQuiet,
            RetryIsExclusive, OperationsAgree, desired, link, auth, chain, sockets
<1>1. CASE OnCode
  BY <1>1 DEF OnCode
<1>2. ASSUME NEW b \in Bot, Login(b) PROVE ConnectionInv'
  BY <1>2 DEF Login, Active, Inactive
<1>3. ASSUME NEW b \in Bot, FatalError(b) PROVE ConnectionInv'
  BY <1>3 DEF FatalError
<1>4. ASSUME NEW b \in Bot, EndAbandoned(b) PROVE ConnectionInv'
  BY <1>4 DEF EndAbandoned, IsCurrent, Closed
<1>5. ASSUME NEW b \in Bot, EndRequested(b) PROVE ConnectionInv'
  BY <1>5, BotAssumption DEF EndRequested, EndCurrent, IsCurrent, Closed, Inactive
<1>6. ASSUME NEW b \in Bot, EndFatal(b) PROVE ConnectionInv'
  BY <1>6, BotAssumption DEF EndFatal, EndCurrent, IsCurrent, Closed, Inactive
<1>7. ASSUME NEW b \in Bot, EndDropped(b) PROVE ConnectionInv'
  BY <1>7, BotAssumption DEF EndDropped, EndCurrent, IsCurrent, Closed, ScheduleReconnect,
                             Active, Inactive
<1>8. ASSUME NEW b \in Bot, StartTask(b) \/ TaskOver(b) PROVE ConnectionInv'
  BY <1>8 DEF StartTask, TaskOver
<1>9. QED
  BY <1>1, <1>2, <1>3, <1>4, <1>5, <1>6, <1>7, <1>8 DEF Events, End

\* The inductive invariant holds in every reachable state.
THEOREM ConnectionInvariant == Spec => []ConnectionInv
<1>1. TypeOK /\ ConnectionInv /\ [Next]_vars => ConnectionInv'
  <2> SUFFICES ASSUME TypeOK, ConnectionInv, [Next]_vars PROVE ConnectionInv'
    OBVIOUS
  <2>1. CASE Next
    BY <2>1, CallsConnection, OperationsConnection, RetryConnection, EventsConnection DEF Next
  <2>2. CASE UNCHANGED vars
    BY <2>2 DEF vars, desired, link, auth, chain, sockets, ConnectionInv, RecordsAreOpen,
                SingleConnection, InactiveIsQuiet, RetryIsExclusive, OperationsAgree
  <2>3. QED
    BY <2>1, <2>2
<1>2. QED
  BY <1>1, InitConnection, TypeCorrect, PTL DEF Spec

\* However drops, retries, timed-out disconnects and calls interleave, at most
\* one connection has not been told to end.
THEOREM OneConnection == Spec => []SingleConnection
<1>1. ConnectionInv => SingleConnection
  BY DEF ConnectionInv
<1>2. QED
  BY <1>1, ConnectionInvariant, PTL

\* An instance that shows itself at rest is at rest.
THEOREM AtRest == Spec => []InactiveIsQuiet
<1>1. ConnectionInv => InactiveIsQuiet
  BY DEF ConnectionInv
<1>2. QED
  BY <1>1, ConnectionInvariant, PTL

\* A retry is never scheduled next to a connection, a start or a requested stop.
THEOREM RetryAlone == Spec => []RetryIsExclusive
<1>1. ConnectionInv => RetryIsExclusive
  BY DEF ConnectionInv
<1>2. QED
  BY <1>1, ConnectionInvariant, PTL

\* No listener's record outlives its socket.
THEOREM RecordsOfOpenSockets == Spec => []RecordsAreOpen
<1>1. ConnectionInv => RecordsAreOpen
  BY DEF ConnectionInv
<1>2. QED
  BY <1>1, ConnectionInvariant, PTL

------------------------------------------------------------------------------
(* The task and the device code that a snapshot shows *)

\* A task that getSnapshot() shows is one of a connection that is still open.
THEOREM TaskIsLive == Spec => []ReportedTaskIsLive
<1>1. Init => ShownIsCurrent
  BY DEF Init, ShownIsCurrent, ReportedTaskIsLive
<1>2. TypeOK /\ ConnectionInv /\ ShownIsCurrent /\ [Next]_vars => ShownIsCurrent'
  <2> SUFFICES ASSUME TypeOK, ConnectionInv, ShownIsCurrent, [Next]_vars
               PROVE  ShownIsCurrent'
    OBVIOUS
  <2> USE DEF ShownIsCurrent, ReportedTaskIsLive, desired, link, auth, chain, sockets
  <2>1. NoBot \notin open \cup busy
    BY BotAssumption DEF TypeOK
  <2>2. CASE Calls \/ UNCHANGED vars
    BY <2>2 DEF Calls, Connect, Disconnect, CancelAuthentication, Authenticate, vars
  <2>3. ASSUME NEW b \in Bot, InstanceStarted(b) \/ RetryFires(b) PROVE ShownIsCurrent'
    BY <2>3 DEF InstanceStarted, RetryFires, CreateBot, FreeBots
  <2>4. CASE DoDisconnectAtOnce \/ DisconnectConfirmed \/ DisconnectTimesOut
    BY <2>1, <2>4 DEF DoDisconnectAtOnce, DisconnectConfirmed, DisconnectTimesOut,
                      DisconnectSettles, FinishDisconnect
  <2>5. CASE \/ DoConnect \/ DoConnectRejects \/ InstanceStartFails \/ DoDisconnectRejects
             \/ DoDisconnect \/ DoAuthenticate \/ DoAuthenticateSkips \/ RetryThrows \/ OnCode
             \/ \E outcome \in {"authenticated", "auth_error"} : PollSettles(outcome)
    BY <2>5 DEF DoConnect, DoConnectRejects, InstanceStartFails, DoDisconnectRejects,
                DoDisconnect, DoAuthenticate, DoAuthenticateSkips, RetryThrows, OnCode,
                PollSettles
  <2>6. ASSUME NEW b \in Bot, Login(b) \/ FatalError(b) \/ TaskOver(b) PROVE ShownIsCurrent'
    BY <2>6 DEF Login, FatalError, TaskOver
  <2>7. ASSUME NEW b \in Bot, StartTask(b) PROVE ShownIsCurrent'
    BY <2>7 DEF StartTask, ConnectionInv, RecordsAreOpen
  <2>8. ASSUME NEW b \in Bot, EndAbandoned(b) PROVE ShownIsCurrent'
    BY <2>8 DEF EndAbandoned, IsCurrent, Closed
  <2>9. ASSUME NEW b \in Bot, EndCurrent(b), ctx' = NoBot \/ ctx' = ctx PROVE ShownIsCurrent'
    BY <2>1, <2>9 DEF EndCurrent, IsCurrent, Closed, AbortTasks
  <2>10. QED
    BY <2>2, <2>3, <2>4, <2>5, <2>6, <2>7, <2>8, <2>9
       DEF Next, Operations, Retry, Events, End, EndRequested, EndFatal, EndDropped
<1>3. ShownIsCurrent => ReportedTaskIsLive
  BY DEF ShownIsCurrent
<1>4. QED
  BY <1>1, <1>2, <1>3, TypeCorrect, ConnectionInvariant, PTL DEF Spec

\* The code shown to the user belongs to the attempt that is being polled.
THEOREM CodeIsCurrent == Spec => []DeviceCodeIsCurrent
<1>1. Init => DeviceCodeInv
  BY DEF Init, DeviceCodeInv
<1>2. TypeOK /\ DeviceCodeInv /\ [Next]_vars => DeviceCodeInv'
  <2> SUFFICES ASSUME TypeOK, DeviceCodeInv, [Next]_vars PROVE DeviceCodeInv'
    OBVIOUS
  <2> USE DEF DeviceCodeInv, desired, link, auth, chain, sockets
  <2>1. CASE Calls \/ UNCHANGED vars
    BY <2>1 DEF Calls, Connect, Disconnect, CancelAuthentication, Authenticate, vars
  <2>2. CASE Retry
    BY <2>2 DEF Retry, RetryFires, RetryThrows
  <2>3. CASE OnCode
    BY <2>3 DEF OnCode, AttemptIsCurrent
  <2>4. CASE Events /\ ~OnCode
    BY <2>4 DEF Events, Login, FatalError, StartTask, TaskOver, End, EndAbandoned,
                EndRequested, EndFatal, EndDropped, EndCurrent
  <2>5. ASSUME NEW outcome \in {"authenticated", "auth_error"}, PollSettles(outcome)
        PROVE  DeviceCodeInv'
    BY <2>5 DEF PollSettles, AttemptIsCurrent
  <2>6. CASE Operations /\ pc = "polling"
    BY <2>5, <2>6 DEF Operations, DoConnect, DoConnectRejects, InstanceStarted,
       InstanceStartFails, DoDisconnectRejects, DoDisconnectAtOnce, DoDisconnect,
       DisconnectConfirmed, DisconnectTimesOut, DisconnectSettles, DoAuthenticate,
       DoAuthenticateSkips, Dequeue
  <2>7. CASE Operations /\ pc # "polling"
    <3>1. deviceCode = NoAttempt
      BY <2>7
    <3>2. deviceCode' = NoAttempt
      BY <2>7, <3>1 DEF Operations, DoConnect, DoConnectRejects, InstanceStarted,
         InstanceStartFails, DoDisconnectRejects, DoDisconnectAtOnce, DoDisconnect,
         DisconnectConfirmed, DisconnectTimesOut, DisconnectSettles, DoAuthenticate,
         DoAuthenticateSkips, PollSettles
    <3>3. QED
      BY <3>2
  <2>8. QED
    BY <2>1, <2>2, <2>3, <2>4, <2>6, <2>7 DEF Next
<1>3. DeviceCodeInv => DeviceCodeIsCurrent
  BY DEF DeviceCodeInv, DeviceCodeIsCurrent
<1>4. QED
  BY <1>1, <1>2, <1>3, TypeCorrect, PTL DEF Spec

------------------------------------------------------------------------------
(* Signing in *)

\* A step that ends the poll of an attempt that is no longer current leaves the
\* sign-in as it is.
THEOREM StaleResultsAreDropped == Spec => StaleSignInIsDiscarded
<1>1. ASSUME [Next]_vars, pc = "polling", opAttempt # currentAuthAttempt, pc' # "polling"
      PROVE  UNCHANGED <<authStatus, deviceCode>>
  <2> USE DEF desired, link, auth, chain, sockets
  <2>1. PICK outcome \in {"authenticated", "auth_error"} : PollSettles(outcome)
    BY <1>1 DEF Next, vars, Calls, Connect, Disconnect, CancelAuthentication, Authenticate,
       Operations, DoConnect, DoConnectRejects, InstanceStarted, InstanceStartFails,
       DoDisconnectRejects, DoDisconnectAtOnce, DoDisconnect, DisconnectConfirmed,
       DisconnectTimesOut, DisconnectSettles, DoAuthenticate, DoAuthenticateSkips, Dequeue,
       Retry, RetryFires, RetryThrows, Events, OnCode, Login, FatalError, StartTask, TaskOver,
       End, EndAbandoned, EndRequested, EndFatal, EndDropped, EndCurrent
  <2>2. QED
    BY <1>1, <2>1 DEF PollSettles, AttemptIsCurrent
<1>2. QED
  BY <1>1, PTL DEF Spec, StaleSignInIsDiscarded

\* docs/multi-instance.md:149: while a sign-in is in progress the instance is at
\* rest, if no abandoned socket logs in.
THEOREM SignInExcludesConnect ==
  ASSUME ~LateLogin
  PROVE  Spec => []AuthExcludesConnect
<1>1. Init => AuthExcludesConnect
  BY DEF Init, AuthExcludesConnect
<1>2. TypeOK /\ ConnectionInv /\ AuthExcludesConnect /\ [Next]_vars => AuthExcludesConnect'
  <2> SUFFICES ASSUME TypeOK, ConnectionInv, AuthExcludesConnect, [Next]_vars
               PROVE  AuthExcludesConnect'
    OBVIOUS
  <2> USE DEF AuthExcludesConnect, desired, link, auth, chain, sockets
  <2>1. CASE Calls \/ UNCHANGED vars
    BY <2>1, AttemptAssumption DEF Calls, Connect, Disconnect, CancelAuthentication,
       Authenticate, vars, ConnectionInv, InactiveIsQuiet
  <2>2. CASE Retry
    BY <2>2 DEF Retry, RetryFires, RetryThrows, CreateBot
  <2>3. CASE OnCode
    BY <2>3 DEF OnCode
  <2>4. ASSUME NEW b \in Bot, Login(b) PROVE AuthExcludesConnect'
    <3>1. currentBot # NoBot
      BY <2>4, BotAssumption DEF Login
    <3>2. QED
      BY <2>4, <3>1 DEF Login, SignedInByLogin
  <2>5. ASSUME NEW b \in Bot, FatalError(b) \/ StartTask(b) \/ TaskOver(b) \/ EndAbandoned(b)
        PROVE  AuthExcludesConnect'
    BY <2>5 DEF FatalError, StartTask, TaskOver, EndAbandoned
  <2>6. ASSUME NEW b \in Bot, EndRequested(b) \/ EndFatal(b) \/ EndDropped(b)
        PROVE  AuthExcludesConnect'
    BY <2>6, BotAssumption DEF EndRequested, EndFatal, EndDropped, EndCurrent, IsCurrent
  <2>7. CASE DoConnect
    BY <2>7 DEF DoConnect, MayConnect
  <2>8. CASE InstanceStartFails \/ \E b \in Bot : InstanceStarted(b)
    BY <2>8 DEF InstanceStartFails, InstanceStarted, ConnectionInv, OperationsAgree, Active,
                Inactive
  <2>9. CASE DoDisconnectAtOnce \/ DisconnectConfirmed \/ DisconnectTimesOut
    BY <2>9 DEF DoDisconnectAtOnce, DisconnectConfirmed, DisconnectTimesOut,
                DisconnectSettles, FinishDisconnect, ClearTimer, Inactive
  <2>10. ASSUME NEW outcome \in {"authenticated", "auth_error"}, PollSettles(outcome)
         PROVE  AuthExcludesConnect'
    BY <2>10 DEF PollSettles, AttemptOver
  <2>11. CASE \/ DoConnectRejects \/ DoDisconnectRejects \/ DoDisconnect
              \/ DoAuthenticate \/ DoAuthenticateSkips
    BY <2>11 DEF DoConnectRejects, DoDisconnectRejects, DoDisconnect, DoAuthenticate,
                 DoAuthenticateSkips
  <2>12. QED
    BY <2>1, <2>2, <2>3, <2>4, <2>5, <2>6, <2>7, <2>8, <2>9, <2>10, <2>11
       DEF Next, Operations, Events, End
<1>3. QED
  BY <1>1, <1>2, TypeCorrect, ConnectionInvariant, PTL DEF Spec

------------------------------------------------------------------------------
(* What the status says about the connection *)

\* The invariant of the status holds of a new instance.
LEMMA InitHandle == Init => HandleInv
BY DEF Init, HandleInv, OnlineIsLive, ReconnectingIsRetrying, OpeningAndClosing

\* Calls only queue: they keep the invariant of the status.
LEMMA CallsHandle == HandleInv /\ Calls => HandleInv'
<1> SUFFICES ASSUME HandleInv, Calls PROVE HandleInv'
  OBVIOUS
<1> USE DEF desired, link, auth, chain, sockets, HandleInv, OnlineIsLive,
            ReconnectingIsRetrying, OpeningAndClosing
<1>1. CASE Connect
  BY <1>1 DEF Connect
<1>2. CASE Disconnect
  BY <1>2 DEF Disconnect
<1>3. CASE CancelAuthentication
  BY <1>3 DEF CancelAuthentication
<1>4. ASSUME NEW a \in Attempt, Authenticate(a) PROVE HandleInv'
  BY <1>4 DEF Authenticate
<1>5. QED
  BY <1>1, <1>2, <1>3, <1>4 DEF Calls

\* The turns of the queued operations keep the status true.
LEMMA OperationsHandle == TypeOK /\ ConnectionInv /\ HandleInv /\ Operations => HandleInv'
<1> SUFFICES ASSUME TypeOK, ConnectionInv, HandleInv, Operations PROVE HandleInv'
  OBVIOUS
<1> USE DEF desired, link, auth, chain, sockets, HandleInv, OnlineIsLive,
            ReconnectingIsRetrying, OpeningAndClosing, Dequeue
<1>1. CASE DoConnect
  BY <1>1 DEF DoConnect, MayConnect, ConnectionInv, InactiveIsQuiet
<1>2. CASE DoConnectRejects \/ DoDisconnectRejects \/ DoAuthenticateSkips
  BY <1>2 DEF DoConnectRejects, DoDisconnectRejects, DoAuthenticateSkips
<1>3. CASE InstanceStartFails
  BY <1>3 DEF InstanceStartFails
<1>4. ASSUME NEW b \in Bot, InstanceStarted(b) PROVE HandleInv'
  BY <1>4, BotAssumption DEF InstanceStarted, CreateBot
<1>5. CASE DoDisconnectAtOnce
  BY <1>5 DEF DoDisconnectAtOnce, FinishDisconnect
<1>6. CASE DoDisconnect
  BY <1>6 DEF DoDisconnect
<1>7. CASE DisconnectConfirmed \/ DisconnectTimesOut
  BY <1>7 DEF DisconnectConfirmed, DisconnectTimesOut, DisconnectSettles, FinishDisconnect
<1>8. CASE DoAuthenticate
  BY <1>8 DEF DoAuthenticate
<1>9. ASSUME NEW outcome \in {"authenticated", "auth_error"}, PollSettles(outcome)
      PROVE  HandleInv'
  BY <1>9 DEF PollSettles
<1>10. QED
  BY <1>1, <1>2, <1>3, <1>4, <1>5, <1>6, <1>7, <1>8, <1>9 DEF Operations

\* A retry that does not throw keeps the status true.
LEMMA RetryHandle ==
  ASSUME ~RetryMayThrow, TypeOK, ConnectionInv, HandleInv, Retry
  PROVE  HandleInv'
<1>1. PICK b \in Bot : RetryFires(b)
  BY DEF Retry, RetryThrows
<1>2. status \notin {"online", "connecting"} /\ pc # "loading"
  BY <1>1, BotAssumption DEF RetryFires, TypeOK, ConnectionInv, RecordsAreOpen, RetryIsExclusive,
       HandleInv, OnlineIsLive, OpeningAndClosing
<1>3. QED
  BY <1>1, <1>2, BotAssumption DEF RetryFires, CreateBot, HandleInv, OnlineIsLive,
     ReconnectingIsRetrying, OpeningAndClosing, chain

\* The listeners of the sockets keep the status true.
LEMMA EventsHandle ==
  ASSUME ~LateLogin, TypeOK, ConnectionInv, HandleInv, Events
  PROVE  HandleInv'
<1> USE DEF desired, link, auth, chain, sockets, HandleInv, OnlineIsLive,
            ReconnectingIsRetrying, OpeningAndClosing
<1>1. CASE OnCode
  BY <1>1 DEF OnCode
<1>2. ASSUME NEW b \in Bot, Login(b) PROVE HandleInv'
  <2>1. b = currentBot /\ b # NoBot
    BY <1>2, BotAssumption DEF Login
  <2>2. pc # "loading" /\ ctx = currentBot
    BY <2>1 DEF ConnectionInv, OperationsAgree
  <2>3. QED
    BY <1>2, <2>1, <2>2 DEF Login
<1>3. ASSUME NEW b \in Bot, FatalError(b) \/ StartTask(b) \/ TaskOver(b) PROVE HandleInv'
  BY <1>3 DEF FatalError, StartTask, TaskOver
<1>4. ASSUME NEW b \in Bot, EndAbandoned(b) PROVE HandleInv'
  BY <1>4 DEF EndAbandoned, IsCurrent, Closed
<1>5. ASSUME NEW b \in Bot, EndCurrent(b), EndRequested(b) \/ EndFatal(b) \/ EndDropped(b)
      PROVE  HandleInv'
  <2>1. currentBot # NoBot /\ pc # "loading" /\ (pc = "closing" => stopRequested)
    BY <1>5, BotAssumption DEF EndCurrent, IsCurrent, ConnectionInv, OperationsAgree
  <2>2. pc' = pc /\ currentBot' = NoBot
    BY <1>5 DEF EndCurrent
  <2>3. CASE EndRequested(b)
    BY <2>1, <2>2, <2>3 DEF EndRequested
  <2>4. CASE EndFatal(b)
    BY <2>1, <2>2, <2>4 DEF EndFatal
  <2>5. CASE EndDropped(b)
    BY <2>1, <2>2, <2>5 DEF EndDropped, ScheduleReconnect
  <2>6. QED
    BY <1>5, <2>3, <2>4, <2>5
<1>6. QED
  BY <1>1, <1>2, <1>3, <1>4, <1>5 DEF Events, End, EndRequested, EndFatal, EndDropped

\* While abandoned sockets stay silent and createBot does not throw in the
\* timer, what the status says about the connection is true in every
\* reachable state.
THEOREM StatusIsTrue ==
  ASSUME ~LateLogin, ~RetryMayThrow
  PROVE  Spec => []HandleInv
<1>1. TypeOK /\ ConnectionInv /\ HandleInv /\ [Next]_vars => HandleInv'
  <2> SUFFICES ASSUME TypeOK, ConnectionInv, HandleInv, [Next]_vars PROVE HandleInv'
    OBVIOUS
  <2>1. CASE Next
    BY <2>1, CallsHandle, OperationsHandle, RetryHandle, EventsHandle DEF Next
  <2>2. CASE UNCHANGED vars
    BY <2>2 DEF vars, desired, link, auth, chain, sockets, HandleInv, OnlineIsLive,
                ReconnectingIsRetrying, OpeningAndClosing
  <2>3. QED
    BY <2>1, <2>2
<1>2. QED
  BY <1>1, InitHandle, TypeCorrect, ConnectionInvariant, PTL DEF Spec

\* interfaces/bot-instance.ts:9: 'online' is said of an instance whose current
\* bot is logged in.
THEOREM OnlineIsTrue ==
  ASSUME ~LateLogin, ~RetryMayThrow
  PROVE  Spec => []OnlineIsLive
<1>1. HandleInv => OnlineIsLive
  BY DEF HandleInv
<1>2. QED
  BY <1>1, StatusIsTrue, PTL

\* interfaces/bot-instance.ts:10: 'reconnecting' is never said of an instance
\* that will not try again.
THEOREM ReconnectingIsTrue ==
  ASSUME ~LateLogin, ~RetryMayThrow
  PROVE  Spec => []ReconnectingIsRetrying
<1>1. HandleInv => ReconnectingIsRetrying
  BY DEF HandleInv
<1>2. QED
  BY <1>1, StatusIsTrue, PTL

------------------------------------------------------------------------------
(* Every step is a step of InstanceLifecycle, or changes neither the status   *)
(* nor the activity                                                            *)

\* A new instance is an initial state of the contract.
LEMMA InitImplements == Init => Handle!Init
BY DEF Init, Handle!Init, Activity

\* A call is a stutter of the contract.
LEMMA CallsStutter == Calls => UNCHANGED Handle!vars
BY DEF Calls, Connect, Disconnect, CancelAuthentication, Authenticate, Handle!vars, Activity,
       desired, link

\* A turn of a queued operation is a step of the contract or a stutter.
LEMMA OperationsImplement ==
  ASSUME TypeOK, ConnectionInv, HandleInv, Operations
  PROVE  [Handle!Next]_(Handle!vars)
<1> USE DEF Handle!Next, Handle!vars, Activity, desired, link
<1>1. CASE DoConnect
  BY <1>1 DEF DoConnect, MayConnect, Handle!Start, Handle!Inactive, Handle!Statuses,
              Handle!Active, Inactive
<1>2. CASE DoConnectRejects \/ DoDisconnectRejects \/ DoAuthenticateSkips
  BY <1>2 DEF DoConnectRejects, DoDisconnectRejects, DoAuthenticateSkips
<1>3. CASE InstanceStartFails
  BY <1>3 DEF InstanceStartFails, Handle!Fail, HandleInv, OpeningAndClosing, ConnectionInv,
              OperationsAgree
<1>4. ASSUME NEW b \in Bot, InstanceStarted(b) PROVE [Handle!Next]_(Handle!vars)
  BY <1>4, BotAssumption DEF InstanceStarted, CreateBot, Handle!Open, HandleInv,
     OpeningAndClosing, ConnectionInv, OperationsAgree
<1>5. CASE DoDisconnectAtOnce
  <2>1. reconnectTimer
    BY <1>5, BotAssumption DEF DoDisconnectAtOnce, Dequeue, Active, HandleInv, OnlineIsLive,
       ReconnectingIsRetrying, OpeningAndClosing, ConnectionInv, RecordsAreOpen, TypeOK
  <2>2. QED
    BY <1>5, <2>1 DEF DoDisconnectAtOnce, ClearTimer, FinishDisconnect, Handle!Stop
<1>6. CASE DoDisconnect \/ DoAuthenticate
  BY <1>6 DEF DoDisconnect, DoAuthenticate
<1>7. CASE DisconnectConfirmed \/ DisconnectTimesOut
  <2>1. ~reconnectTimer /\ (currentBot = NoBot => status = "disconnected")
    BY <1>7 DEF DisconnectConfirmed, DisconnectTimesOut, DisconnectSettles, HandleInv,
                OpeningAndClosing, ConnectionInv, RetryIsExclusive, OperationsAgree
  <2>2. QED
    BY <1>7, <2>1 DEF DisconnectConfirmed, DisconnectTimesOut, DisconnectSettles,
                      FinishDisconnect, Handle!Stop
<1>8. ASSUME NEW outcome \in {"authenticated", "auth_error"}, PollSettles(outcome)
      PROVE  [Handle!Next]_(Handle!vars)
  BY <1>8 DEF PollSettles
<1>9. QED
  BY <1>1, <1>2, <1>3, <1>4, <1>5, <1>6, <1>7, <1>8 DEF Operations

\* The reconnect timer is a step of the contract.
LEMMA RetryImplements ==
  ASSUME ~RetryMayThrow, TypeOK, ConnectionInv, Retry
  PROVE  Handle!Next
<1>1. PICK b \in Bot : RetryFires(b)
  BY DEF Retry, RetryThrows
<1>2. QED
  BY <1>1, BotAssumption DEF RetryFires, CreateBot, Activity, Handle!Next, Handle!Retry

\* A listener is a step of the contract or a stutter.
LEMMA EventsImplement ==
  ASSUME ~LateLogin, TypeOK, ConnectionInv, HandleInv, Events
  PROVE  [Handle!Next]_(Handle!vars)
<1> USE DEF Handle!Next, Handle!vars, Activity, desired, link
<1>1. CASE OnCode
  BY <1>1 DEF OnCode
<1>2. ASSUME NEW b \in Bot, Login(b) PROVE [Handle!Next]_(Handle!vars)
  <2>1. b = currentBot /\ b # NoBot /\ b \notin joined
    BY <1>2, BotAssumption DEF Login
  <2>2. ~reconnectTimer /\ status \in {"connecting", "reconnecting"}
    BY <2>1 DEF TypeOK, Active, Inactive, ConnectionInv, RetryIsExclusive, InactiveIsQuiet,
                HandleInv, OnlineIsLive
  <2>3. QED
    BY <1>2, <2>1, <2>2 DEF Login, Handle!Join
<1>3. ASSUME NEW b \in Bot, FatalError(b) \/ StartTask(b) \/ TaskOver(b) \/ EndAbandoned(b)
      PROVE  [Handle!Next]_(Handle!vars)
  BY <1>3 DEF FatalError, StartTask, TaskOver, EndAbandoned
<1>4. ASSUME NEW b \in Bot, EndRequested(b) \/ EndFatal(b) \/ EndDropped(b)
      PROVE  [Handle!Next]_(Handle!vars)
  <2>1. currentBot # NoBot /\ ~reconnectTimer /\ currentBot' = NoBot
    BY <1>4, BotAssumption DEF EndRequested, EndFatal, EndDropped, EndCurrent, IsCurrent,
       ConnectionInv, RetryIsExclusive
  <2>2. CASE EndRequested(b)
    BY <2>1, <2>2 DEF EndRequested, Handle!Stop
  <2>3. CASE EndFatal(b)
    BY <2>1, <2>3 DEF EndFatal, Handle!Refuse
  <2>4. CASE EndDropped(b)
    BY <2>1, <2>4 DEF EndDropped, ScheduleReconnect, Handle!Drop
  <2>5. QED
    BY <1>4, <2>2, <2>3, <2>4
<1>5. QED
  BY <1>1, <1>2, <1>3, <1>4 DEF Events, End

\* The handle keeps the safety part of its contract: whatever its status says,
\* the connection does, through every interleaving of calls, events and timers.
THEOREM HandleImplements ==
  ASSUME ~LateLogin, ~RetryMayThrow
  PROVE  Spec => ImplementsLifecycleSafely
<1>1. TypeOK /\ ConnectionInv /\ HandleInv /\ [Next]_vars => [Handle!Next]_(Handle!vars)
  <2> SUFFICES ASSUME TypeOK, ConnectionInv, HandleInv, [Next]_vars
               PROVE  [Handle!Next]_(Handle!vars)
    OBVIOUS
  <2>1. CASE Next
    BY <2>1, CallsStutter, OperationsImplement, RetryImplements, EventsImplement DEF Next
  <2>2. CASE UNCHANGED vars
    BY <2>2 DEF vars, desired, link, Handle!vars, Activity
  <2>3. QED
    BY <2>1, <2>2
<1>2. QED
  BY <1>1, InitImplements, TypeCorrect, ConnectionInvariant, StatusIsTrue, PTL
     DEF Spec, ImplementsLifecycleSafely

------------------------------------------------------------------------------
(* Every step is a step of InstanceQueue, or changes nothing it sees           *)

\* What InstanceQueue sees of an operation, and of a chain, when a is the attempt
\* in progress.
NamedAs(op, a) ==
  IF op.kind = "authenticate" /\ op.attempt = a THEN "sign_in"
  ELSE IF op.kind = "authenticate" THEN "stale" ELSE op.kind

View(s, a) == [k \in 1..Len(s) |-> NamedAs(s[k], a)]

\* An operation joins the view at its end.
LEMMA ViewAppend ==
  ASSUME NEW s \in Seq(Operation), NEW op \in Operation, NEW a
  PROVE  View(Append(s, op), a) = Append(View(s, a), NamedAs(op, a))
<1>1. /\ Append(s, op) \in Seq(Operation) /\ Len(Append(s, op)) = Len(s) + 1 /\ Len(s) \in Nat
      /\ Append(s, op)[Len(s) + 1] = op /\ \A k \in 1..Len(s) : Append(s, op)[k] = s[k]
  BY AppendProperties
<1> DEFINE u == View(Append(s, op), a)
           v == Append(View(s, a), NamedAs(op, a))
           Kinds == {NamedAs(o, a) : o \in Operation}
<1>2. View(s, a) \in Seq(Kinds) /\ Len(View(s, a)) = Len(s) /\ NamedAs(op, a) \in Kinds
  BY <1>1 DEF View
<1>3. u \in Seq(Kinds) /\ Len(u) = Len(s) + 1
  BY <1>1 DEF View
<1>4. /\ v \in Seq(Kinds) /\ Len(v) = Len(s) + 1 /\ v[Len(s) + 1] = NamedAs(op, a)
      /\ \A k \in 1..Len(s) : v[k] = View(s, a)[k]
  BY <1>2, AppendProperties
<1>5. \A k \in 1..Len(s) : u[k] = NamedAs(s[k], a) /\ View(s, a)[k] = NamedAs(s[k], a)
  BY <1>1 DEF View
<1>6. u[Len(s) + 1] = NamedAs(op, a)
  BY <1>1 DEF View
<1> HIDE DEF u, v, Kinds
<1>7. \A k \in 1..Len(u) : u[k] = v[k]
  BY <1>1, <1>3, <1>4, <1>5, <1>6
<1>8. u = v
  BY <1>3, <1>4, <1>7, SeqEqual
<1> QED
  BY <1>8 DEF u, v

\* The head of the chain leaves the view at its beginning.
LEMMA ViewTail ==
  ASSUME NEW s \in Seq(Operation), s # <<>>, NEW a
  PROVE  /\ View(s, a) # <<>> /\ Head(View(s, a)) = NamedAs(Head(s), a)
         /\ View(Tail(s), a) = Tail(View(s, a))
<1>1. /\ Tail(s) \in Seq(Operation) /\ Len(Tail(s)) = Len(s) - 1 /\ Len(s) \in Nat /\ Len(s) >= 1
      /\ Head(s) = s[1] /\ \A k \in 1..(Len(s) - 1) : Tail(s)[k] = s[k + 1]
  BY HeadTailProperties
<1> DEFINE Kinds == {NamedAs(o, a) : o \in Operation}
           u == View(Tail(s), a)
           v == Tail(View(s, a))
<1>2. /\ View(s, a) \in Seq(Kinds) /\ Len(View(s, a)) = Len(s)
      /\ \A k \in 1..Len(s) : View(s, a)[k] = NamedAs(s[k], a)
  BY <1>1 DEF View
<1>3. /\ u \in Seq(Kinds) /\ Len(u) = Len(s) - 1
      /\ \A k \in 1..(Len(s) - 1) : u[k] = NamedAs(s[k + 1], a)
  BY <1>1 DEF View
<1>4. View(s, a) # <<>>
  BY <1>1, <1>2
<1>5. /\ v \in Seq(Kinds) /\ Len(v) = Len(s) - 1 /\ Head(View(s, a)) = NamedAs(s[1], a)
      /\ \A k \in 1..(Len(s) - 1) : v[k] = NamedAs(s[k + 1], a)
  <2>1. /\ v \in Seq(Kinds) /\ Len(v) = Len(s) - 1 /\ Head(View(s, a)) = View(s, a)[1]
        /\ \A k \in 1..(Len(s) - 1) : v[k] = View(s, a)[k + 1]
    BY <1>2, <1>4, HeadTailProperties
  <2>2. 1 \in 1..Len(s) /\ View(s, a)[1] = NamedAs(s[1], a)
    BY <1>1, <1>2
  <2>3. \A k \in 1..(Len(s) - 1) : v[k] = NamedAs(s[k + 1], a)
    <3> SUFFICES ASSUME NEW k \in 1..(Len(s) - 1) PROVE v[k] = NamedAs(s[k + 1], a)
      OBVIOUS
    <3>1. k + 1 \in 1..Len(s)
      BY <1>1
    <3> HIDE DEF v, Kinds
    <3> QED
      BY <1>2, <2>1, <3>1
  <2> HIDE DEF v, Kinds
  <2> QED
    BY <2>1, <2>2, <2>3
<1> HIDE DEF u, v, Kinds
<1>6. u = v
  BY <1>3, <1>5, SeqEqual
<1> QED
  BY <1>1, <1>4, <1>5, <1>6 DEF u, v

\* The view changes only where the attempt in progress comes or goes.
LEMMA ViewStays ==
  ASSUME NEW s \in Seq(Operation), NEW a, NEW b,
         \A k \in 1..Len(s) : s[k].kind = "authenticate" => s[k].attempt # a /\ s[k].attempt # b
  PROVE  View(s, a) = View(s, b)
BY DEF View, NamedAs

\* The parameters of InstanceQueue, as state functions.
LEMMA QueueSees ==
  ASSUME TypeOK
  PROVE  /\ Queue!vars = <<IsActive, RunningOperation, WaitingOperations>>
         /\ IsActive \in BOOLEAN /\ (IsActive <=> status \in Active)
         /\ WaitingOperations = View(queue, currentAuthAttempt)
         /\ WaitingOperations \in Seq({"connect", "disconnect", "sign_in", "stale"})
         /\ Len(WaitingOperations) = Len(queue)
         /\ \A k \in 1..Len(queue) : WaitingOperations[k] = NamedAs(queue[k], currentAuthAttempt)
         /\ pc = "idle" => RunningOperation = "none"
         /\ pc = "loading" => RunningOperation = "connect"
         /\ pc = "closing" => RunningOperation = "disconnect"
         /\ pc = "polling" =>
              RunningOperation = IF opAttempt = currentAuthAttempt THEN "sign_in" ELSE "stale"
<1>1. queue \in Seq(Operation) /\ Len(queue) \in Nat /\ \A k \in 1..Len(queue) : queue[k] \in Operation
  BY DEF TypeOK
<1>2. \A op \in Operation : /\ NamedAs(op, currentAuthAttempt) = Named(op.kind, op.attempt)
                            /\ NamedAs(op, currentAuthAttempt) \in {"connect", "disconnect", "sign_in", "stale"}
  BY DEF NamedAs, Named, Operation
<1>3. WaitingOperations = View(queue, currentAuthAttempt)
  BY <1>1, <1>2 DEF WaitingOperations, View
<1>4. /\ WaitingOperations \in Seq({"connect", "disconnect", "sign_in", "stale"})
      /\ Len(WaitingOperations) = Len(queue)
      /\ \A k \in 1..Len(queue) : WaitingOperations[k] = NamedAs(queue[k], currentAuthAttempt)
  BY <1>1, <1>2 DEF WaitingOperations
<1>5. Queue!vars = <<IsActive, RunningOperation, WaitingOperations>>
  BY DEF Queue!vars
<1> QED
  BY <1>3, <1>4, <1>5 DEF IsActive, RunningOperation, Named

\* The same after a step.
LEMMA QueueSeesNext ==
  ASSUME TypeOK'
  PROVE  /\ Queue!vars' = <<IsActive', RunningOperation', WaitingOperations'>>
         /\ IsActive' \in BOOLEAN /\ (IsActive' <=> status' \in Active)
         /\ WaitingOperations' = View(queue', currentAuthAttempt')
         /\ pc' = "idle" => RunningOperation' = "none"
         /\ pc' = "loading" => RunningOperation' = "connect"
         /\ pc' = "closing" => RunningOperation' = "disconnect"
         /\ pc' = "polling" =>
              RunningOperation' = IF opAttempt' = currentAuthAttempt' THEN "sign_in" ELSE "stale"
<1>1. queue' \in Seq(Operation) /\ Len(queue') \in Nat /\ \A k \in 1..Len(queue') : queue'[k] \in Operation
  BY DEF TypeOK
<1>2. WaitingOperations' = View(queue', currentAuthAttempt')
  BY <1>1 DEF WaitingOperations, View, Named, NamedAs, Operation
<1>3. Queue!vars' = <<IsActive', RunningOperation', WaitingOperations'>>
  BY DEF Queue!vars
<1> QED
  BY <1>2, <1>3 DEF IsActive, RunningOperation, Named

\* A sign-in counts as authenticating exactly while it is in progress.
LEMMA AuthenticatingIsSignIn ==
  ASSUME TypeOK, AuthExcludesConnect, SignInHasOneTurn
  PROVE  Queue!Authenticating <=> authStatus = "authenticating"
<1>1. /\ authStatus = "authenticating" <=> currentAuthAttempt # NoAttempt
      /\ pc \in {"idle", "loading", "closing", "polling"}
      /\ pc = "polling" => opAttempt # NoAttempt
      /\ \A k \in 1..Len(queue) : queue[k] \in Operation
  BY DEF AuthExcludesConnect, TypeOK
<1>2. Queue!Authenticating <=>
        \/ RunningOperation = "sign_in"
        \/ \E k \in 1..Len(queue) : WaitingOperations[k] = "sign_in"
  BY QueueSees DEF Queue!Authenticating
<1>3. RunningOperation = "sign_in" <=> pc = "polling" /\ opAttempt = currentAuthAttempt
  BY <1>1, QueueSees
<1>4. ASSUME NEW k \in 1..Len(queue)
      PROVE  WaitingOperations[k] = "sign_in" <=> currentAuthAttempt # NoAttempt /\ queue[k].attempt = currentAuthAttempt
  <2>1. WaitingOperations[k] = "sign_in" <=> queue[k].kind = "authenticate" /\ queue[k].attempt = currentAuthAttempt
    BY <1>1, QueueSees DEF NamedAs, Operation
  <2>2. queue[k].kind = "authenticate" <=> queue[k].attempt # NoAttempt
    BY <1>1, AttemptAssumption DEF Operation
  <2> QED
    BY <2>1, <2>2
<1> QED
  BY <1>1, <1>2, <1>3, <1>4 DEF SignInHasOneTurn

\* The sign-in in progress keeps its one turn.
LEMMA OneTurnKept ==
  ASSUME TypeOK, AuthExcludesConnect, SignInHasOneTurn, [Next]_vars
  PROVE  SignInHasOneTurn'
<1> USE DEF desired, link, auth, chain, sockets
<1>1. /\ queue \in Seq(Operation) /\ Len(queue) \in Nat
      /\ \A k \in 1..Len(queue) : queue[k] \in Operation
      /\ authStatus = "authenticating" <=> currentAuthAttempt # NoAttempt
      /\ pc = "polling" => opAttempt # NoAttempt
  BY DEF TypeOK, AuthExcludesConnect
<1>2. CASE UNCHANGED <<queue, pc, opAttempt, currentAuthAttempt>>
  BY <1>2 DEF SignInHasOneTurn
<1>3. CASE currentAuthAttempt' = NoAttempt
  BY <1>3 DEF SignInHasOneTurn
<1>4. CASE UNCHANGED <<queue, currentAuthAttempt>> /\ pc # "polling" /\ pc' # "polling"
  BY <1>4 DEF SignInHasOneTurn
<1>5. CASE Connect \/ Disconnect
  <2>1. PICK op \in Operation : op.attempt = NoAttempt /\ queue' = Append(queue, op)
    BY <1>5 DEF Connect, Disconnect, Enqueue, Op, Operation
  <2>2. UNCHANGED <<pc, opAttempt, currentAuthAttempt>>
    BY <1>5 DEF Connect, Disconnect
  <2>3. /\ Len(queue') = Len(queue) + 1 /\ queue'[Len(queue) + 1].attempt = NoAttempt
        /\ \A k \in 1..Len(queue) : queue'[k] = queue[k]
    BY <1>1, <2>1, AppendProperties
  <2> QED
    BY <1>1, <2>2, <2>3 DEF SignInHasOneTurn
<1>6. ASSUME NEW a \in Attempt, Authenticate(a) PROVE SignInHasOneTurn'
  <2>1. /\ a \in FreeAttempts /\ currentAuthAttempt' = a /\ UNCHANGED <<pc, opAttempt>>
        /\ queue' = Append(queue, Op("authenticate", a)) /\ Op("authenticate", a) \in Operation
        /\ Op("authenticate", a).attempt = a
    BY <1>6 DEF Authenticate, Enqueue, Op, Operation
  <2>2. a # opAttempt /\ \A k \in 1..Len(queue) : queue[k].attempt # a
    BY <2>1 DEF FreeAttempts
  <2>3. /\ Len(queue') = Len(queue) + 1 /\ queue'[Len(queue) + 1].attempt = a
        /\ \A k \in 1..Len(queue) : queue'[k] = queue[k]
    BY <1>1, <2>1, AppendProperties
  <2> QED
    BY <1>1, <2>1, <2>2, <2>3 DEF SignInHasOneTurn
<1>7. ASSUME queue # <<>>, queue' = Tail(queue), UNCHANGED currentAuthAttempt, pc # "polling",
             \/ pc' # "polling" /\ Head(queue).attempt # currentAuthAttempt
             \/ pc' = "polling" /\ opAttempt' = Head(queue).attempt /\ Head(queue).attempt = currentAuthAttempt
             \/ currentAuthAttempt = NoAttempt
      PROVE  SignInHasOneTurn'
  <2>1. /\ Len(queue') = Len(queue) - 1 /\ Head(queue) = queue[1] /\ Len(queue) >= 1
        /\ \A k \in 1..(Len(queue) - 1) : queue'[k] = queue[k + 1]
    BY <1>1, <1>7, HeadTailProperties
  <2>2. SUFFICES ASSUME currentAuthAttempt # NoAttempt PROVE SignInHasOneTurn'
    BY <1>7 DEF SignInHasOneTurn
  <2>3. PICK i \in 1..Len(queue) : queue[i].attempt = currentAuthAttempt
    BY <1>7, <2>2 DEF SignInHasOneTurn
  <2>4. \A j \in 1..Len(queue) : queue[j].attempt = currentAuthAttempt => j = i
    BY <2>2, <2>3 DEF SignInHasOneTurn
  <2>5. \A j \in 1..Len(queue') : j + 1 \in 1..Len(queue) /\ queue'[j].attempt = queue[j + 1].attempt
    BY <1>1, <2>1
  <2>6. CASE i = 1
    <3>1. pc' = "polling" /\ opAttempt' = currentAuthAttempt
      BY <1>7, <2>1, <2>2, <2>3, <2>6
    <3>2. \A j \in 1..Len(queue') : queue'[j].attempt # currentAuthAttempt
      BY <1>1, <2>1, <2>4, <2>5, <2>6
    <3> QED
      BY <1>7, <3>1, <3>2 DEF SignInHasOneTurn
  <2>7. CASE i # 1
    <3>1. i - 1 \in 1..Len(queue') /\ queue'[i - 1].attempt = currentAuthAttempt
      BY <1>1, <2>1, <2>3, <2>7
    <3>2. ASSUME NEW j \in 1..Len(queue'), queue'[j].attempt = currentAuthAttempt PROVE j = i - 1
      <4>1. j + 1 \in 1..Len(queue) /\ queue[j + 1].attempt = currentAuthAttempt
        BY <2>5, <3>2
      <4>2. j + 1 = i
        BY <2>4, <4>1
      <4>3. j \in Nat
        BY <1>1, <2>1
      <4> QED
        BY <4>2, <4>3
    <3>3. queue[1].attempt # currentAuthAttempt
      <4>1. 1 \in 1..Len(queue)
        BY <1>1, <2>1
      <4> QED
        BY <2>4, <2>7, <4>1
    <3>4. pc' # "polling"
      BY <1>7, <2>1, <2>2, <3>3
    <3> QED
      BY <1>7, <3>1, <3>2, <3>4 DEF SignInHasOneTurn
  <2> QED
    BY <2>6, <2>7
<1>8. ASSUME queue # <<>> PROVE Head(queue) = queue[1] /\ Head(queue) \in Operation
  BY <1>1, <1>8, HeadTailProperties
<1>9. CASE DoConnect \/ DoConnectRejects \/ DoDisconnectRejects \/ DoDisconnectAtOnce \/ DoDisconnect
  <2>1. /\ queue # <<>> /\ queue' = Tail(queue) /\ pc = "idle" /\ pc' # "polling"
        /\ UNCHANGED currentAuthAttempt /\ Head(queue).kind # "authenticate"
    BY <1>9 DEF DoConnect, DoConnectRejects, DoDisconnectRejects, DoDisconnectAtOnce, DoDisconnect, Dequeue
  <2>2. Head(queue).attempt = NoAttempt
    BY <1>8, <2>1 DEF Operation
  <2> QED
    BY <1>7, <2>1, <2>2
<1>10. CASE DoAuthenticate \/ DoAuthenticateSkips
  BY <1>7, <1>10 DEF DoAuthenticate, DoAuthenticateSkips, Dequeue
<1>11. ASSUME NEW outcome \in {"authenticated", "auth_error"}, PollSettles(outcome)
       PROVE  SignInHasOneTurn'
  <2>1. CASE opAttempt = currentAuthAttempt
    BY <1>3, <1>11, <2>1 DEF PollSettles, AttemptIsCurrent, AttemptOver
  <2>2. CASE opAttempt # currentAuthAttempt
    BY <1>11, <2>2 DEF PollSettles, AttemptIsCurrent, SignInHasOneTurn
  <2> QED
    BY <2>1, <2>2
<1>12. CASE CancelAuthentication
  BY <1>3, <1>12 DEF CancelAuthentication
<1>13. CASE \/ InstanceStartFails \/ \E b \in Bot : InstanceStarted(b)
            \/ DisconnectConfirmed \/ DisconnectTimesOut
  BY <1>4, <1>13 DEF InstanceStartFails, InstanceStarted, DisconnectConfirmed, DisconnectTimesOut,
                     DisconnectSettles
<1>14. CASE Retry \/ Events \/ UNCHANGED vars
  BY <1>2, <1>14 DEF Retry, RetryFires, RetryThrows, Events, OnCode, Login, FatalError, StartTask, TaskOver,
       End, EndAbandoned, EndRequested, EndFatal, EndDropped, EndCurrent, vars
<1> QED
  BY <1>5, <1>6, <1>9, <1>10, <1>11, <1>12, <1>13, <1>14 DEF Next, Calls, Operations

\* A new instance has an empty chain.
LEMMA InitQueues == Init => Queue!Init
<1> SUFFICES ASSUME Init PROVE Queue!Init
  OBVIOUS
<1>1. ~IsActive /\ RunningOperation = "none"
  BY DEF Init, IsActive, RunningOperation, Active
<1>2. queue = <<>> /\ Len(<<>>) = 0
  BY DEF Init
<1>3. WaitingOperations = <<>>
  BY <1>2 DEF WaitingOperations
<1> QED
  BY <1>1, <1>3 DEF Queue!Init

\* What InstanceQueue sees does not change when its parts do not.
LEMMA QueueStutters ==
  ASSUME UNCHANGED <<pc, opAttempt, currentAuthAttempt, queue>>, IsActive' <=> IsActive,
         IsActive \in BOOLEAN, IsActive' \in BOOLEAN
  PROVE  UNCHANGED Queue!vars
<1>1. RunningOperation' = RunningOperation /\ WaitingOperations' = WaitingOperations
  BY DEF RunningOperation, WaitingOperations, Named
<1>2. IsActive' = IsActive
  OBVIOUS
<1> QED
  BY <1>1, <1>2 DEF Queue!vars

\* A call that is accepted takes its place on the chain.
LEMMA CallsQueue ==
  ASSUME TypeOK, TypeOK', AuthExcludesConnect, SignInHasOneTurn, Calls
  PROVE  Queue!Next
<1> USE DEF auth, chain
<1>1. /\ queue \in Seq(Operation) /\ Len(queue) \in Nat
      /\ \A k \in 1..Len(queue) : queue[k] \in Operation
      /\ Queue!Authenticating <=> authStatus = "authenticating"
      /\ authStatus = "authenticating" <=> currentAuthAttempt # NoAttempt
      /\ pc \in {"idle", "loading", "closing", "polling"}
      /\ pc = "polling" => opAttempt # NoAttempt
  BY AuthenticatingIsSignIn DEF TypeOK, AuthExcludesConnect
<1>2. IsActive' = IsActive
  BY DEF Calls, Connect, Disconnect, CancelAuthentication, Authenticate, IsActive
<1>3. CASE Connect \/ Disconnect
  <2>1. PICK kind \in {"connect", "disconnect"} :
          /\ queue' = Append(queue, Op(kind, NoAttempt))
          /\ kind = "connect" => authStatus # "authenticating"
    BY <1>3 DEF Connect, Disconnect, Enqueue
  <2>2. Op(kind, NoAttempt) \in Operation /\ NamedAs(Op(kind, NoAttempt), currentAuthAttempt) = kind
    BY <2>1 DEF Op, Operation, NamedAs
  <2>3. UNCHANGED <<pc, opAttempt, currentAuthAttempt>>
    BY <1>3 DEF Connect, Disconnect
  <2>4. WaitingOperations' = Append(WaitingOperations, kind)
    BY <1>1, <2>1, <2>2, <2>3, ViewAppend, QueueSees, QueueSeesNext
  <2>5. RunningOperation' = RunningOperation
    BY <2>3 DEF RunningOperation, Named
  <2>6. Queue!Enqueue(kind)
    BY <1>2, <2>4, <2>5 DEF Queue!Enqueue
  <2> QED
    BY <1>1, <2>1, <2>6 DEF Queue!Next, Queue!Calls, Queue!Connect, Queue!Disconnect
<1>4. ASSUME NEW a \in Attempt, Authenticate(a) PROVE Queue!Next
  <2>1. /\ a \in FreeAttempts /\ currentAuthAttempt' = a /\ UNCHANGED <<pc, opAttempt>>
        /\ queue' = Append(queue, Op("authenticate", a)) /\ Op("authenticate", a) \in Operation
        /\ status \in Inactive /\ authStatus # "authenticating"
    BY <1>4 DEF Authenticate, Enqueue, Op, Operation
  <2>2. a # opAttempt /\ currentAuthAttempt = NoAttempt /\ a # NoAttempt
        /\ \A k \in 1..Len(queue) : queue[k].attempt # a
    BY <1>1, <2>1, AttemptAssumption DEF FreeAttempts
  <2>3. \A k \in 1..Len(queue) : queue[k].kind = "authenticate" => queue[k].attempt # NoAttempt
    BY <1>1, AttemptAssumption DEF Operation
  <2>4. View(queue, a) = View(queue, NoAttempt)
    BY <1>1, <2>2, <2>3, ViewStays
  <2>5. NamedAs(Op("authenticate", a), a) = "sign_in"
    BY DEF NamedAs, Op
  <2>6. WaitingOperations' = Append(WaitingOperations, "sign_in")
    BY <1>1, <2>1, <2>2, <2>4, <2>5, ViewAppend, QueueSees, QueueSeesNext
  <2>7. RunningOperation' = RunningOperation
    BY <1>1, <2>1, <2>2 DEF RunningOperation, Named
  <2>8. ~IsActive
    BY <2>1 DEF IsActive, Inactive, Active
  <2> QED
    BY <1>1, <1>2, <2>1, <2>6, <2>7, <2>8
       DEF Queue!Next, Queue!Calls, Queue!Authenticate, Queue!Enqueue
<1>5. CASE CancelAuthentication
  <2>1. UNCHANGED <<queue, pc, opAttempt>> /\ currentAuthAttempt' = NoAttempt /\ authStatus = "authenticating"
    BY <1>5 DEF CancelAuthentication
  <2>2. RunningOperation' = Queue!Cancelled(RunningOperation)
    BY <1>1, <2>1 DEF RunningOperation, Named, Queue!Cancelled
  <2>3. \A k \in 1..Len(queue) : NamedAs(queue[k], NoAttempt) = Queue!Cancelled(NamedAs(queue[k], currentAuthAttempt))
    BY <1>1, AttemptAssumption DEF NamedAs, Queue!Cancelled, Operation
  <2>4. WaitingOperations' = [k \in 1..Len(WaitingOperations) |-> Queue!Cancelled(WaitingOperations[k])]
    <3>1. WaitingOperations' = [k \in 1..Len(queue) |-> NamedAs(queue[k], NoAttempt)]
      BY <2>1, QueueSeesNext DEF View
    <3> QED
      BY <2>3, <3>1, QueueSees
  <2> QED
    BY <1>1, <1>2, <2>1, <2>2, <2>4 DEF Queue!Next, Queue!Calls, Queue!CancelAuthentication
<1> QED
  BY <1>3, <1>4, <1>5 DEF Calls

\* The head of the chain, as InstanceQueue sees it.
LEMMA HeadIsTaken ==
  ASSUME TypeOK, TypeOK', NEW kind, Dequeue(kind), UNCHANGED currentAuthAttempt
  PROVE  /\ Queue!Take(NamedAs(Head(queue), currentAuthAttempt))
         /\ Head(queue) \in Operation /\ Head(queue).kind = kind
<1>1. /\ queue \in Seq(Operation) /\ queue # <<>> /\ queue' = Tail(queue) /\ pc = "idle"
      /\ Head(queue).kind = kind
  BY DEF TypeOK, Dequeue
<1>2. /\ WaitingOperations # <<>> /\ Head(WaitingOperations) = NamedAs(Head(queue), currentAuthAttempt)
      /\ WaitingOperations' = Tail(WaitingOperations)
  BY <1>1, ViewTail, QueueSees, QueueSeesNext
<1>3. RunningOperation = "none"
  BY <1>1, QueueSees
<1>4. Head(queue) \in Operation
  BY <1>1, HeadTailProperties
<1> QED
  BY <1>1, <1>2, <1>3, <1>4 DEF Queue!Take

\* A turn of a queued operation is a step of the chain.
LEMMA OperationsQueue ==
  ASSUME TypeOK, TypeOK', ConnectionInv, AuthExcludesConnect, SignInHasOneTurn, Operations
  PROVE  [Queue!Next]_(Queue!vars)
<1> USE DEF auth, chain
<1>1. /\ Queue!Authenticating <=> authStatus = "authenticating"
      /\ IsActive \in BOOLEAN /\ IsActive' \in BOOLEAN
      /\ IsActive <=> status \in Active
      /\ IsActive' <=> status' \in Active
      /\ status \in Inactive <=> ~(status \in Active)
  BY AuthenticatingIsSignIn, QueueSees, QueueSeesNext DEF TypeOK, Active, Inactive
<1>2. CASE DoConnect
  <2>1. Queue!Take("connect")
    BY <1>2, HeadIsTaken DEF DoConnect, NamedAs
  <2>2. RunningOperation' = "connect" /\ IsActive' /\ ~IsActive /\ ~Queue!Authenticating
    BY <1>1, <1>2, QueueSeesNext DEF DoConnect, MayConnect, Active
  <2> QED
    BY <1>1, <2>1, <2>2 DEF Queue!Next, Queue!Operations, Queue!ConnectBegins
<1>3. CASE DoConnectRejects
  <2>1. Queue!Take("connect")
    BY <1>3, HeadIsTaken DEF DoConnectRejects, NamedAs
  <2>2. UNCHANGED <<RunningOperation, IsActive>> /\ (IsActive \/ Queue!Authenticating)
    BY <1>1, <1>3 DEF DoConnectRejects, MayConnect, RunningOperation, IsActive, Named
  <2> QED
    BY <2>1, <2>2 DEF Queue!Next, Queue!Operations, Queue!ConnectRefused
<1>4. CASE InstanceStartFails \/ \E b \in Bot : InstanceStarted(b)
  <2>1. /\ pc = "loading" /\ pc' = "idle" /\ UNCHANGED <<queue, currentAuthAttempt>>
        /\ IsActive' = IsActive \/ ~IsActive'
    BY <1>1, <1>4 DEF InstanceStartFails, InstanceStarted, IsActive, Active
  <2>2. RunningOperation = "connect" /\ RunningOperation' = "none" /\ WaitingOperations' = WaitingOperations
    BY <2>1, QueueSees, QueueSeesNext
  <2>3. IsActive' \in {IsActive, FALSE}
    BY <1>1, <2>1
  <2> QED
    BY <2>2, <2>3 DEF Queue!Next, Queue!Operations, Queue!ConnectEnds, Queue!Ends
<1>5. CASE DoDisconnectRejects
  <2>1. Queue!Take("disconnect")
    BY <1>5, HeadIsTaken DEF DoDisconnectRejects, NamedAs
  <2>2. UNCHANGED <<RunningOperation, IsActive>> /\ ~IsActive
    BY <1>1, <1>5 DEF DoDisconnectRejects, RunningOperation, IsActive, Named
  <2> QED
    BY <2>1, <2>2 DEF Queue!Next, Queue!Operations, Queue!DisconnectRefused
<1>6. CASE DoDisconnectAtOnce
  <2>1. Queue!Take("disconnect")
    BY <1>6, HeadIsTaken DEF DoDisconnectAtOnce, NamedAs
  <2>2. IsActive /\ ~IsActive' /\ RunningOperation' = RunningOperation
    BY <1>1, <1>6 DEF DoDisconnectAtOnce, FinishDisconnect, RunningOperation, Named, Active
  <2> QED
    BY <1>1, <2>1, <2>2 DEF Queue!Next, Queue!Operations, Queue!DisconnectAtOnce
<1>7. CASE DoDisconnect
  <2>1. Queue!Take("disconnect")
    BY <1>7, HeadIsTaken DEF DoDisconnect, NamedAs
  <2>2. IsActive /\ IsActive' = IsActive /\ RunningOperation' = "disconnect"
    BY <1>1, <1>7, QueueSeesNext DEF DoDisconnect, IsActive
  <2> QED
    BY <2>1, <2>2 DEF Queue!Next, Queue!Operations, Queue!DisconnectBegins, Queue!Begins
<1>8. CASE DisconnectConfirmed \/ DisconnectTimesOut
  <2>1. /\ pc = "closing" /\ pc' = "idle" /\ UNCHANGED <<queue, currentAuthAttempt>> /\ ~IsActive'
    BY <1>1, <1>8 DEF DisconnectConfirmed, DisconnectTimesOut, DisconnectSettles, FinishDisconnect, Active
  <2>2. RunningOperation = "disconnect" /\ RunningOperation' = "none" /\ WaitingOperations' = WaitingOperations
    BY <2>1, QueueSees, QueueSeesNext
  <2> QED
    BY <1>1, <2>1, <2>2 DEF Queue!Next, Queue!Operations, Queue!DisconnectEnds, Queue!Ends
<1>9. CASE DoAuthenticate
  <2>1. Queue!Take("sign_in") /\ IsActive' = IsActive
    BY <1>9, HeadIsTaken DEF DoAuthenticate, NamedAs, IsActive
  <2>2. RunningOperation' = "sign_in"
    BY <1>9, QueueSeesNext DEF DoAuthenticate
  <2> QED
    BY <2>1, <2>2 DEF Queue!Next, Queue!Operations, Queue!SignInBegins, Queue!Begins
<1>10. CASE DoAuthenticateSkips
  <2>1. Queue!Take("stale") /\ IsActive' = IsActive
    BY <1>10, HeadIsTaken DEF DoAuthenticateSkips, NamedAs, IsActive
  <2>2. RunningOperation' = RunningOperation
    BY <1>10 DEF DoAuthenticateSkips, RunningOperation, Named
  <2> QED
    BY <2>1, <2>2 DEF Queue!Next, Queue!Operations, Queue!StaleSkipped
<1>11. ASSUME NEW outcome \in {"authenticated", "auth_error"}, PollSettles(outcome)
       PROVE  [Queue!Next]_(Queue!vars)
  <2>1. pc = "polling" /\ pc' = "idle" /\ queue' = queue /\ IsActive' = IsActive
    BY <1>11 DEF PollSettles, IsActive
  <2>2. RunningOperation \in Queue!SignIns /\ RunningOperation' = "none"
    BY <2>1, QueueSees, QueueSeesNext DEF Queue!SignIns
  <2>3. WaitingOperations' = WaitingOperations
    <3>1. CASE opAttempt # currentAuthAttempt
      BY <1>11, <2>1, <3>1, QueueSees, QueueSeesNext DEF PollSettles, AttemptIsCurrent
    <3>2. CASE opAttempt = currentAuthAttempt
      <4>1. /\ currentAuthAttempt' = NoAttempt /\ currentAuthAttempt # NoAttempt
            /\ queue \in Seq(Operation) /\ \A k \in 1..Len(queue) : queue[k] \in Operation
        BY <1>11, <2>1, <3>2 DEF PollSettles, AttemptIsCurrent, AttemptOver, TypeOK
      <4>2. \A k \in 1..Len(queue) : queue[k].attempt # currentAuthAttempt
        BY <2>1, <3>2, <4>1 DEF SignInHasOneTurn
      <4>3. \A k \in 1..Len(queue) : queue[k].kind = "authenticate" => queue[k].attempt # NoAttempt
        BY <4>1, AttemptAssumption DEF Operation
      <4> QED
        BY <2>1, <4>1, <4>2, <4>3, ViewStays, QueueSees, QueueSeesNext
    <3> QED
      BY <3>1, <3>2
  <2> QED
    BY <2>1, <2>2, <2>3 DEF Queue!Next, Queue!Operations, Queue!SignInEnds, Queue!Ends
<1> QED
  BY <1>2, <1>3, <1>4, <1>5, <1>6, <1>7, <1>8, <1>9, <1>10, <1>11 DEF Operations

\* The timer and the listeners leave the chain alone; an end may lose the connection.
LEMMA EventsQueue ==
  ASSUME ~LateLogin, TypeOK, TypeOK', ConnectionInv, Retry \/ Events
  PROVE  [Queue!Next]_(Queue!vars)
<1> USE DEF auth, chain
<1>1. /\ IsActive \in BOOLEAN /\ IsActive' \in BOOLEAN
      /\ IsActive <=> status \in Active
      /\ IsActive' <=> status' \in Active
      /\ currentBot # NoBot => IsActive
      /\ UNCHANGED <<pc, opAttempt, currentAuthAttempt, queue>>
  <2>1. UNCHANGED <<pc, opAttempt, currentAuthAttempt, queue>>
    BY DEF Retry, RetryFires, RetryThrows, Events, OnCode, Login, FatalError, StartTask, TaskOver,
       End, EndAbandoned, EndRequested, EndFatal, EndDropped, EndCurrent
  <2> QED
    BY <2>1, QueueSees, QueueSeesNext DEF ConnectionInv, InactiveIsQuiet, TypeOK, Active, Inactive
<1>2. CASE IsActive' <=> IsActive
  BY <1>1, <1>2, QueueStutters
<1>3. CASE Retry \/ OnCode
  BY <1>1, <1>2, <1>3 DEF Retry, RetryFires, RetryThrows, OnCode
<1>4. ASSUME NEW b \in Bot, FatalError(b) \/ StartTask(b) \/ TaskOver(b) \/ EndAbandoned(b)
      PROVE  [Queue!Next]_(Queue!vars)
  BY <1>1, <1>2, <1>4 DEF FatalError, StartTask, TaskOver, EndAbandoned
<1>5. ASSUME NEW b \in Bot, Login(b) PROVE [Queue!Next]_(Queue!vars)
  <2>1. currentBot # NoBot /\ status' = "online"
    BY <1>5, BotAssumption DEF Login
  <2> QED
    BY <1>1, <1>2, <2>1 DEF Active
<1>6. ASSUME NEW b \in Bot, EndDropped(b) PROVE [Queue!Next]_(Queue!vars)
  <2>1. currentBot # NoBot /\ status' = "reconnecting"
    BY <1>6, BotAssumption DEF EndDropped, EndCurrent, IsCurrent
  <2> QED
    BY <1>1, <1>2, <2>1 DEF Active
<1>7. ASSUME NEW b \in Bot, EndRequested(b) \/ EndFatal(b) PROVE [Queue!Next]_(Queue!vars)
  <2>1. currentBot # NoBot /\ status' \in {"disconnected", "errored"}
    BY <1>7, BotAssumption DEF EndRequested, EndFatal, EndCurrent, IsCurrent
  <2>2. IsActive /\ ~IsActive'
    BY <1>1, <2>1 DEF Active
  <2>3. pc # "loading"
    BY <2>1 DEF ConnectionInv, OperationsAgree
  <2>4. RunningOperation # "connect"
    BY <2>3, QueueSees DEF TypeOK
  <2>5. RunningOperation' = RunningOperation /\ WaitingOperations' = WaitingOperations
    BY <1>1 DEF RunningOperation, WaitingOperations, Named
  <2> QED
    BY <1>1, <2>2, <2>4, <2>5 DEF Queue!Next, Queue!Lost
<1> QED
  BY <1>3, <1>4, <1>5, <1>6, <1>7 DEF Events, End

\* bot.ts:51: the calls that BotManager made take effect one at a time and in
\* their order, a cancelled sign-in keeps its place, and whatever sockets and
\* timers do between changes at most whether the instance is active.
THEOREM QueueImplements ==
  ASSUME ~LateLogin
  PROVE  Spec => ImplementsQueueSafely
<1>1. Init => SignInHasOneTurn
  BY DEF Init, SignInHasOneTurn
<1>2. TypeOK /\ AuthExcludesConnect /\ SignInHasOneTurn /\ [Next]_vars => SignInHasOneTurn'
  BY OneTurnKept
<1>3. TypeOK /\ TypeOK' /\ ConnectionInv /\ AuthExcludesConnect /\ SignInHasOneTurn /\ [Next]_vars
        => [Queue!Next]_(Queue!vars)
  <2> SUFFICES ASSUME TypeOK, TypeOK', ConnectionInv, AuthExcludesConnect, SignInHasOneTurn, [Next]_vars
               PROVE  [Queue!Next]_(Queue!vars)
    OBVIOUS
  <2>1. CASE UNCHANGED vars
    BY <2>1 DEF vars, auth, chain, Queue!vars, IsActive, RunningOperation, WaitingOperations, Named
  <2>2. CASE Next
    BY <2>2, CallsQueue, OperationsQueue, EventsQueue DEF Next
  <2> QED
    BY <2>1, <2>2
<1> QED
  BY <1>1, <1>2, <1>3, InitQueues, TypeCorrect, ConnectionInvariant, SignInExcludesConnect, PTL
     DEF Spec, ImplementsQueueSafely

==============================================================================
