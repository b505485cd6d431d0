----------------------------- MODULE BotInstance -----------------------------
(***************************************************************************)
(* The lifecycle of one bot instance: core/bot.ts.                         *)
(*                                                                         *)
(* connect(), disconnect() and authenticate() are queued on a promise      *)
(* chain and run one at a time; cancelAuthentication(), the events of      *)
(* every mineflayer bot still open, the reconnect timer and the tasks      *)
(* started from chat interleave with whatever operation is running.  An    *)
(* action is one turn of the event loop: the code between two awaits.      *)
(***************************************************************************)
EXTENDS Naturals, Sequences

CONSTANTS
  Bot,           \* bot objects; a name is reused once its socket has ended
  NoBot,
  Attempt,       \* identity tokens of authenticate() calls, reused likewise
  NoAttempt,
  MaxQueue,      \* bound: operations waiting behind the running one
  MaxAttempts,   \* bound: reconnectAttempts saturates here
  LateLogin,     \* may a socket that was abandoned while closing still log in?
  RetryMayThrow  \* may createBot throw inside the reconnect timer?

ASSUME BotAssumption      == NoBot \notin Bot
ASSUME AttemptAssumption  == NoAttempt \notin Attempt
ASSUME BoundAssumption    == MaxQueue \in Nat \ {0} /\ MaxAttempts \in Nat \ {0}
ASSUME SwitchAssumption   == LateLogin \in BOOLEAN /\ RetryMayThrow \in BOOLEAN

VARIABLES
  \* The fields of BotInstance.
  config, status, stopRequested, currentBot, ctx, connectedSince,
  reconnectTimer, reconnectAttempts,
  authStatus, currentAuthAttempt, deviceCode,
  \* The promise chain: what waits, and the operation between two awaits.
  queue, pc, opBot, opAttempt,
  \* The sockets, and what the bots' listeners have recorded.
  open, ending, joined, fatal, busy

desired  == <<stopRequested, reconnectTimer, reconnectAttempts>>
link     == <<currentBot, ctx, connectedSince>>
auth     == <<authStatus, currentAuthAttempt, deviceCode>>
chain    == <<queue, pc, opBot, opAttempt>>
sockets  == <<open, ending, joined, fatal, busy>>
vars     == <<config, status, desired, link, auth, chain, sockets>>

Active   == {"connecting", "online", "reconnecting"}
Inactive == {"disconnected", "errored"}
AuthStatus == {"unknown", "unauthenticated", "authenticating", "authenticated", "auth_error"}

Operation == [kind : {"connect", "disconnect"}, attempt : {NoAttempt}]
             \cup [kind : {"authenticate"}, attempt : Attempt]

\* authStatus is undefined, "none", for an offline account.
TypeOK ==
  /\ config \in [host : BOOLEAN, microsoft : BOOLEAN]
  /\ status \in Active \cup Inactive
  /\ stopRequested \in BOOLEAN
  /\ currentBot \in Bot \cup {NoBot}
  /\ ctx \in Bot \cup {NoBot}
  /\ connectedSince \in BOOLEAN
  /\ reconnectTimer \in BOOLEAN
  /\ reconnectAttempts \in 0..MaxAttempts
  /\ authStatus \in IF config.microsoft THEN AuthStatus ELSE {"none"}
  /\ currentAuthAttempt \in IF config.microsoft THEN Attempt \cup {NoAttempt} ELSE {NoAttempt}
  /\ deviceCode \in Attempt \cup {NoAttempt}
  /\ queue \in Seq(Operation)
  /\ pc \in {"idle", "loading", "closing", "polling"}
  /\ opBot \in Bot \cup {NoBot}
  /\ opAttempt \in Attempt \cup {NoAttempt}
  /\ pc = "closing" => opBot # NoBot
  /\ pc = "polling" => opAttempt # NoAttempt
  /\ open \in SUBSET Bot /\ ending \in SUBSET Bot
  /\ joined \in SUBSET Bot /\ fatal \in SUBSET Bot /\ busy \in SUBSET Bot

Init ==
  /\ config \in [host : BOOLEAN, microsoft : BOOLEAN]
  /\ status = "disconnected"
  /\ stopRequested = FALSE /\ reconnectTimer = FALSE /\ reconnectAttempts = 0
  /\ currentBot = NoBot /\ ctx = NoBot /\ connectedSince = FALSE
  /\ authStatus = IF config.microsoft THEN "unknown" ELSE "none"
  /\ currentAuthAttempt = NoAttempt /\ deviceCode = NoAttempt
  /\ queue = <<>> /\ pc = "idle" /\ opBot = NoBot /\ opAttempt = NoAttempt
  /\ open = {} /\ ending = {} /\ joined = {} /\ fatal = {} /\ busy = {}

------------------------------------------------------------------------------
(* The promise chain *)

Op(kind, a) == [kind |-> kind, attempt |-> a]

Enqueue(op) == Len(queue) < MaxQueue /\ queue' = Append(queue, op)

\* The head of the chain starts once the operation before it has settled.
Dequeue(kind) ==
  /\ pc = "idle" /\ queue # <<>> /\ Head(queue).kind = kind
  /\ queue' = Tail(queue)

\* Names no listener, closure or queued call refers to any more.
FreeBots     == Bot \ (open \cup busy)
FreeAttempts == {a \in Attempt : /\ a \notin {currentAuthAttempt, opAttempt, deviceCode}
                                 /\ \A i \in 1..Len(queue) : queue[i].attempt # a}

------------------------------------------------------------------------------
(* Calls on the handle.  A call that rejects at once changes nothing. *)

Connect ==
  /\ config.host
  /\ authStatus # "authenticating"
  /\ Enqueue(Op("connect", NoAttempt))
  /\ UNCHANGED <<config, status, desired, link, auth, pc, opBot, opAttempt, sockets>>

Disconnect ==
  /\ Enqueue(Op("disconnect", NoAttempt))
  /\ UNCHANGED <<config, status, desired, link, auth, pc, opBot, opAttempt, sockets>>

Authenticate(a) ==
  /\ config.microsoft
  /\ status \in Inactive
  /\ authStatus # "authenticating"
  /\ a \in FreeAttempts
  /\ currentAuthAttempt' = a
  /\ authStatus' = "authenticating"
  /\ deviceCode' = NoAttempt
  /\ Enqueue(Op("authenticate", a))
  /\ UNCHANGED <<config, status, desired, link, pc, opBot, opAttempt, sockets>>

CancelAuthentication ==
  /\ authStatus = "authenticating"
  /\ currentAuthAttempt' = NoAttempt
  /\ authStatus' = "unauthenticated"
  /\ deviceCode' = NoAttempt
  /\ UNCHANGED <<config, status, desired, link, chain, sockets>>

------------------------------------------------------------------------------
(* doConnect: the permission and home files are read, then a bot is made. *)

\* Faulty variant: the sign-in is looked at by connect() alone.
MayConnectWhileSigningIn == status \in Inactive

MayConnect == status \in Inactive /\ authStatus # "authenticating"

DoConnect ==
  /\ Dequeue("connect")
  /\ MayConnect
  /\ stopRequested' = FALSE
  /\ status' = "connecting"
  /\ reconnectAttempts' = 0          \* a new runInstance closure
  /\ pc' = "loading"
  /\ UNCHANGED <<config, reconnectTimer, link, auth, opBot, opAttempt, sockets>>

DoConnectRejects ==
  /\ Dequeue("connect")
  /\ ~MayConnect
  /\ UNCHANGED <<config, status, desired, link, auth, pc, opBot, opAttempt, sockets>>

\* runInstance's connect(): one turn from createBot to the last module's init.
CreateBot(b) ==
  /\ b \in FreeBots
  /\ open' = open \cup {b}
  /\ currentBot' = b
  /\ ctx' = b

InstanceStarted(b) ==
  /\ pc = "loading"
  /\ CreateBot(b)
  /\ pc' = "idle"
  /\ UNCHANGED <<config, status, desired, connectedSince, auth, queue, opBot, opAttempt,
                 ending, joined, fatal, busy>>

\* A store that cannot be read, or createBot throwing.
InstanceStartFails ==
  /\ pc = "loading"
  /\ status' = "errored"
  /\ pc' = "idle"
  /\ UNCHANGED <<config, desired, link, auth, queue, opBot, opAttempt, sockets>>

------------------------------------------------------------------------------
(* doDisconnect *)

\* Faulty variant: the status is left to the 'end' handler.
FinishDisconnectKeepsStatus ==
  /\ connectedSince' = FALSE /\ currentBot' = NoBot /\ ctx' = NoBot /\ UNCHANGED status

FinishDisconnect ==
  /\ status' = "disconnected"
  /\ connectedSince' = FALSE
  /\ currentBot' = NoBot
  /\ ctx' = NoBot

DoDisconnectRejects ==
  /\ Dequeue("disconnect")
  /\ status \in Inactive
  /\ UNCHANGED <<config, status, desired, link, auth, pc, opBot, opAttempt, sockets>>

\* Faulty variant: clearTimeout is forgotten.
KeepTimer == UNCHANGED reconnectTimer

ClearTimer == reconnectTimer' = FALSE

\* A pending retry is dropped; with no bot there is nothing else to close.
DoDisconnectAtOnce ==
  /\ Dequeue("disconnect")
  /\ status \in Active
  /\ reconnectTimer \/ currentBot = NoBot
  /\ stopRequested' = TRUE
  /\ ClearTimer
  /\ FinishDisconnect
  /\ UNCHANGED <<config, reconnectAttempts, auth, pc, opBot, opAttempt, sockets>>

DoDisconnect ==
  /\ Dequeue("disconnect")
  /\ status \in Active
  /\ ~reconnectTimer /\ currentBot # NoBot
  /\ stopRequested' = TRUE
  /\ ending' = ending \cup {currentBot}
  /\ pc' = "closing" /\ opBot' = currentBot
  /\ UNCHANGED <<config, status, reconnectTimer, reconnectAttempts, link, auth, opAttempt,
                 open, joined, fatal, busy>>

\* The wait ends with the bot's 'end' event, or after DISCONNECT_TIMEOUT_MS
\* with the socket still open: the bot is abandoned.
DisconnectSettles ==
  /\ pc = "closing"
  /\ FinishDisconnect
  /\ pc' = "idle" /\ opBot' = NoBot
  /\ UNCHANGED <<config, desired, auth, queue, opAttempt, sockets>>

DisconnectConfirmed == opBot \notin open /\ DisconnectSettles
DisconnectTimesOut  == opBot \in open /\ DisconnectSettles

------------------------------------------------------------------------------
(* doAuthenticate *)

DoAuthenticate ==
  /\ Dequeue("authenticate")
  /\ Head(queue).attempt = currentAuthAttempt
  /\ pc' = "polling" /\ opAttempt' = Head(queue).attempt
  /\ UNCHANGED <<config, status, desired, link, auth, opBot, sockets>>

\* Cancelled or superseded while it was queued.
DoAuthenticateSkips ==
  /\ Dequeue("authenticate")
  /\ Head(queue).attempt # currentAuthAttempt
  /\ UNCHANGED <<config, status, desired, link, auth, pc, opBot, opAttempt, sockets>>

\* Faulty variant: the identity token is not compared.
AnyAttemptIsCurrent == TRUE

AttemptIsCurrent == opAttempt = currentAuthAttempt

\* Faulty variant: the finally block is missing.
AttemptLingers == UNCHANGED currentAuthAttempt

AttemptOver == currentAuthAttempt' = NoAttempt

OnCode ==
  /\ pc = "polling"
  /\ AttemptIsCurrent
  /\ deviceCode' = opAttempt
  /\ UNCHANGED <<config, status, desired, link, authStatus, currentAuthAttempt, chain, sockets>>

\* The poll settles; a superseded attempt leaves the instance as it is.
PollSettles(outcome) ==
  /\ pc = "polling"
  /\ IF AttemptIsCurrent
     THEN /\ authStatus' = outcome
          /\ deviceCode' = NoAttempt
          /\ AttemptOver
     ELSE UNCHANGED auth
  /\ pc' = "idle" /\ opAttempt' = NoAttempt
  /\ UNCHANGED <<config, status, desired, link, queue, opBot, sockets>>

------------------------------------------------------------------------------
(* The listeners of a bot.  Only 'end' asks whether the bot is current. *)

\* Faulty variant: a login marks an offline account as signed in, too.
SignedInAlways == authStatus' = "authenticated"

SignedInByLogin ==
  authStatus' = IF authStatus = "none" THEN authStatus ELSE "authenticated"

Login(b) ==
  /\ b \in open \ joined
  /\ b = currentBot \/ LateLogin
  /\ joined' = joined \cup {b}
  /\ reconnectAttempts' = IF b = currentBot THEN 0 ELSE reconnectAttempts
  /\ status' = "online"
  /\ connectedSince' = TRUE
  /\ SignedInByLogin
  /\ UNCHANGED <<config, stopRequested, reconnectTimer, currentBot, ctx,
                 currentAuthAttempt, deviceCode, chain, open, ending, fatal, busy>>

\* An 'error' whose message isFatalConnectionError matches; others are logged.
FatalError(b) ==
  /\ b \in open
  /\ fatal' = fatal \cup {b}
  /\ UNCHANGED <<config, status, desired, link, auth, chain, open, ending, joined, busy>>

\* The socket is gone, and its listeners with it.
Closed(b) ==
  /\ open' = open \ {b}
  /\ ending' = ending \ {b}
  /\ joined' = joined \ {b}
  /\ fatal' = fatal \ {b}

\* Faulty variant: the retries stop once the delay is at its ceiling.
ScheduleFewReconnects ==
  /\ reconnectTimer' = (reconnectTimer \/ reconnectAttempts < MaxAttempts)
  /\ reconnectAttempts' = IF reconnectAttempts < MaxAttempts
                          THEN reconnectAttempts + 1 ELSE MaxAttempts

ScheduleReconnect ==
  IF reconnectTimer
  THEN UNCHANGED <<reconnectTimer, reconnectAttempts>>
  ELSE /\ reconnectTimer' = TRUE
       /\ reconnectAttempts' = IF reconnectAttempts < MaxAttempts
                               THEN reconnectAttempts + 1 ELSE MaxAttempts

\* Faulty variants: no staleness check, no tasks.abort('disconnected').
NeverAbandoned(b) == b # NoBot
KeepTasks(b) == UNCHANGED busy

IsCurrent(b)  == currentBot = b
AbortTasks(b) == busy' = busy \ {b}

EndAbandoned(b) ==
  /\ b \in open /\ ~IsCurrent(b)
  /\ Closed(b)
  /\ UNCHANGED <<config, status, desired, link, auth, chain, busy>>

\* What 'end' of the current bot does first, whatever the reason.
EndCurrent(b) ==
  /\ b \in open /\ IsCurrent(b)
  /\ Closed(b)
  /\ AbortTasks(b)
  /\ connectedSince' = FALSE
  /\ currentBot' = NoBot
  /\ UNCHANGED <<config, stopRequested, auth, chain>>

EndRequested(b) ==
  /\ EndCurrent(b)
  /\ stopRequested
  /\ status' = "disconnected"
  /\ ctx' = NoBot
  /\ UNCHANGED <<reconnectTimer, reconnectAttempts>>

\* Faulty variant: a fatal error is looked at before the requested disconnect.
EndFatalFirst(b) ==
  /\ EndCurrent(b) /\ b \in fatal
  /\ status' = "errored" /\ ctx' = NoBot
  /\ UNCHANGED <<reconnectTimer, reconnectAttempts>>

EndFatal(b) ==
  /\ EndCurrent(b)
  /\ ~stopRequested /\ b \in fatal
  /\ status' = "errored"
  /\ ctx' = NoBot
  /\ UNCHANGED <<reconnectTimer, reconnectAttempts>>

EndDropped(b) ==
  /\ EndCurrent(b)
  /\ ~stopRequested /\ b \notin fatal
  /\ status' = "reconnecting"
  /\ ScheduleReconnect
  /\ UNCHANGED ctx

\* The reconnect timer: the field is cleared, then connect() runs.
RetryFires(b) ==
  /\ reconnectTimer
  /\ reconnectTimer' = FALSE
  /\ CreateBot(b)
  /\ UNCHANGED <<config, status, stopRequested, reconnectAttempts, connectedSince, auth, chain,
                 ending, joined, fatal, busy>>

\* createBot throws and connect().catch only logs it.
RetryThrows ==
  /\ RetryMayThrow
  /\ reconnectTimer
  /\ reconnectTimer' = FALSE
  /\ UNCHANGED <<config, status, stopRequested, reconnectAttempts, link, auth, chain, sockets>>

\* A chat command occupies the task slot of the bot's run; it finishes, is
\* cancelled or times out, or the bot dies.
StartTask(b) ==
  /\ b \in joined \ busy
  /\ busy' = busy \cup {b}
  /\ UNCHANGED <<config, status, desired, link, auth, chain, open, ending, joined, fatal>>

TaskOver(b) ==
  /\ b \in busy
  /\ busy' = busy \ {b}
  /\ UNCHANGED <<config, status, desired, link, auth, chain, open, ending, joined, fatal>>

------------------------------------------------------------------------------

Calls == Connect \/ Disconnect \/ CancelAuthentication \/ \E a \in Attempt : Authenticate(a)

\* Every operation, once dequeued or dequeuable, runs to its end.
Operations ==
  \/ DoConnect \/ DoConnectRejects \/ InstanceStartFails
  \/ \E b \in Bot : InstanceStarted(b)
  \/ DoDisconnectRejects \/ DoDisconnectAtOnce \/ DoDisconnect
  \/ DisconnectConfirmed \/ DisconnectTimesOut
  \/ DoAuthenticate \/ DoAuthenticateSkips
  \/ \E outcome \in {"authenticated", "auth_error"} : PollSettles(outcome)

End(b) == EndAbandoned(b) \/ EndRequested(b) \/ EndFatal(b) \/ EndDropped(b)

Retry == RetryThrows \/ \E b \in Bot : RetryFires(b)

Events == OnCode \/ \E b \in Bot : \/ Login(b) \/ FatalError(b) \/ End(b)
                                   \/ StartTask(b) \/ TaskOver(b)

Next == Calls \/ Operations \/ Retry \/ Events

Spec == Init /\ [][Next]_vars

\* The store reads settle, DISCONNECT_TIMEOUT_MS and the reconnect delay elapse,
\* a device code expires, a socket that was told to end does, a task times out.
\* No caller and no server owes a call, a login or a drop.
Fairness ==
  /\ WF_vars(Operations)
  /\ WF_vars(Retry)
  /\ \A b \in Bot : WF_vars(b \in ending /\ End(b)) /\ WF_vars(TaskOver(b))

FairSpec == Spec /\ Fairness

------------------------------------------------------------------------------
(* Properties that hold whatever LateLogin and RetryMayThrow are *)

\* Every connection that was not told to end is the one the instance knows:
\* no sequence of drops, retries, timed-out disconnects and connect() calls
\* leaves a second bot playing on the server.
SingleConnection == open \ ending \subseteq {currentBot}

\* No listener's record, and not currentBot, outlives the socket: a disconnect
\* never waits on, and a chat command never runs on, a bot that is gone.
RecordsAreOpen ==
  /\ ending \cup joined \cup fatal \subseteq open
  /\ currentBot # NoBot => currentBot \in open

\* 'disconnected' and 'errored' mean at rest: no retry is scheduled, no bot is
\* current, so nothing connects again before connect() is called.
InactiveIsQuiet ==
  status \in Inactive => ~reconnectTimer /\ currentBot = NoBot

\* A scheduled retry never coexists with a connection, with a start in
\* progress, or with a requested disconnect ("never run two in parallel").
RetryIsExclusive ==
  reconnectTimer => currentBot = NoBot /\ pc # "loading" /\ ~stopRequested

\* What a start and a disconnect in progress may rely on; with the properties
\* above, the inductive invariant of BotInstanceProofs.
OperationsAgree ==
  /\ pc = "loading" => status \in Active /\ currentBot = NoBot
  /\ pc = "closing" => stopRequested /\ (currentBot # NoBot => currentBot \in ending)

ConnectionInv ==
  /\ RecordsAreOpen
  /\ SingleConnection
  /\ InactiveIsQuiet
  /\ RetryIsExclusive
  /\ OperationsAgree

\* The code shown to the user is one the current attempt is waiting on.
DeviceCodeIsCurrent ==
  deviceCode # NoAttempt => deviceCode = currentAuthAttempt /\ pc = "polling"

\* getSnapshot() reads activeTask from ctx: a task it shows belongs to a
\* connection that is still open (the 'end' handler's tasks.abort).
ReportedTaskIsLive == ctx \in busy => ctx = currentBot /\ ctx \in joined

\* The inductive forms of the two properties above.
ShownIsCurrent == ReportedTaskIsLive /\ (ctx \in open => ctx = currentBot)

DeviceCodeInv ==
  deviceCode # NoAttempt => /\ deviceCode = currentAuthAttempt /\ deviceCode = opAttempt
                            /\ pc = "polling"

------------------------------------------------------------------------------
(* Properties that need an abandoned socket to stay silent and createBot not  *)
(* to throw in the timer                                                       *)

\* interfaces/bot-instance.ts:9 "'online' -- currently logged in to the server".
OnlineIsLive ==
  status = "online" => /\ currentBot \in joined /\ ctx = currentBot
                       /\ connectedSince /\ reconnectAttempts = 0

\* docs/multi-instance.md:149: signing in and connecting never overlap, though
\* neither the retry timer nor the login listener asks about the sign-in.
AuthExcludesConnect ==
  /\ authStatus = "authenticating" <=> currentAuthAttempt # NoAttempt
  /\ authStatus = "authenticating" => /\ status \in Inactive
                                      /\ ~reconnectTimer /\ currentBot = NoBot

\* docs/multi-instance.md:151: the result of a cancelled or superseded sign-in
\* changes nothing the instance shows.
StaleSignInIsDiscarded ==
  [][pc = "polling" /\ opAttempt # currentAuthAttempt /\ pc' # "polling"
       => UNCHANGED <<authStatus, deviceCode>>]_vars

\* 'reconnecting' means that a retry is scheduled or under way.
ReconnectingIsRetrying ==
  status = "reconnecting" => reconnectTimer \/ currentBot # NoBot

\* What the handle promises, InstanceLifecycle, is what it does.
Activity == IF reconnectTimer THEN "retry"
            ELSE IF currentBot # NoBot THEN "live" ELSE "none"

Handle == INSTANCE InstanceLifecycle WITH link <- Activity

ImplementsLifecycle == Handle!Spec

\* Its safety part; what the status says while a connection is opened or closed
\* is, with the properties above, the inductive invariant it rests on.
ImplementsLifecycleSafely == Handle!Init /\ [][Handle!Next]_(Handle!vars)

OpeningAndClosing ==
  /\ pc = "loading" => status = "connecting"
  /\ status = "connecting" => ~reconnectTimer /\ (pc = "loading" \/ currentBot # NoBot)
  /\ pc = "closing" /\ currentBot = NoBot => status = "disconnected"
  /\ currentBot # NoBot => ctx = currentBot

HandleInv == OnlineIsLive /\ ReconnectingIsRetrying /\ OpeningAndClosing

\* BotManager's view of the handle, InstanceQueue, is what the handle does: the
\* calls take effect in their order, whatever the sockets and timers do between.
Named(kind, a) ==
  IF kind = "authenticate" /\ a = currentAuthAttempt THEN "sign_in"
  ELSE IF kind = "authenticate" THEN "stale" ELSE kind

RunningOperation ==
  CASE pc = "loading" -> "connect" [] pc = "closing" -> "disconnect"
    [] pc = "polling" -> Named("authenticate", opAttempt) [] pc = "idle" -> "none"

WaitingOperations == [k \in 1..Len(queue) |-> Named(queue[k].kind, queue[k].attempt)]

IsActive == status \in Active

Queue == INSTANCE InstanceQueue
  WITH active <- IsActive, running <- RunningOperation, waiting <- WaitingOperations

ImplementsQueue == Queue!Spec

\* Its safety part rests on this: a sign-in in progress has its turn or waits for
\* it, and has one place on the chain.
ImplementsQueueSafely == Queue!Init /\ [][Queue!Next]_(Queue!vars)

SignInHasOneTurn ==
  LET Waits(i) == queue[i].attempt = currentAuthAttempt
  IN  currentAuthAttempt # NoAttempt =>
        /\ (pc = "polling" /\ opAttempt = currentAuthAttempt) \/ \E i \in 1..Len(queue) : Waits(i)
        /\ pc = "polling" /\ opAttempt = currentAuthAttempt => \A i \in 1..Len(queue) : ~Waits(i)
        /\ \A i, j \in 1..Len(queue) : Waits(i) /\ Waits(j) => i = j

\* A sign-in that was accepted ends: it succeeds, fails or is cancelled, even
\* when it was queued behind connects and disconnects.
SignInSettles ==
  \A a \in Attempt : currentAuthAttempt = a ~> currentAuthAttempt # a

\* A dropped connection is dialled again, unless a disconnect is asked for.
DropIsRetried ==
  status = "reconnecting" ~> currentBot # NoBot \/ status # "reconnecting"

------------------------------------------------------------------------------
(* What the comments say and the code does not do *)

\* interfaces/bot-instance.ts:9 "'online' -- currently logged in to the server",
\* however late the login of a socket abandoned by disconnect() arrives.
OnlineIsLoggedIn == status = "online" => joined # {}

==============================================================================
