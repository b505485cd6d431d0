--------------------------- MODULE BotManagerProofs ---------------------------
(* Theorems about BotManager, for any ids, configs, handles and overlapping calls. *)
EXTENDS BotManager, SequenceTheorems, TLAPS

(* Type correctness *)

\* A handle that was just made, a free name and an idle closure are typed.
LEMMA FreshTypes ==
  /\ Unused \in Instance
  /\ Idle \in Closure
  /\ \A i \in Id, config \in Config, connects \in BOOLEAN, c \in Call \cup {NoCall} :
       StartedWith(i, config, connects, c) \in Instance
<1>1. Unused \in Instance
  <2>1. <<>> \in Seq(Operation)
    OBVIOUS
  <2> QED BY <2>1 DEF Unused, Instance, ConfigOrNone
<1>2. Idle \in Closure
  BY DEF Idle, Closure, Phase, ConfigOrNone
<1>3. ASSUME NEW i \in Id, NEW config \in Config, NEW connects \in BOOLEAN,
             NEW c \in Call \cup {NoCall}
      PROVE  StartedWith(i, config, connects, c) \in Instance
  <2>1. Op("connect", c) \in Operation
    BY DEF Op, Operation
  <2>2. (IF connects /\ config \in Hosted THEN <<Op("connect", c)>> ELSE <<>>) \in Seq(Operation)
    BY <2>1
  <2> QED BY <1>1, <2>2 DEF StartedWith, Instance, ConfigOrNone
<1> QED BY <1>1, <1>2, <1>3

\* Closures and instances stay typed when some of their fields are replaced.
LEMMA ClosureTypes ==
  ASSUME NEW k \in Closure
  PROVE  /\ \A at \in Phase : [k EXCEPT !.at = at] \in Closure
         /\ \A at \in Phase, h \in Handle \cup {NoHandle} :
              /\ [k EXCEPT !.at = at, !.handle = h] \in Closure
              /\ [k EXCEPT !.at = at, !.handle = h, !.answer = "none"] \in Closure
         /\ \A at \in Phase, h \in Handle \cup {NoHandle}, image \in [Id -> ConfigOrNone] :
              [k EXCEPT !.at = at, !.handle = h, !.answer = "none", !.image = image] \in Closure
         /\ \A answer \in {"resolved", "rejected"} : [k EXCEPT !.answer = answer] \in Closure
BY DEF Closure

\* A call that takes its place on a chain keeps the handles typed.
LEMMA SendTypes ==
  ASSUME TypeOK, NEW h \in Handle, NEW op \in Operation, Send(h, op)
  PROVE  inst' \in [Handle -> Instance]
<1>1. inst[h] \in Instance /\ inst[h].waiting \in Seq(Operation)
  BY DEF TypeOK, Instance
<1>2. Append(inst[h].waiting, op) \in Seq(Operation)
  BY <1>1, AppendProperties
<1>3. [inst[h] EXCEPT !.waiting = Append(@, op)] \in Instance
  BY <1>1, <1>2 DEF Instance
<1>4. inst' = [inst EXCEPT ![h] = [inst[h] EXCEPT !.waiting = Append(@, op)]]
  BY DEF Send
<1> QED BY <1>3, <1>4 DEF TypeOK

\* A call that returns keeps the queue and the closures typed.
LEMMA FinishTypes ==
  ASSUME TypeOK, NEW c \in Call, crudQueue # <<>>, Finish(c)
  PROVE  call' \in [Call -> Closure] /\ crudQueue' \in Seq(Call)
BY FreshTypes DEF TypeOK, Finish

\* handle.connect(), accepted or refused, keeps everything typed.
LEMMA TryConnectTypes ==
  ASSUME TypeOK, NEW c \in Call, NEW h \in Handle, crudQueue # <<>>, TryConnect(c, h)
  PROVE  /\ inst' \in [Handle -> Instance]
         /\ call' \in [Call -> Closure] /\ crudQueue' \in Seq(Call)
<1>1. CASE Refuses(h)
  BY <1>1, FinishTypes DEF TryConnect, TypeOK
<1>2. CASE ~Refuses(h)
  <2>1. Op("connect", c) \in Operation
    BY DEF Op, Operation
  <2>2. inst' \in [Handle -> Instance]
    BY <1>2, <2>1, SendTypes DEF TryConnect
  <2>3. [call[c] EXCEPT !.at = "connecting", !.handle = h, !.answer = "none"] \in Closure
    BY ClosureTypes DEF TypeOK, Phase
  <2> QED BY <1>2, <2>2, <2>3 DEF TryConnect, TypeOK
<1> QED BY <1>1, <1>2

\* What a request carries, by its kind.
LEMMA JobTypes ==
  ASSUME NEW job \in Job
  PROVE  /\ job.id \in Id /\ job.config \in ConfigOrNone
         /\ job.kind \in {"add", "update"} => job.config \in Config
         /\ job.kind = "remove" => job.config = NoConfig
         /\ job.kind \in {"add", "update", "remove", "connect", "disconnect", "restart"}
BY DEF Job, ConfigOrNone

\* What currentConfigs() returns has the type of the file.
LEMMA MemoryTypes ==
  ASSUME TypeOK
  PROVE  Memory \in [Id -> ConfigOrNone]
BY DEF TypeOK, Memory, Instance, ConfigOrNone

\* A call that is not idle is in the queue, with a job; past its beginning it is
\* the first one.
LEMMA CallInQueue ==
  ASSUME TypeOK, QueueInv, NEW c \in Call, call[c].at # "idle"
  PROVE  /\ crudQueue # <<>> /\ up /\ call[c].job \in Job
         /\ call[c].at # "queued" => Head(crudQueue) = c
<1>1. PICK k \in 1..Len(crudQueue) : crudQueue[k] = c
  BY DEF QueueInv
<1>2. crudQueue # <<>>
  BY <1>1 DEF TypeOK
<1>3. up
  BY <1>2 DEF QueueInv
<1>4. call[c].job \in Job
  BY DEF QueueInv
<1>5. call[c].at # "queued" => Head(crudQueue) = c
  BY DEF QueueInv, Turn
<1> QED BY <1>2, <1>3, <1>4, <1>5

\* The process before startAll is typed.
LEMMA InitTypes == Init => TypeOK
<1> SUFFICES ASSUME Init PROVE TypeOK
  OBVIOUS
<1>1. crudQueue \in Seq(Call)
  BY DEF Init
<1>2. inst \in [Handle -> Instance] /\ call \in [Call -> Closure]
  BY FreshTypes DEF Init
<1> QED BY <1>1, <1>2 DEF Init, TypeOK

\* startAll keeps everything typed.
LEMMA StartAllTypes ==
  ASSUME TypeOK, StartAll
  PROVE  TypeOK'
<1>1. ASSUME NEW h \in Handle
      PROVE  inst'[h] \in Instance
  <2>1. CASE \E i \in Id : instances'[i] = h
    <3>1. PICK i \in Id : instances'[i] = h /\ i = CHOOSE j \in Id : instances'[j] = h
      BY <2>1
    <3>2. file[i] \in Config
      BY <3>1, NameAssumption DEF StartAll, TypeOK, ConfigOrNone
    <3>3. inst'[h] = StartedWith(i, file[i], file[i] \in AutoConnect, NoCall)
      BY <3>1, <2>1 DEF StartAll
    <3>4. \/ inst'[h] = StartedWith(i, file[i], TRUE, NoCall)
          \/ inst'[h] = StartedWith(i, file[i], FALSE, NoCall)
      BY <3>3 DEF StartedWith
    <3> QED BY <3>2, <3>4, FreshTypes
  <2>2. CASE ~\E i \in Id : instances'[i] = h
    BY <2>2, FreshTypes DEF StartAll
  <2> QED BY <2>1, <2>2
<1>2. inst' \in [Handle -> Instance]
  BY <1>1 DEF StartAll
<1> QED BY <1>2 DEF StartAll, TypeOK

\* The end of the process keeps everything typed.
LEMMA CrashTypes ==
  ASSUME TypeOK, Crash
  PROVE  TypeOK'
<1>1. crudQueue' \in Seq(Call)
  BY DEF Crash
<1> QED BY <1>1, FreshTypes DEF Crash, TypeOK

\* A request that queues a call keeps everything typed.
LEMMA RequestTypes ==
  ASSUME TypeOK, NEW c \in Call, NEW job \in Job, Request(c, job)
  PROVE  TypeOK'
<1>1. [Idle EXCEPT !.job = job, !.at = "queued"] \in Closure
  BY FreshTypes DEF Closure, Phase
<1>2. crudQueue' \in Seq(Call)
  BY AppendProperties DEF Request, TypeOK
<1> QED BY <1>1, <1>2 DEF Request, TypeOK

\* A turn of a queued call keeps everything typed.
LEMMA ContinueTypes ==
  ASSUME TypeOK, CrudInv, NEW c \in Call, Continue(c)
  PROVE  TypeOK'
<1>1. call[c].at # "idle"
  BY DEF Continue, Begins, Stopped, CallRefused, CallDisconnect, CallConnect, CallSaves, CallReturns
<1>2. crudQueue # <<>> /\ call[c].job \in Job /\ Target(c) \in Handle \cup {NoHandle}
  BY <1>1, CallInQueue, JobTypes DEF CrudInv, Target, TypeOK
<1>3. CASE CallRefused(c)
  BY <1>2, <1>3, FinishTypes DEF CallRefused, TypeOK
<1>4. CASE CallDisconnect(c)
  <2>1. Target(c) \in Handle /\ Op("disconnect", c) \in Operation
    BY <1>2, <1>4 DEF CallDisconnect, Op, Operation
  <2>2. inst' \in [Handle -> Instance]
    BY <1>4, <2>1, SendTypes DEF CallDisconnect
  <2> DEFINE k == [call[c] EXCEPT !.at = "disconnecting", !.handle = Target(c),
                                  !.wasActive = call[c].job.kind = "update"]
  <2>3. k \in Closure
    <3>1. \A b \in BOOLEAN : [call[c] EXCEPT !.at = "disconnecting", !.handle = Target(c),
                                             !.wasActive = b] \in Closure
      BY <1>2 DEF TypeOK, Phase, Closure
    <3>2. (call[c].job.kind = "update") \in BOOLEAN
      OBVIOUS
    <3> QED BY <3>1, <3>2, Zenon
  <2>4. call' = [call EXCEPT ![c] = k]
    BY <1>4, Zenon DEF CallDisconnect
  <2> HIDE DEF k
  <2>5. call' \in [Call -> Closure]
    BY <2>3, <2>4 DEF TypeOK
  <2> QED BY <1>4, <2>2, <2>5 DEF CallDisconnect, TypeOK
<1>5. CASE CallConnect(c)
  <2>1. PICK h \in Handle : TryConnect(c, h)
    <3>1. Stopped(c) => call[c].handle \in Handle
      BY <1>2 DEF CrudInv, ClosureInv, Stopped
    <3> QED BY <1>2, <1>5, <3>1 DEF CallConnect
  <2> QED BY <1>2, <1>5, <2>1, TryConnectTypes DEF CallConnect, TypeOK
<1>6. CASE CallSaves(c)
  <2>1. [Memory EXCEPT ![call[c].job.id] = call[c].job.config] \in [Id -> ConfigOrNone]
    BY <1>2, JobTypes, MemoryTypes
  <2>2. [call[c] EXCEPT !.at = "saving", !.handle = Target(c), !.answer = "none",
                        !.image = [Memory EXCEPT ![call[c].job.id] = call[c].job.config]] \in Closure
    BY <1>2, <2>1, ClosureTypes DEF TypeOK, Phase
  <2> QED BY <1>6, <2>2 DEF CallSaves, TypeOK
<1>7. CASE CallReturns(c)
  BY <1>2, <1>7, FinishTypes DEF CallReturns, TypeOK
<1> QED BY <1>3, <1>4, <1>5, <1>6, <1>7 DEF Continue

\* The handle that an add or an update makes, and what is left of the old one.
LEMMA ReplacedTypes ==
  ASSUME TypeOK, NEW c \in Call, call[c].job \in Job, call[c].job.kind \in {"add", "update"},
         NEW h \in Handle, Replaced(c, h)
  PROVE  instances' \in [Id -> Handle \cup {NoHandle}] /\ inst' \in [Handle -> Instance]
<1>1. call[c].job.id \in Id /\ call[c].job.config \in Config
  BY JobTypes
<1>2. instances' \in [Id -> Handle \cup {NoHandle}]
  BY <1>1 DEF Replaced, TypeOK
<1>3. StartedWith(call[c].job.id, call[c].job.config, Connects(c), c) \in Instance
  <2>1. \/ StartedWith(call[c].job.id, call[c].job.config, Connects(c), c)
             = StartedWith(call[c].job.id, call[c].job.config, TRUE, c)
        \/ StartedWith(call[c].job.id, call[c].job.config, Connects(c), c)
             = StartedWith(call[c].job.id, call[c].job.config, FALSE, c)
    BY DEF StartedWith
  <2> QED BY <1>1, <2>1, FreshTypes
<1>4. \A g \in Handle : Forgotten(g) \in Instance
  BY FreshTypes DEF Forgotten, TypeOK, Instance, ConfigOrNone
<1> QED BY <1>2, <1>3, <1>4 DEF Replaced, TypeOK

\* A save that settles, and the swap after it, keep everything typed.
LEMMA SaveSettlesTypes ==
  ASSUME TypeOK, CrudInv, NEW c \in Call, SaveSettles(c)
  PROVE  TypeOK'
<1>1. call[c].at \in {"saving", "saved"}
  BY DEF SaveSettles, Renamed, SaveFails, Swap, Drop
<1>2. crudQueue # <<>> /\ call[c].job \in Job
  BY <1>1, CallInQueue DEF CrudInv
<1>3. CASE Renamed(c)
  <2>1. call[c].image \in [Id -> ConfigOrNone] /\ [call[c] EXCEPT !.at = "saved"] \in Closure
    BY DEF TypeOK, Closure, Phase
  <2> QED BY <1>3, <2>1 DEF Renamed, TypeOK
<1>4. CASE SaveFails(c)
  <2>1. CASE call[c].job.kind = "update" /\ call[c].wasActive
    <3>1. call[c].handle \in Handle
      BY <1>4, <2>1 DEF SaveFails, CrudInv, ClosureInv, TypeOK, Closure
    <3>2. TryConnect(c, call[c].handle)
      BY <1>4, <2>1 DEF SaveFails, FailedSaveIsUndone
    <3> QED BY <1>2, <1>4, <3>1, <3>2, TryConnectTypes DEF SaveFails, TypeOK
  <2>2. CASE ~(call[c].job.kind = "update" /\ call[c].wasActive)
    BY <1>2, <1>4, <2>2, FinishTypes DEF SaveFails, FailedSaveIsUndone, TypeOK
  <2> QED BY <2>1, <2>2
<1>5. CASE Swap(c)
  <2>1. PICK h \in Handle : /\ Replaced(c, h)
                            /\ \/ /\ call' = [call EXCEPT ![c] = [@ EXCEPT !.at = "connecting", !.handle = h]]
                                  /\ UNCHANGED crudQueue
                               \/ Finish(c)
    BY <1>5, Zenon DEF Swap, FreeHandles
  <2>2. instances' \in [Id -> Handle \cup {NoHandle}] /\ inst' \in [Handle -> Instance]
    BY <1>2, <1>5, <2>1, ReplacedTypes DEF Swap
  <2>3. [call[c] EXCEPT !.at = "connecting", !.handle = h] \in Closure
    BY DEF TypeOK, Closure, Phase
  <2>4. call' \in [Call -> Closure] /\ crudQueue' \in Seq(Call)
    BY <1>2, <2>1, <2>3, FinishTypes DEF TypeOK
  <2> QED BY <1>5, <2>2, <2>4 DEF Swap, TypeOK
<1>6. CASE Drop(c)
  <2>1. \A g \in Handle : Forgotten(g) \in Instance
    BY FreshTypes DEF Forgotten, TypeOK, Instance, ConfigOrNone
  <2>2. call[c].handle \in Handle
    BY <1>1, <1>6 DEF Drop, CrudInv, ClosureInv, TypeOK, Closure
  <2>3. instances' \in [Id -> Handle \cup {NoHandle}] /\ inst' \in [Handle -> Instance]
    BY <1>6, <2>1, <2>2 DEF Drop, TypeOK
  <2> QED BY <1>2, <1>6, <2>3, FinishTypes DEF Drop, TypeOK
<1> QED BY <1>3, <1>4, <1>5, <1>6 DEF SaveSettles

\* A sign-in and its cancellation keep everything typed.
LEMMA SignInTypes ==
  ASSUME TypeOK, NEW i \in Id, Authenticate(i) \/ CancelAuthentication(i)
  PROVE  TypeOK'
<1>1. CASE Authenticate(i)
  <2>1. instances[i] \in Handle /\ Op("sign_in", NoCall) \in Operation
    BY <1>1 DEF Authenticate, TypeOK, Op, Operation
  <2>2. inst' \in [Handle -> Instance]
    BY <1>1, <2>1, SendTypes DEF Authenticate
  <2> QED BY <1>1, <2>2 DEF Authenticate, TypeOK
<1>2. CASE CancelAuthentication(i)
  <2> DEFINE h == instances[i]
             rest == [k \in 1..Len(inst[h].waiting) |-> Cancelled(inst[h].waiting[k])]
  <2>1. h \in Handle /\ inst[h] \in Instance
    BY <1>2 DEF CancelAuthentication, TypeOK
  <2>2. \A op \in Operation \cup {Nothing} : Cancelled(op) \in Operation \cup {Nothing}
    BY DEF Cancelled, Op, Operation, Nothing
  <2>3. \A op \in Operation : Cancelled(op) \in Operation
    BY DEF Cancelled, Op, Operation
  <2>4. rest \in Seq(Operation)
    BY <2>1, <2>3 DEF Instance
  <2>5. [inst[h] EXCEPT !.running = Cancelled(inst[h].running), !.waiting = rest] \in Instance
    BY <2>1, <2>2, <2>4 DEF Instance
  <2>6. inst' = [inst EXCEPT ![h] = [inst[h] EXCEPT !.running = Cancelled(inst[h].running),
                                                    !.waiting = rest]]
    BY <1>2, <2>1 DEF CancelAuthentication, TypeOK, Instance
  <2>7. inst' \in [Handle -> Instance]
    BY <2>1, <2>5, <2>6 DEF TypeOK
  <2> QED BY <1>2, <2>7 DEF CancelAuthentication, TypeOK
<1> QED BY <1>1, <1>2

\* Beginning, settling and losing a connection change one instance.
LEMMA InstanceTypes ==
  ASSUME NEW k \in Instance
  PROVE  /\ \A active \in BOOLEAN : [k EXCEPT !.active = active] \in Instance
         /\ \A active \in BOOLEAN :
              [k EXCEPT !.running = Nothing, !.active = active] \in Instance
         /\ k.waiting # <<>> =>
              /\ Head(k.waiting) \in Operation
              /\ \A active \in BOOLEAN :
                   /\ [k EXCEPT !.waiting = Tail(@), !.active = active] \in Instance
                   /\ [[k EXCEPT !.waiting = Tail(@)] EXCEPT !.active = active] \in Instance
                   /\ [[k EXCEPT !.waiting = Tail(@)] EXCEPT !.running = Head(k.waiting),
                                                             !.active = active] \in Instance
<1>1. k.waiting \in Seq(Operation)
  BY DEF Instance
<1>2. k.waiting # <<>> => Head(k.waiting) \in Operation /\ Tail(k.waiting) \in Seq(Operation)
  BY <1>1, HeadTailProperties
<1> QED BY <1>1, <1>2 DEF Instance

\* An answer keeps the closures typed.
LEMMA AnsweredTypes ==
  ASSUME TypeOK, NEW op \in Operation \cup {Nothing}, NEW answer \in {"resolved", "rejected"},
         Answered(op, answer)
  PROVE  call' \in [Call -> Closure]
BY ClosureTypes, NameAssumption DEF Answered, TypeOK, Operation, Nothing, Op

\* An operation of a handle that begins or ends keeps everything typed.
LEMMA OperationTypes ==
  ASSUME TypeOK, NEW h \in Handle,
         OperationBegins(h) \/ OperationEnds(h) \/ ConnectionLost(h)
  PROVE  TypeOK'
<1> DEFINE rest == [inst[h] EXCEPT !.waiting = Tail(@)]
<1>0. inst[h] \in Instance /\ inst[h].active \in BOOLEAN /\ inst[h].running \in Operation \cup {Nothing}
  BY DEF TypeOK, Instance
<1>1. CASE OperationBegins(h)
  <2>1. /\ inst[h].waiting # <<>> /\ Head(inst[h].waiting) \in Operation
    BY <1>0, <1>1, InstanceTypes DEF OperationBegins, ChainIsDue
  <2>2. \/ \E active \in BOOLEAN :
             /\ inst' = [inst EXCEPT ![h] = [rest EXCEPT !.running = Head(inst[h].waiting), !.active = active]]
             /\ UNCHANGED call
        \/ \E active \in BOOLEAN, answer \in {"resolved", "rejected"} :
             /\ inst' = [inst EXCEPT ![h] = [rest EXCEPT !.active = active]]
             /\ Answered(Head(inst[h].waiting), answer)
    BY <1>0, <1>1, <2>1 DEF OperationBegins, Operation
  <2>3. inst' \in [Handle -> Instance]
    BY <1>0, <2>1, <2>2, InstanceTypes DEF TypeOK
  <2>4. call' \in [Call -> Closure]
    BY <2>1, <2>2, AnsweredTypes DEF TypeOK
  <2> QED BY <1>1, <2>3, <2>4 DEF OperationBegins, TypeOK
<1>2. CASE OperationEnds(h)
  <2>1. \E active \in BOOLEAN, answer \in {"resolved", "rejected"} :
          /\ inst' = [inst EXCEPT ![h] = [inst[h] EXCEPT !.running = Nothing, !.active = active]]
          /\ Answered(inst[h].running, answer)
    BY <1>0, <1>2 DEF OperationEnds
  <2>2. inst' \in [Handle -> Instance]
    BY <1>0, <2>1, InstanceTypes DEF TypeOK
  <2>3. call' \in [Call -> Closure]
    BY <1>0, <2>1, AnsweredTypes
  <2> QED BY <1>2, <2>2, <2>3 DEF OperationEnds, TypeOK
<1>3. CASE ConnectionLost(h)
  <2>1. inst' = [inst EXCEPT ![h] = [inst[h] EXCEPT !.active = FALSE]]
    BY <1>3 DEF ConnectionLost
  <2>2. inst' \in [Handle -> Instance]
    BY <1>0, <2>1, InstanceTypes DEF TypeOK
  <2> QED BY <1>3, <2>2 DEF ConnectionLost, TypeOK
<1> QED BY <1>1, <1>2, <1>3

\* Every step keeps everything typed, given the invariant of the CRUD queue.
LEMMA NextTypes == TypeOK /\ CrudInv /\ [Next]_vars => TypeOK'
<1> SUFFICES ASSUME TypeOK, CrudInv, [Next]_vars PROVE TypeOK'
  OBVIOUS
<1>1. CASE StartAll \/ Crash
  BY <1>1, StartAllTypes, CrashTypes
<1>2. CASE Requests
  BY <1>2, RequestTypes, SignInTypes DEF Requests
<1>3. CASE \E c \in Call : Continue(c) \/ SaveSettles(c)
  BY <1>3, ContinueTypes, SaveSettlesTypes
<1>4. CASE \E h \in Handle : OperationBegins(h) \/ OperationEnds(h) \/ ConnectionLost(h)
  BY <1>4, OperationTypes
<1>5. CASE UNCHANGED vars
  BY <1>5 DEF vars, TypeOK
<1> QED BY <1>1, <1>2, <1>3, <1>4, <1>5 DEF Next

-------------------------------------------------------------------------------
(* The CRUD queue, the closures, the map and the file *)

\* What is saved next is the same as long as the map is and no handle gets
\* another config.
LEMMA MemorySame ==
  ASSUME instances' = instances,
         \A i \in Id : instances[i] # NoHandle => inst'[instances[i]].config = inst[instances[i]].config
  PROVE  Memory' = Memory
BY DEF Memory

\* While a call has its turn, all others are idle or yet to begin.
LEMMA OthersWait ==
  ASSUME QueueInv, NEW c \in Call, Turn(c)
  PROVE  \A d \in Call : d # c => call[d].at \in {"idle", "queued"}
BY DEF QueueInv, Turn

\* The call that has its turn goes on to another wait.
LEMMA QueueStays ==
  ASSUME TypeOK, QueueInv, NEW c \in Call, Turn(c), NEW k, call' = [call EXCEPT ![c] = k],
         k.at # "idle", k.job \in Job, up', UNCHANGED crudQueue
  PROVE  QueueInv'
<1>1. \A d \in Call : call'[d] = IF d = c THEN k ELSE call[d]
  BY DEF TypeOK
<1>2. \E n \in 1..Len(crudQueue) : crudQueue[n] = c
  BY DEF Turn, TypeOK
<1>3. Turn(c)'
  BY DEF Turn
<1> QED BY <1>1, <1>2, <1>3 DEF QueueInv, Turn

\* A call returns, and the next one has its turn.
LEMMA QueueAdvances ==
  ASSUME TypeOK, QueueInv, NEW c \in Call, Turn(c), Finish(c), up'
  PROVE  QueueInv'
<1>1. \A d \in Call : call'[d] = IF d = c THEN Idle ELSE call[d]
  BY DEF TypeOK, Finish
<1>2. /\ Len(crudQueue') = Len(crudQueue) - 1 /\ Len(crudQueue) \in Nat
      /\ \A n \in 1..Len(crudQueue') : n + 1 \in 1..Len(crudQueue) /\ crudQueue'[n] = crudQueue[n + 1]
  BY DEF TypeOK, Turn, Finish
<1>3. crudQueue[1] = c
  BY DEF TypeOK, Turn
<1>4. \A n, l \in 1..Len(crudQueue') : crudQueue'[n] = crudQueue'[l] => n = l
  BY <1>2 DEF QueueInv
<1>5. \A n \in 1..Len(crudQueue') : crudQueue'[n] # c
  BY <1>2, <1>3 DEF QueueInv
<1>6. ASSUME NEW d \in Call
      PROVE  call'[d].at # "idle" <=> \E n \in 1..Len(crudQueue') : crudQueue'[n] = d
  <2>1. CASE d = c
    BY <1>1, <1>5, <2>1 DEF Idle
  <2>2. CASE d # c
    <3>1. ASSUME NEW n \in 1..Len(crudQueue), crudQueue[n] = d
          PROVE  n - 1 \in 1..Len(crudQueue') /\ crudQueue'[n - 1] = d
      <4>1. n # 1
        BY <1>3, <2>2, <3>1
      <4>2. n - 1 \in 1..Len(crudQueue')
        BY <1>2, <4>1
      <4> QED BY <1>2, <3>1, <4>2
    <3>2. (\E n \in 1..Len(crudQueue) : crudQueue[n] = d)
             <=> \E n \in 1..Len(crudQueue') : crudQueue'[n] = d
      BY <1>2, <3>1
    <3> QED BY <1>1, <2>2, <3>2 DEF QueueInv
  <2> QED BY <2>1, <2>2
<1>7. \A d \in Call : call'[d].at \in {"idle", "queued"}
  BY <1>1, OthersWait DEF Idle
<1>8. \A d \in Call : call'[d].at # "idle" => call'[d].job \in Job
  BY <1>1 DEF QueueInv, Idle
<1> QED BY <1>4, <1>6, <1>7, <1>8 DEF QueueInv

\* The configs of the handles in the map are untouched.
SameConfigs == /\ UNCHANGED <<up, file, instances>>
               /\ \A h \in Handle : inst'[h].config = inst[h].config

\* A call on a chain changes no config.
LEMMA SendKeepsConfigs ==
  ASSUME TypeOK, NEW h \in Handle, NEW op, Send(h, op)
  PROVE  \A g \in Handle : inst'[g].config = inst[g].config
BY DEF TypeOK, Instance, Send

\* The call that has its turn returns, having changed nothing.
LEMMA FinishKeepsCrud ==
  ASSUME TypeOK, CrudInv, NEW c \in Call, Turn(c), up, call[c].at # "saved", Finish(c), SameConfigs
  PROVE  CrudInv'
<1>1. QueueInv'
  BY QueueAdvances DEF CrudInv, SameConfigs
<1>2. \A d \in Call : /\ call'[d] = IF d = c THEN Idle ELSE call[d]
                      /\ call'[d].at \in {"idle", "queued"}
  BY OthersWait DEF CrudInv, TypeOK, Finish, Idle
<1>3. Memory' = Memory
  BY MemorySame DEF TypeOK, SameConfigs
<1>4. \A d \in Call : call[d].at # "saved"
  BY OthersWait DEF CrudInv
<1>5. MapInv'
  BY DEF CrudInv, MapInv, SameConfigs, TypeOK
<1>6. FileInv'
  BY <1>2, <1>3, <1>4 DEF CrudInv, FileInv, FileIsMemory, SameConfigs
<1>7. ClosureInv'
  BY <1>2 DEF ClosureInv
<1> QED BY <1>1, <1>5, <1>6, <1>7 DEF CrudInv

\* The call that has its turn starts to wait on the handle of its id.
LEMMA WaitKeepsCrud ==
  ASSUME TypeOK, CrudInv, NEW c \in Call, Turn(c), up, call[c].at \notin {"idle", "saved"},
         SameConfigs, UNCHANGED crudQueue,
         NEW k, call' = [call EXCEPT ![c] = k], k.at \in {"disconnecting", "connecting"},
         k.handle = Target(c), Target(c) # NoHandle, k.job = call[c].job,
         k.at = "disconnecting" => k.job.kind # "add"
  PROVE  CrudInv'
<1>1. QueueInv'
  BY CallInQueue, QueueStays DEF CrudInv, SameConfigs
<1>2. \A d \in Call : /\ call'[d] = IF d = c THEN k ELSE call[d]
                      /\ d # c => call'[d].at \in {"idle", "queued"}
  BY OthersWait DEF CrudInv, TypeOK
<1>3. Memory' = Memory
  BY MemorySame DEF TypeOK, SameConfigs
<1>4. \A d \in Call : call[d].at # "saved"
  BY OthersWait DEF CrudInv
<1>5. MapInv'
  BY DEF CrudInv, MapInv, SameConfigs, TypeOK
<1>6. FileInv'
  BY <1>2, <1>3, <1>4 DEF CrudInv, FileInv, FileIsMemory, SameConfigs
<1>7. ClosureInv'
  BY <1>2 DEF ClosureInv, Target, SameConfigs
<1> QED BY <1>1, <1>5, <1>6, <1>7 DEF CrudInv

\* handle.connect(): a wait, or the end of the call.
LEMMA TryConnectKeepsCrud ==
  ASSUME TypeOK, CrudInv, NEW c \in Call, Turn(c), up, call[c].at \notin {"idle", "saved"},
         Target(c) \in Handle, Target(c) # NoHandle, TryConnect(c, Target(c)),
         UNCHANGED <<up, file, instances>>
  PROVE  CrudInv'
<1>1. CASE Refuses(Target(c))
  BY <1>1, FinishKeepsCrud DEF TryConnect, SameConfigs
<1>2. CASE ~Refuses(Target(c))
  <2> DEFINE k == [call[c] EXCEPT !.at = "connecting", !.handle = Target(c), !.answer = "none"]
  <2>1. k.at = "connecting" /\ k.handle = Target(c) /\ k.job = call[c].job
    BY DEF TypeOK, Closure
  <2>2. call' = [call EXCEPT ![c] = k] /\ UNCHANGED crudQueue
    BY <1>2 DEF TryConnect
  <2>3. SameConfigs
    BY <1>2, SendKeepsConfigs DEF TryConnect, SameConfigs
  <2> HIDE DEF k
  <2> QED BY <2>1, <2>2, <2>3, WaitKeepsCrud
<1> QED BY <1>1, <1>2

\* Steps of the handles, and the sign-ins, leave the queue and the closures alone
\* but for answers.
LEMMA AnswerKeepsCrud ==
  ASSUME TypeOK, CrudInv, up, SameConfigs, UNCHANGED crudQueue,
         \A c \in Call : /\ call'[c].at = call[c].at /\ call'[c].job = call[c].job
                         /\ call'[c].handle = call[c].handle /\ call'[c].image = call[c].image
  PROVE  CrudInv'
<1>1. Memory' = Memory
  BY MemorySame DEF TypeOK, SameConfigs
<1>2. QueueInv'
  BY DEF CrudInv, QueueInv, Turn, SameConfigs
<1>3. ClosureInv'
  BY <1>1 DEF CrudInv, ClosureInv, Target, SameConfigs
<1>4. MapInv'
  BY DEF CrudInv, MapInv, SameConfigs, TypeOK
<1>5. FileInv'
  BY <1>1 DEF CrudInv, FileInv, FileIsMemory, SameConfigs
<1> QED BY <1>2, <1>3, <1>4, <1>5 DEF CrudInv

\* A request joins the queue as its last call, yet to begin.
LEMMA RequestKeepsCrud ==
  ASSUME TypeOK, CrudInv, NEW c \in Call, NEW job \in Job, Request(c, job)
  PROVE  CrudInv'
<1> DEFINE k == [Idle EXCEPT !.job = job, !.at = "queued"]
<1>0. k.at = "queued" /\ k.job = job
  BY DEF Idle
<1>1. \A d \in Call : call'[d] = IF d = c THEN k ELSE call[d]
  BY DEF Request, TypeOK
<1> HIDE DEF k
<1>2. /\ Len(crudQueue) \in Nat /\ Len(crudQueue') = Len(crudQueue) + 1
      /\ crudQueue'[Len(crudQueue) + 1] = c
      /\ \A n \in 1..Len(crudQueue) : crudQueue'[n] = crudQueue[n]
  BY AppendProperties DEF Request, TypeOK
<1>3. \A n \in 1..Len(crudQueue) : crudQueue[n] # c
  BY DEF CrudInv, QueueInv, Request
<1>4. \A n, l \in 1..Len(crudQueue') : crudQueue'[n] = crudQueue'[l] => n = l
  BY <1>2, <1>3 DEF CrudInv, QueueInv
<1>5. ASSUME NEW d \in Call
      PROVE  call'[d].at # "idle" <=> \E n \in 1..Len(crudQueue') : crudQueue'[n] = d
  <2>1. (\E n \in 1..Len(crudQueue') : crudQueue'[n] = d)
          <=> d = c \/ \E n \in 1..Len(crudQueue) : crudQueue[n] = d
    BY <1>2
  <2> QED BY <1>0, <1>1, <2>1 DEF CrudInv, QueueInv
<1>6. ASSUME NEW d \in Call, call'[d].at \notin {"idle", "queued"}
      PROVE  Turn(d)'
  <2>1. Turn(d)
    BY <1>0, <1>1, <1>6 DEF CrudInv, QueueInv
  <2> QED BY <1>2, <2>1 DEF Turn, TypeOK
<1>7. QueueInv'
  BY <1>0, <1>1, <1>4, <1>5, <1>6 DEF CrudInv, QueueInv, Request
<1>8. Memory' = Memory
  BY DEF Request, Memory
<1>9. ClosureInv'
  BY <1>0, <1>1, <1>8 DEF CrudInv, ClosureInv, Target, Request
<1>10. MapInv'
  BY DEF CrudInv, MapInv, Request
<1>11. FileInv'
  BY <1>0, <1>1, <1>8 DEF CrudInv, FileInv, FileIsMemory, Request
<1> QED BY <1>7, <1>9, <1>10, <1>11 DEF CrudInv

\* A turn of a queued call keeps the invariant: it refuses, waits, saves or returns.
LEMMA ContinueKeepsCrud ==
  ASSUME TypeOK, CrudInv, NEW c \in Call, Continue(c)
  PROVE  CrudInv'
<1>1. call[c].at # "idle"
  BY DEF Continue, Begins, Stopped, CallRefused, CallDisconnect, CallConnect, CallSaves, CallReturns
<1>2. up /\ call[c].job \in Job /\ call[c].job.id \in Id /\ Target(c) \in Handle \cup {NoHandle}
  BY <1>1, CallInQueue, JobTypes DEF CrudInv, Target, TypeOK
<1>3. Turn(c) /\ call[c].at # "saved"
  BY DEF Continue, Begins, Stopped, CallRefused, CallDisconnect, CallConnect, CallSaves, CallReturns,
         CrudInv, QueueInv
<1>4. CASE CallRefused(c)
  BY <1>2, <1>3, <1>4, FinishKeepsCrud DEF CallRefused, SameConfigs
<1>5. CASE CallDisconnect(c)
  <2> DEFINE k == [call[c] EXCEPT !.at = "disconnecting", !.handle = Target(c),
                                  !.wasActive = call[c].job.kind = "update"]
  <2>1. k.at = "disconnecting" /\ k.handle = Target(c) /\ k.job = call[c].job
    BY DEF TypeOK, Closure
  <2>2. call' = [call EXCEPT ![c] = k]
    BY <1>5, Zenon DEF CallDisconnect
  <2> HIDE DEF k
  <2>3. SameConfigs
    BY <1>2, <1>5, SendKeepsConfigs DEF CallDisconnect, SameConfigs
  <2> QED BY <1>1, <1>2, <1>3, <1>5, <2>1, <2>2, <2>3, WaitKeepsCrud DEF CallDisconnect
<1>6. CASE CallConnect(c)
  <2>1. Target(c) # NoHandle /\ TryConnect(c, Target(c))
    BY <1>6 DEF CallConnect, Stopped, CrudInv, ClosureInv
  <2> QED BY <1>1, <1>2, <1>3, <1>6, <2>1, TryConnectKeepsCrud DEF CallConnect
<1>7. CASE CallSaves(c)
  <2> DEFINE k == [call[c] EXCEPT !.at = "saving", !.handle = Target(c), !.answer = "none",
                      !.image = [Memory EXCEPT ![call[c].job.id] = call[c].job.config]]
  <2>1. /\ k.at = "saving" /\ k.handle = Target(c) /\ k.job = call[c].job
        /\ k.image = [Memory EXCEPT ![call[c].job.id] = call[c].job.config]
    BY DEF TypeOK, Closure
  <2>2. call' = [call EXCEPT ![c] = k]
    BY <1>7 DEF CallSaves
  <2> HIDE DEF k
  <2>3. /\ call[c].job.kind \in {"add", "remove", "update"}
        /\ call[c].job.kind = "add" <=> Target(c) = NoHandle
    BY <1>7 DEF CallSaves, Stopped, CrudInv, ClosureInv
  <2>4. QueueInv'
    BY <1>2, <1>3, <1>7, <2>1, <2>2, QueueStays DEF CrudInv, CallSaves
  <2>5. \A d \in Call : /\ call'[d] = IF d = c THEN k ELSE call[d]
                        /\ d # c => call'[d].at \in {"idle", "queued"}
    BY <1>3, <2>2, OthersWait DEF CrudInv, TypeOK
  <2>6. Memory' = Memory
    BY <1>7 DEF CallSaves, Memory
  <2>a. \A d \in Call : d # c => call'[d].at \in {"idle", "queued"}
    BY <2>5
  <2>b. call'[c] = k /\ instances' = instances
    BY <1>7, <2>5 DEF CallSaves
  <2>7. ClosureInv'
    BY <2>1, <2>3, <2>6, <2>a, <2>b DEF ClosureInv, Target
  <2>8. MapInv'
    BY <1>7 DEF CrudInv, MapInv, CallSaves
  <2>9. \A d \in Call : call[d].at # "saved"
    BY <1>3, OthersWait DEF CrudInv
  <2>10. FileInv'
    BY <1>7, <2>1, <2>5, <2>6, <2>9 DEF CrudInv, FileInv, FileIsMemory, CallSaves
  <2> QED BY <2>4, <2>7, <2>8, <2>10 DEF CrudInv
<1>8. CASE CallReturns(c)
  BY <1>2, <1>3, <1>8, FinishKeepsCrud DEF CallReturns, SameConfigs
<1> QED BY <1>4, <1>5, <1>6, <1>7, <1>8 DEF Continue

\* startAll makes the handles from the file, so that the two agree.
LEMMA StartAllKeepsCrud ==
  ASSUME TypeOK, CrudInv, StartAll
  PROVE  CrudInv'
<1>1. crudQueue = <<>> /\ \A c \in Call : call[c].at = "idle"
  BY DEF CrudInv, QueueInv, StartAll
<1>2. ASSUME NEW i \in Id, instances'[i] # NoHandle
      PROVE  inst'[instances'[i]].config = file[i] /\ file[i] \in Config
  <2>1. instances'[i] \in Handle /\ file[i] \in Config
    BY <1>2 DEF StartAll, TypeOK, ConfigOrNone
  <2>2. i = CHOOSE j \in Id : instances'[j] = instances'[i]
    BY <1>2 DEF StartAll
  <2>3. inst'[instances'[i]] = StartedWith(i, file[i], file[i] \in AutoConnect, NoCall)
    BY <1>2, <2>1, <2>2 DEF StartAll
  <2> QED BY <2>1, <2>3 DEF StartedWith, Unused
<1>3. QueueInv'
  BY <1>1 DEF CrudInv, QueueInv, StartAll
<1>4. ClosureInv'
  BY <1>1 DEF ClosureInv, StartAll
<1>5. MapInv'
  BY <1>2 DEF MapInv, StartAll
<1>6. Memory' = file
  <2>1. \A i \in Id : instances'[i] = NoHandle => file[i] = NoConfig
    BY DEF StartAll
  <2> QED BY <1>2, <2>1 DEF Memory, TypeOK
<1>7. FileInv'
  BY <1>1, <1>6 DEF FileInv, FileIsMemory, StartAll
<1> QED BY <1>3, <1>4, <1>5, <1>7 DEF CrudInv

\* The end of the process leaves nothing but the file.
LEMMA CrashKeepsCrud ==
  ASSUME TypeOK, CrudInv, Crash
  PROVE  CrudInv'
<1>1. crudQueue' = <<>> /\ \A c \in Call : call'[c].at = "idle"
  BY DEF Crash, Idle
<1>2. QueueInv'
  BY <1>1 DEF QueueInv, Crash
<1> QED BY <1>1, <1>2 DEF Crash, CrudInv, ClosureInv, MapInv, FileInv, FileIsMemory

\* Once the map has been changed to what was saved, the file is what is saved next.
LEMMA SwapMeetsFile ==
  ASSUME TypeOK, CrudInv, NEW c \in Call, call[c].at = "saved", Turn(c), call[c].job \in Job,
         instances' \in [Id -> Handle \cup {NoHandle}],
         \A i \in Id \ {call[c].job.id} :
           /\ instances'[i] = instances[i]
           /\ instances[i] # NoHandle => inst'[instances[i]].config = inst[instances[i]].config,
         Memory'[call[c].job.id] = call[c].job.config,
         UNCHANGED file
  PROVE  Memory' = file
<1>1. /\ file = [Memory EXCEPT ![call[c].job.id] = call[c].job.config]
      /\ Memory \in [Id -> ConfigOrNone] /\ call[c].job.id \in Id
  BY MemoryTypes, JobTypes DEF CrudInv, FileInv, ClosureInv
<1>2. \A i \in Id : Memory'[i] = file[i]
  BY <1>1 DEF Memory
<1> QED BY <1>1, <1>2 DEF Memory

\* A rename, a failed save, a swap and a removal keep the invariant.
LEMMA SaveSettlesKeepsCrud ==
  ASSUME TypeOK, CrudInv, NEW c \in Call, SaveSettles(c)
  PROVE  CrudInv'
<1>1. call[c].at \in {"saving", "saved"}
  BY DEF SaveSettles, Renamed, SaveFails, Swap, Drop
<1>2. /\ up /\ Turn(c) /\ call[c].job \in Job /\ call[c].job.id \in Id
      /\ Target(c) \in Handle \cup {NoHandle} /\ call[c].handle = Target(c)
      /\ call[c].job.kind = "add" <=> Target(c) = NoHandle
      /\ call[c].image = [Memory EXCEPT ![call[c].job.id] = call[c].job.config]
  <2>1. up /\ call[c].job \in Job
    BY <1>1, CallInQueue DEF CrudInv
  <2>2. Turn(c)
    BY <1>1 DEF CrudInv, QueueInv
  <2>3. call[c].job.id \in Id
    BY <2>1, JobTypes
  <2> QED BY <1>1, <2>1, <2>2, <2>3 DEF CrudInv, ClosureInv, Target, TypeOK
<1>3. \A d \in Call : d # c => call[d].at \in {"idle", "queued"}
  BY <1>2, OthersWait DEF CrudInv
<1>4. CASE Renamed(c)
  <2> DEFINE k == [call[c] EXCEPT !.at = "saved"]
  <2>1. /\ k.at = "saved" /\ k.handle = call[c].handle /\ k.job = call[c].job
        /\ k.image = call[c].image
    BY DEF TypeOK, Closure
  <2>2. call' = [call EXCEPT ![c] = k]
    BY <1>4 DEF Renamed, TypeOK
  <2> HIDE DEF k
  <2>3. QueueInv'
    BY <1>2, <1>4, <2>1, <2>2, QueueStays DEF CrudInv, Renamed
  <2>4. \A d \in Call : /\ call'[d] = IF d = c THEN k ELSE call[d]
                        /\ d # c => call'[d].at \in {"idle", "queued"}
    BY <1>3, <2>2 DEF TypeOK
  <2>5. Memory' = Memory
    BY <1>4 DEF Renamed, Memory
  <2>6. ClosureInv'
    BY <1>1, <1>4, <2>1, <2>4, <2>5 DEF CrudInv, ClosureInv, Target, Renamed
  <2>7. MapInv'
    BY <1>4 DEF CrudInv, MapInv, Renamed
  <2>8. FileInv'
    BY <1>2, <1>4, <2>1, <2>4 DEF CrudInv, FileInv, FileIsMemory, Renamed
  <2> QED BY <2>3, <2>6, <2>7, <2>8 DEF CrudInv
<1>5. CASE SaveFails(c)
  <2>1. CASE call[c].job.kind = "update" /\ call[c].wasActive
    BY <1>2, <1>5, <2>1, TryConnectKeepsCrud DEF SaveFails, FailedSaveIsUndone
  <2>2. CASE ~(call[c].job.kind = "update" /\ call[c].wasActive)
    BY <1>2, <1>5, <2>2, FinishKeepsCrud DEF SaveFails, FailedSaveIsUndone, SameConfigs
  <2> QED BY <2>1, <2>2
<1>6. CASE Swap(c)
  <2>1. PICK h \in FreeHandles :
          /\ Replaced(c, h)
          /\ \/ /\ call' = [call EXCEPT ![c] = [@ EXCEPT !.at = "connecting", !.handle = h]]
                /\ UNCHANGED crudQueue
             \/ Finish(c)
    BY <1>6, Zenon DEF Swap
  <2>2. /\ h \in Handle /\ h # NoHandle /\ \A i \in Id : instances[i] # h
        /\ call[c].job.kind \in {"add", "update"} /\ call[c].job.config \in Config
        /\ UNCHANGED <<up, file>>
    BY <1>2, <1>6, <2>1, JobTypes, NameAssumption DEF FreeHandles, Swap
  <2>3. /\ instances' = [instances EXCEPT ![call[c].job.id] = h]
        /\ instances' \in [Id -> Handle \cup {NoHandle}]
    BY <1>2, <2>1, <2>2 DEF Replaced, TypeOK
  <2>4. inst'[h].config = call[c].job.config
    BY <2>1, <2>2 DEF Replaced, StartedWith, Unused
  <2>5. ASSUME NEW i \in Id \ {call[c].job.id}
        PROVE  /\ instances'[i] = instances[i]
               /\ instances[i] # NoHandle => inst'[instances[i]] = inst[instances[i]]
    <3>1. instances'[i] = instances[i]
      BY <1>2, <2>3 DEF TypeOK
    <3>2. ASSUME instances[i] # NoHandle PROVE inst'[instances[i]] = inst[instances[i]]
      <4>1. instances[i] \in Handle /\ instances[i] # h /\ instances[i] # call[c].handle
        BY <1>2, <2>2, <3>2 DEF CrudInv, MapInv, Target, TypeOK
      <4> QED BY <2>1, <4>1 DEF Replaced
    <3> QED BY <3>1, <3>2
  <2>6. MapInv'
    BY <1>2, <2>2, <2>3, <2>4, <2>5 DEF CrudInv, MapInv, TypeOK
  <2>7. Memory'[call[c].job.id] = call[c].job.config
    BY <1>2, <2>2, <2>3, <2>4 DEF Memory, TypeOK
  <2>8. Memory' = file'
    BY <1>1, <1>2, <1>6, <2>2, <2>3, <2>5, <2>7, SwapMeetsFile DEF Swap
  <2>9. CASE Finish(c)
    <3>1. QueueInv'
      BY <1>2, <2>2, <2>9, QueueAdvances DEF CrudInv
    <3>2. \A d \in Call : call'[d].at \in {"idle", "queued"}
      BY <1>3, <2>9 DEF Finish, TypeOK, Idle
    <3> QED BY <2>6, <2>8, <3>1, <3>2 DEF CrudInv, ClosureInv, FileInv, FileIsMemory
  <2>10. CASE call' = [call EXCEPT ![c] = [@ EXCEPT !.at = "connecting", !.handle = h]] /\ UNCHANGED crudQueue
    <3> DEFINE k == [call[c] EXCEPT !.at = "connecting", !.handle = h]
    <3>1. k.at = "connecting" /\ k.handle = h /\ k.job = call[c].job
      BY DEF TypeOK, Closure
    <3>2. call' = [call EXCEPT ![c] = k]
      BY <2>10
    <3> HIDE DEF k
    <3>3. QueueInv'
      BY <1>2, <2>2, <2>10, <3>1, <3>2, QueueStays DEF CrudInv
    <3>4. \A d \in Call : /\ call'[d] = IF d = c THEN k ELSE call[d]
                          /\ d # c => call'[d].at \in {"idle", "queued"}
      BY <1>3, <3>2 DEF TypeOK
    <3>5. Target(c)' = h
      BY <1>2, <2>3, <3>1, <3>4 DEF Target, TypeOK
    <3>6. ClosureInv'
      BY <2>2, <3>1, <3>4, <3>5 DEF ClosureInv
    <3>7. FileInv'
      BY <2>8, <3>1, <3>4 DEF FileInv, FileIsMemory
    <3> QED BY <2>6, <3>3, <3>6, <3>7 DEF CrudInv
  <2> QED BY <2>1, <2>9, <2>10
<1>7. CASE Drop(c)
  <2>1. /\ UNCHANGED <<up, file>> /\ Finish(c) /\ call[c].job.config = NoConfig
        /\ Target(c) \in Handle
        /\ instances' = [instances EXCEPT ![call[c].job.id] = NoHandle]
        /\ instances' \in [Id -> Handle \cup {NoHandle}]
    BY <1>2, <1>7, JobTypes DEF Drop, TypeOK
  <2>2. ASSUME NEW i \in Id \ {call[c].job.id}
        PROVE  /\ instances'[i] = instances[i]
               /\ instances[i] # NoHandle => inst'[instances[i]] = inst[instances[i]]
    <3>1. instances'[i] = instances[i]
      BY <1>2, <2>1 DEF TypeOK
    <3>2. ASSUME instances[i] # NoHandle PROVE inst'[instances[i]] = inst[instances[i]]
      <4>1. instances[i] \in Handle /\ instances[i] # call[c].handle
        BY <1>2, <3>2 DEF CrudInv, MapInv, Target, TypeOK
      <4> QED BY <1>7, <4>1 DEF Drop, TypeOK
    <3> QED BY <3>1, <3>2
  <2>3. MapInv'
    BY <1>2, <2>1, <2>2 DEF CrudInv, MapInv, TypeOK
  <2>4. Memory'[call[c].job.id] = call[c].job.config
    BY <1>2, <2>1 DEF Memory, TypeOK
  <2>5. Memory' = file'
    BY <1>1, <1>2, <1>7, <2>1, <2>2, <2>4, SwapMeetsFile DEF Drop
  <2>6. QueueInv'
    BY <1>2, <2>1, QueueAdvances DEF CrudInv
  <2>7. \A d \in Call : call'[d].at \in {"idle", "queued"}
    BY <1>3, <2>1 DEF Finish, TypeOK, Idle
  <2> QED BY <2>3, <2>5, <2>6, <2>7 DEF CrudInv, ClosureInv, FileInv, FileIsMemory
<1> QED BY <1>4, <1>5, <1>6, <1>7 DEF SaveSettles

\* An answer changes nothing else of any closure.
LEMMA AnsweredChangesAnswers ==
  ASSUME TypeOK, NEW op, NEW answer, Answered(op, answer)
  PROVE  \A c \in Call : /\ call'[c].at = call[c].at /\ call'[c].job = call[c].job
                         /\ call'[c].handle = call[c].handle /\ call'[c].image = call[c].image
                         /\ call'[c].wasActive = call[c].wasActive
                         /\ c # op.by => call'[c] = call[c]
BY DEF Answered, TypeOK, Closure

\* A step of a handle's operations changes that handle, and at most an answer.
LEMMA OperationSteps ==
  ASSUME TypeOK, NEW h \in Handle,
         OperationBegins(h) \/ OperationEnds(h) \/ ConnectionLost(h)
  PROVE  /\ inst[h] # Unused
         /\ UNCHANGED <<up, file, instances, crudQueue>>
         /\ \A g \in Handle : /\ inst'[g].config = inst[g].config
                              /\ g # h => inst'[g] = inst[g]
         /\ \/ UNCHANGED call
            \/ \E op \in Operation \cup {Nothing}, answer \in {"resolved", "rejected"} : Answered(op, answer)
<1> DEFINE rest == [inst[h] EXCEPT !.waiting = Tail(@)]
<1>0. inst[h] \in Instance /\ inst[h].running \in Operation \cup {Nothing}
  BY DEF TypeOK, Instance
<1>1. CASE OperationBegins(h)
  <2>1. inst[h].waiting # <<>> /\ Head(inst[h].waiting) \in Operation
    BY <1>0, <1>1, InstanceTypes DEF OperationBegins, ChainIsDue
  <2>2. \/ \E active \in BOOLEAN :
             /\ inst' = [inst EXCEPT ![h] = [rest EXCEPT !.running = Head(inst[h].waiting), !.active = active]]
             /\ UNCHANGED call
        \/ \E active \in BOOLEAN, answer \in {"resolved", "rejected"} :
             /\ inst' = [inst EXCEPT ![h] = [rest EXCEPT !.active = active]]
             /\ Answered(Head(inst[h].waiting), answer)
    BY <1>0, <1>1, <2>1 DEF OperationBegins, Operation, Instance
  <2>3. rest.config = inst[h].config /\ rest \in Instance
    BY <1>0, <2>1 DEF Instance
  <2> HIDE DEF rest
  <2>4. \A g \in Handle : inst'[g].config = inst[g].config /\ (g # h => inst'[g] = inst[g])
    <3>1. \E now : now.config = rest.config /\ inst' = [inst EXCEPT ![h] = now]
      <4>1. ASSUME NEW active \in BOOLEAN, inst' = [inst EXCEPT ![h] = [rest EXCEPT !.active = active]]
            PROVE  \E now : now.config = rest.config /\ inst' = [inst EXCEPT ![h] = now]
        <5>1. [rest EXCEPT !.active = active].config = rest.config
          BY <2>3 DEF Instance
        <5> QED
          BY <4>1, <5>1
      <4>2. ASSUME NEW active \in BOOLEAN, NEW op,
                   inst' = [inst EXCEPT ![h] = [rest EXCEPT !.running = op, !.active = active]]
            PROVE  \E now : now.config = rest.config /\ inst' = [inst EXCEPT ![h] = now]
        <5>1. [rest EXCEPT !.running = op, !.active = active].config = rest.config
          BY <2>3 DEF Instance
        <5> QED
          BY <4>2, <5>1
      <4> QED
        BY <2>2, <4>1, <4>2
    <3> QED
      BY <2>3, <3>1 DEF TypeOK
  <2>5. inst[h] # Unused
    BY <2>1 DEF Unused
  <2> QED BY <1>1, <2>1, <2>2, <2>4, <2>5 DEF OperationBegins
<1>2. CASE OperationEnds(h)
  <2>1. \E active \in BOOLEAN, answer \in {"resolved", "rejected"} :
          /\ inst' = [inst EXCEPT ![h] = [inst[h] EXCEPT !.running = Nothing, !.active = active]]
          /\ Answered(inst[h].running, answer)
    BY <1>0, <1>2 DEF OperationEnds, Instance
  <2>2. \A g \in Handle : inst'[g].config = inst[g].config /\ (g # h => inst'[g] = inst[g])
    BY <1>0, <2>1 DEF TypeOK, Instance
  <2>3. inst[h] # Unused
    BY <1>2 DEF OperationEnds, Unused, Nothing
  <2> QED BY <1>0, <1>2, <2>1, <2>2, <2>3 DEF OperationEnds
<1>3. CASE ConnectionLost(h)
  BY <1>0, <1>3 DEF ConnectionLost, Unused, TypeOK, Instance
<1> QED BY <1>1, <1>2, <1>3

\* Sign-ins and the operations of the handles keep the invariant.
LEMMA HandleKeepsCrud ==
  ASSUME TypeOK, CrudInv,
         \/ \E i \in Id : Authenticate(i) \/ CancelAuthentication(i)
         \/ \E h \in Handle : OperationBegins(h) \/ OperationEnds(h) \/ ConnectionLost(h)
  PROVE  CrudInv'
<1>1. CASE \E i \in Id : Authenticate(i) \/ CancelAuthentication(i)
  <2>1. PICK i \in Id : Authenticate(i) \/ CancelAuthentication(i)
    BY <1>1
  <2>2. up /\ UNCHANGED <<up, file, instances, crudQueue, call>>
    BY <2>1 DEF Authenticate, CancelAuthentication
  <2>3. \A h \in Handle : inst'[h].config = inst[h].config
    <3>1. CASE Authenticate(i)
      BY <3>1, SendKeepsConfigs DEF Authenticate, TypeOK
    <3>2. CASE CancelAuthentication(i)
      BY <3>2 DEF CancelAuthentication, TypeOK, Instance
    <3> QED BY <2>1, <3>1, <3>2
  <2> QED BY <2>2, <2>3, AnswerKeepsCrud DEF SameConfigs
<1>2. CASE \E h \in Handle : OperationBegins(h) \/ OperationEnds(h) \/ ConnectionLost(h)
  <2>1. PICK h \in Handle : OperationBegins(h) \/ OperationEnds(h) \/ ConnectionLost(h)
    BY <1>2
  <2>2. up
    <3>1. inst[h] # Unused
      BY <2>1, OperationSteps
    <3> QED BY <3>1 DEF CrudInv, QueueInv
  <2> QED BY <2>1, <2>2, OperationSteps, AnsweredChangesAnswers, AnswerKeepsCrud DEF SameConfigs
<1> QED BY <1>1, <1>2

\* The invariant holds before startAll.
LEMMA InitCrud == Init => CrudInv
<1> SUFFICES ASSUME Init PROVE CrudInv
  OBVIOUS
<1>1. ~up /\ crudQueue = <<>> /\ \A c \in Call : call[c].at = "idle"
  BY DEF Init, Idle
<1>2. Len(crudQueue) = 0
  BY <1>1
<1>3. QueueInv
  BY <1>1, <1>2 DEF Init, QueueInv
<1> QED BY <1>1, <1>3 DEF Init, CrudInv, ClosureInv, MapInv, FileInv, FileIsMemory

\* Every step keeps the invariant.
LEMMA NextCrud == TypeOK /\ CrudInv /\ [Next]_vars => CrudInv'
<1> SUFFICES ASSUME TypeOK, CrudInv, [Next]_vars PROVE CrudInv'
  OBVIOUS
<1>1. CASE StartAll \/ Crash
  BY <1>1, StartAllKeepsCrud, CrashKeepsCrud
<1>2. CASE Requests
  BY <1>2, RequestKeepsCrud, HandleKeepsCrud DEF Requests
<1>3. CASE \E c \in Call : Continue(c) \/ SaveSettles(c)
  BY <1>3, ContinueKeepsCrud, SaveSettlesKeepsCrud
<1>4. CASE \E h \in Handle : OperationBegins(h) \/ OperationEnds(h) \/ ConnectionLost(h)
  BY <1>4, HandleKeepsCrud
<1>5. CASE UNCHANGED vars
  <2>1. QueueInv'
    BY <1>5 DEF vars, CrudInv, QueueInv, Turn
  <2>2. Memory' = Memory
    BY <1>5 DEF vars, Memory
  <2>3. ClosureInv'
    BY <1>5, <2>2 DEF vars, CrudInv, ClosureInv, Target
  <2>4. MapInv'
    BY <1>5 DEF vars, CrudInv, MapInv
  <2>5. FileInv'
    BY <1>5, <2>2 DEF vars, CrudInv, FileInv, FileIsMemory
  <2> QED
    BY <2>1, <2>3, <2>4, <2>5 DEF CrudInv
<1> QED BY <1>1, <1>2, <1>3, <1>4, <1>5 DEF Next

-------------------------------------------------------------------------------
(* The theorems *)

\* The invariant of the CRUD queue, for every id, config, handle and call: one
\* call at a time is past its beginning, and what it saves changes its own entry.
THEOREM CrudInvariant == Spec => [](TypeOK /\ CrudInv)
<1>1. Init => TypeOK /\ CrudInv
  BY InitTypes, InitCrud
<1>2. TypeOK /\ CrudInv /\ [Next]_vars => (TypeOK /\ CrudInv)'
  BY NextTypes, NextCrud
<1> QED BY <1>1, <1>2, PTL DEF Spec

\* Every reachable state of the manager is well-typed.
THEOREM TypeCorrect == Spec => []TypeOK
BY CrudInvariant, PTL

\* The file and the live configs agree whenever no rename is waiting for its swap
\* (updateInstance: "the file/memory config always agree").
THEOREM FileAgrees == Spec => []FileIsMemory
<1>1. CrudInv => FileIsMemory
  BY DEF CrudInv, FileInv
<1> QED BY <1>1, CrudInvariant, PTL

\* A rename changes the entry its call is about, and nothing else of the file.
LEMMA RenamedChangesOneEntry ==
  ASSUME TypeOK, CrudInv, NEW c \in Call, Renamed(c)
  PROVE  \E i \in Id : \/ File!Remove(i)
                       \/ \E config \in Config : File!Add(i, config) \/ File!Update(i, config)
<1> DEFINE i == call[c].job.id
           config == call[c].job.config
<1>1. up /\ call[c].job \in Job /\ Turn(c)
  BY CallInQueue DEF Renamed, CrudInv, QueueInv
<1>2. /\ i \in Id /\ call[c].job.kind \in {"add", "remove", "update"}
      /\ call[c].job.kind = "add" <=> Target(c) = NoHandle
      /\ file' = [Memory EXCEPT ![i] = config]
  BY <1>1, JobTypes DEF Renamed, CrudInv, ClosureInv
<1>3. file = Memory
  BY <1>1, OthersWait DEF Renamed, CrudInv, FileInv, FileIsMemory
<1>4. CASE call[c].job.kind = "add"
  <2>1. file[i] = NoConfig
    BY <1>2, <1>3, <1>4 DEF Memory, Target
  <2>2. config \in Config
    BY <1>1, <1>4, JobTypes
  <2> QED BY <1>2, <1>3, <2>1, <2>2 DEF File!Add
<1>5. CASE call[c].job.kind = "update"
  <2>1. file[i] \in Config
    BY <1>2, <1>3, <1>5 DEF Memory, Target, CrudInv, MapInv
  <2>2. config \in Config
    BY <1>1, <1>5, JobTypes
  <2> QED BY <1>2, <1>3, <2>1, <2>2, ConfigAssumption DEF File!Update
<1>6. CASE call[c].job.kind = "remove"
  <2>1. config = NoConfig
    BY <1>1, <1>6, JobTypes
  <2> QED BY <1>2, <1>3, <2>1 DEF File!Remove
<1> QED BY <1>2, <1>4, <1>5, <1>6

\* bots.config.json is the abstract Registry: whatever the interleaving of calls,
\* crashes and failed saves, it changes one entry at a time, and an add never
\* overwrites an entry.
THEOREM RegistryImplemented == Spec => ImplementsRegistry
<1>1. Init => File!Init
  BY DEF Init, File!Init, ConfigOrNone
<1>2. ASSUME TypeOK, CrudInv, [Next]_vars
      PROVE  [File!Next]_file
  <2>1. CASE \E c \in Call : Renamed(c)
    BY <1>2, <2>1, RenamedChangesOneEntry DEF File!Next
  <2>2. CASE ~\E c \in Call : Renamed(c)
    <3>1. CASE StartAll \/ Crash \/ Requests \/ UNCHANGED vars
      BY <3>1 DEF StartAll, Crash, Requests, Request, Authenticate, CancelAuthentication, vars
    <3>2. CASE \E c \in Call : Continue(c)
      BY <3>2 DEF Continue, CallRefused, CallDisconnect, CallConnect, CallSaves, CallReturns
    <3>3. CASE \E c \in Call : SaveSettles(c)
      BY <2>2, <3>3 DEF SaveSettles, SaveFails, Swap, Drop
    <3>4. CASE \E h \in Handle : OperationBegins(h) \/ OperationEnds(h) \/ ConnectionLost(h)
      BY <1>2, <3>4, OperationSteps
    <3> QED BY <1>2, <3>1, <3>2, <3>3, <3>4 DEF Next
  <2> QED BY <2>1, <2>2
<1> QED BY <1>1, <1>2, CrudInvariant, PTL DEF Spec, ImplementsRegistry, File!Spec

\* updateInstance's rollback: when the save fails, a bot that was taken off line
\* for the edit is connected again, unless connect() refuses at once.
THEOREM RollbackKept == Spec => RollbackReconnects
<1>1. ASSUME TypeOK, CrudInv, [Next]_vars, NEW c \in Call,
             call[c].at = "saving", call[c].job.kind = "update", call[c].wasActive,
             call'[c].at = "idle", up'
      PROVE  Refuses(call[c].handle)
  <2>1. CASE StartAll \/ Crash \/ Requests \/ UNCHANGED vars
    BY <1>1, <2>1 DEF StartAll, Crash, Requests, Request, Authenticate, CancelAuthentication, vars, TypeOK
  <2>2. ASSUME NEW d \in Call, Continue(d)
        PROVE  FALSE
    <3>1. Turn(c)
      BY <1>1 DEF CrudInv, QueueInv
    <3>2. Begins(d) \/ call[d].at \in {"disconnecting", "connecting"}
      BY <2>2 DEF Continue, CallRefused, CallDisconnect, CallConnect, CallSaves, CallReturns, Stopped
    <3>3. Turn(d) /\ call[d].at # "saving"
      BY <1>1, <3>2 DEF Begins, CrudInv, QueueInv
    <3> QED BY <1>1, <3>1, <3>3 DEF Turn
  <2>3. ASSUME NEW d \in Call, SaveSettles(d)
        PROVE  Refuses(call[c].handle)
    <3>1. d = c
      <4>1. call[d].at \in {"saving", "saved"}
        BY <2>3 DEF SaveSettles, Renamed, SaveFails, Swap, Drop
      <4> QED BY <1>1, <4>1, OthersWait DEF CrudInv, QueueInv
    <3>2. CASE Renamed(c)
      BY <1>1, <3>2 DEF Renamed, TypeOK, Closure
    <3>3. CASE SaveFails(c)
      <4>1. TryConnect(c, call[c].handle)
        BY <1>1, <3>3 DEF SaveFails, FailedSaveIsUndone
      <4>2. CASE ~Refuses(call[c].handle)
        <5> DEFINE k == [call[c] EXCEPT !.at = "connecting", !.handle = call[c].handle,
                                        !.answer = "none"]
        <5>1. k.at = "connecting"
          BY <1>1 DEF TypeOK, Closure
        <5>2. call' = [call EXCEPT ![c] = k]
          BY <4>1, <4>2 DEF TryConnect
        <5> HIDE DEF k
        <5>3. call'[c] = k
          BY <1>1, <5>2 DEF TypeOK
        <5> QED BY <1>1, <5>1, <5>3
      <4> QED BY <4>2
    <3> QED BY <1>1, <2>3, <3>1, <3>2, <3>3 DEF SaveSettles, Swap, Drop
  <2>4. ASSUME NEW h \in Handle, OperationBegins(h) \/ OperationEnds(h) \/ ConnectionLost(h)
        PROVE  FALSE
    <3>1. call'[c].at = call[c].at
      BY <1>1, <2>4, OperationSteps, AnsweredChangesAnswers
    <3> QED BY <1>1, <3>1
  <2> QED BY <1>1, <2>1, <2>2, <2>3, <2>4 DEF Next
<1>2. ASSUME TypeOK, CrudInv, [Next]_vars
      PROVE  [\A c \in Call :
                call[c].at = "saving" /\ call[c].job.kind = "update" /\ call[c].wasActive
                  /\ call'[c].at = "idle" /\ up'
                => Refuses(call[c].handle)]_vars
  BY <1>1, <1>2
<1> QED BY <1>2, CrudInvariant, PTL DEF Spec, RollbackReconnects

===============================================================================
