------------------------------ MODULE BotManager ------------------------------
(***************************************************************************)
(* The registry of bot instances: core/bot-manager.ts, over the config     *)
(* file (config/instances.ts, core/json-file-store.ts) and the instance    *)
(* handles, which behave as InstanceQueue.                                 *)
(*                                                                         *)
(* add, remove, update, connect, disconnect and restart are queued on the  *)
(* CRUD queue; startAll, the sign-ins and what happens to a connection are *)
(* not.  An action is one turn of the event loop; `Settled' lets promise   *)
(* continuations run before the next request, timer or I/O result.         *)
(***************************************************************************)
EXTENDS Naturals, Sequences

CONSTANTS
  Id, NoId, Config, NoConfig,
  AutoConnect,   \* configs with autoConnect
  Hosted,        \* configs with a host: the others never connect
  Microsoft,     \* configs whose account signs in
  Handle,        \* handle objects; a name is reused once nothing is left of it
  NoHandle,
  Call,          \* overlapping requests, likewise
  NoCall,        \* the caller of a boot connect and of a sign-in
  MaxWaiting     \* bound: operations waiting on a handle's chain

ASSUME ConfigAssumption == /\ NoConfig \notin Config
                           /\ AutoConnect \subseteq Config /\ Hosted \subseteq Config
                           /\ Microsoft \subseteq Config
ASSUME NameAssumption   == NoId \notin Id /\ NoHandle \notin Handle /\ NoCall \notin Call
ASSUME BoundAssumption  == MaxWaiting \in Nat \ {0}

VARIABLES
  up,            \* has this process run startAll?
  file,          \* bots.config.json
  instances,     \* the manager's map
  inst,          \* the handles
  crudQueue,     \* calls not settled yet, the running one first
  call           \* their closures

vars == <<up, file, instances, inst, crudQueue, call>>

ConfigOrNone == Config \cup {NoConfig}

Job == [kind : {"add", "update"}, id : Id, config : Config]
       \cup [kind : {"remove", "connect", "disconnect", "restart"}, id : Id, config : {NoConfig}]

Operation == [kind : {"connect", "disconnect"}, by : Call \cup {NoCall}]
             \cup [kind : {"sign_in", "stale"}, by : {NoCall}]

Op(kind, c) == [kind |-> kind, by |-> c]
Nothing     == [kind |-> "none", by |-> NoCall]
NoJob       == [kind |-> "none"]

Unused == [id |-> NoId, config |-> NoConfig, active |-> FALSE,
           running |-> Nothing, waiting |-> <<>>]

\* Between two requests: what a call's closure holds.
Idle == [job |-> NoJob, at |-> "idle", handle |-> NoHandle, wasActive |-> FALSE,
         image |-> [i \in Id |-> NoConfig], answer |-> "none"]

\* The waits of a call: on the handle ("disconnecting", "connecting"), for the
\* rename ("saving"), for the turn after it ("saved").
Phase == {"idle", "queued", "disconnecting", "saving", "saved", "connecting"}

Instance == [id : Id \cup {NoId}, config : ConfigOrNone, active : BOOLEAN,
             running : Operation \cup {Nothing}, waiting : Seq(Operation)]

Closure  == [job : Job \cup {NoJob}, at : Phase, handle : Handle \cup {NoHandle},
             wasActive : BOOLEAN, image : [Id -> ConfigOrNone],
             answer : {"none", "resolved", "rejected"}]

TypeOK ==
  /\ up \in BOOLEAN
  /\ file \in [Id -> ConfigOrNone]
  /\ instances \in [Id -> Handle \cup {NoHandle}]
  /\ inst \in [Handle -> Instance]
  /\ crudQueue \in Seq(Call)
  /\ call \in [Call -> Closure]

Init ==
  /\ up = FALSE
  /\ file \in [Id -> ConfigOrNone]
  /\ instances = [i \in Id |-> NoHandle]
  /\ inst = [h \in Handle |-> Unused]
  /\ crudQueue = <<>>
  /\ call = [c \in Call |-> Idle]

-------------------------------------------------------------------------------
(* The event loop *)

\* Promise continuations that are due: a handle's next operation, a call whose
\* awaited operation has settled, the head of the CRUD queue.
ChainIsDue(h) == inst[h].running = Nothing /\ inst[h].waiting # <<>>

CallIsDue(c) == call[c].answer # "none" \/ (crudQueue # <<>> /\ Head(crudQueue) = c
                                             /\ call[c].at = "queued")

Settled == (\A h \in Handle : ~ChainIsDue(h)) /\ (\A c \in Call : ~CallIsDue(c))

\* Faulty variant: calls are not serialized.
NoTurn(c) == call[c].at # "idle"

\* Faulty variant: connectInstance does not wait for its turn.
TurnUnlessConnect(c) == call[c].job.kind = "connect" \/ (crudQueue # <<>> /\ Head(crudQueue) = c)

\* enqueueCrud: a call runs once those before it have settled.
Turn(c) == crudQueue # <<>> /\ Head(crudQueue) = c

-------------------------------------------------------------------------------
(* The handles, seen from outside *)

OperationsOf(h) == {inst[h].running} \cup {inst[h].waiting[k] : k \in 1..Len(inst[h].waiting)}

Authenticating(h) == \E op \in OperationsOf(h) : op.kind = "sign_in"

\* Faulty variant: the sign-in is not looked at.
RefusesUnhosted(h) == inst[h].config \notin Hosted

\* connect() rejects at once without a host or during a sign-in.
Refuses(h) == inst[h].config \notin Hosted \/ Authenticating(h)

Send(h, op) == inst' = [inst EXCEPT ![h].waiting = Append(@, op)]

AtRest(h) == ~inst[h].active /\ inst[h].running = Nothing /\ inst[h].waiting = <<>>

\* A handle that left the map lives on while an operation of it is under way.
FreeHandles  == {h \in Handle : AtRest(h) /\ \A i \in Id : instances[i] # h}
Forgotten(h) == IF AtRest(h) THEN Unused ELSE [inst[h] EXCEPT !.config = NoConfig]

\* currentConfigs(): what the live handles were made from.
Memory == [i \in Id |-> IF instances[i] = NoHandle THEN NoConfig ELSE inst[instances[i]].config]

-------------------------------------------------------------------------------
(* startAll and the end of the process *)

StartedWith(i, config, connects, c) ==
  [Unused EXCEPT !.id = i, !.config = config,
                 !.waiting = IF connects /\ config \in Hosted THEN <<Op("connect", c)>> ELSE <<>>]

\* Every configured instance gets a handle; those with autoConnect connect,
\* outside the CRUD queue and without being waited for.
StartAll ==
  /\ ~up
  /\ up' = TRUE
  /\ instances' \in [Id -> Handle \cup {NoHandle}]
  /\ \A i, j \in Id : instances'[i] = instances'[j] /\ instances'[i] # NoHandle => i = j
  /\ \A i \in Id : instances'[i] = NoHandle <=> file[i] = NoConfig
  /\ inst' = [h \in Handle |->
       IF \E i \in Id : instances'[i] = h
       THEN LET i == CHOOSE i \in Id : instances'[i] = h
            IN StartedWith(i, file[i], file[i] \in AutoConnect, NoCall)
       ELSE Unused]
  /\ UNCHANGED <<file, crudQueue, call>>

\* The process dies between any two turns; the file is all that is left.
Crash ==
  /\ up
  /\ up' = FALSE
  /\ instances' = [i \in Id |-> NoHandle]
  /\ inst' = [h \in Handle |-> Unused]
  /\ crudQueue' = <<>>
  /\ call' = [c \in Call |-> Idle]
  /\ UNCHANGED file

-------------------------------------------------------------------------------
(* The queued calls *)

Request(c, job) ==
  /\ up /\ Settled
  /\ call[c].at = "idle"
  /\ call' = [call EXCEPT ![c] = [Idle EXCEPT !.job = job, !.at = "queued"]]
  /\ crudQueue' = Append(crudQueue, c)
  /\ UNCHANGED <<up, file, instances, inst>>

\* The result settles, whichever way, and the next call may run.
Finish(c) ==
  /\ call' = [call EXCEPT ![c] = Idle]
  /\ crudQueue' = Tail(crudQueue)

Begins(c) == Turn(c) /\ call[c].at = "queued"

Target(c) == instances[call[c].job.id]

\* The conflict of an add, the not-found of the others.
CallRefused(c) ==
  /\ Begins(c)
  /\ (call[c].job.kind = "add") <=> (Target(c) # NoHandle)
  /\ Finish(c)
  /\ UNCHANGED <<up, file, instances, inst>>

\* Faulty variant: update goes on without disconnecting.
StopsFirstButUpdate(c) ==
  \/ call[c].job.kind = "disconnect"
  \/ call[c].job.kind \in {"remove", "restart"} /\ inst[Target(c)].active

StopsFirst(c) ==
  \/ call[c].job.kind = "disconnect"
  \/ call[c].job.kind \in {"remove", "update", "restart"} /\ inst[Target(c)].active

CallDisconnect(c) ==
  /\ Begins(c) /\ call[c].job.kind # "add" /\ Target(c) # NoHandle
  /\ StopsFirst(c)
  /\ Send(Target(c), Op("disconnect", c))
  /\ call' = [call EXCEPT ![c] = [@ EXCEPT !.at = "disconnecting", !.handle = Target(c),
                                           !.wasActive = call[c].job.kind = "update"]]
  /\ UNCHANGED <<up, file, instances, crudQueue>>

\* Faulty variant: connectInstance instead, which waits behind the call itself.
ConnectThroughQueue(c, h) ==
  /\ call' = [call EXCEPT ![c] = [@ EXCEPT !.at = "connecting", !.handle = h, !.answer = "none"]]
  /\ UNCHANGED <<inst, crudQueue>>

\* handle.connect(), awaited; a rejection ends the call whether it is swallowed
\* (add, update, rollback) or passed on (connect, restart).
TryConnect(c, h) ==
  IF Refuses(h)
  THEN Finish(c) /\ UNCHANGED inst
  ELSE /\ Send(h, Op("connect", c))
       /\ call' = [call EXCEPT ![c] = [@ EXCEPT !.at = "connecting", !.handle = h,
                                                !.answer = "none"]]
       /\ UNCHANGED crudQueue

Stopped(c) == call[c].at = "disconnecting" /\ call[c].answer = "resolved"

CallConnect(c) ==
  /\ \/ /\ Begins(c) /\ Target(c) # NoHandle
        /\ \/ call[c].job.kind = "connect"
           \/ call[c].job.kind = "restart" /\ ~inst[Target(c)].active
        /\ TryConnect(c, Target(c))
     \/ /\ Stopped(c) /\ call[c].job.kind = "restart"
        /\ TryConnect(c, call[c].handle)
  /\ UNCHANGED <<up, file, instances>>

\* What is to be saved is read before the first await of the save.
CallSaves(c) ==
  /\ \/ Begins(c) /\ call[c].job.kind = "add" /\ Target(c) = NoHandle
     \/ Begins(c) /\ call[c].job.kind \in {"remove", "update"} /\ Target(c) # NoHandle
        /\ ~StopsFirst(c)
     \/ Stopped(c) /\ call[c].job.kind \in {"remove", "update"}
  /\ call' = [call EXCEPT ![c] = [@ EXCEPT
       !.at = "saving", !.handle = Target(c), !.answer = "none",
       !.image = [Memory EXCEPT ![call[c].job.id] = call[c].job.config]]]
  /\ UNCHANGED <<up, file, instances, inst, crudQueue>>

\* The rename is atomic; the promise resolves in a later turn.
Renamed(c) ==
  /\ Settled
  /\ call[c].at = "saving"
  /\ file' = call[c].image
  /\ call' = [call EXCEPT ![c].at = "saved"]
  /\ UNCHANGED <<up, instances, inst, crudQueue>>

\* Faulty variant: the failed update is not rolled back.
FailedSaveIsReported(c) == Finish(c) /\ UNCHANGED inst

\* The rollback of an update puts the old handle back on line.
FailedSaveIsUndone(c) ==
  IF call[c].job.kind = "update" /\ call[c].wasActive
  THEN TryConnect(c, call[c].handle)
  ELSE Finish(c) /\ UNCHANGED inst

SaveFails(c) ==
  /\ Settled
  /\ call[c].at = "saving"
  /\ FailedSaveIsUndone(c)
  /\ UNCHANGED <<up, file, instances>>

\* The map is changed only now, and the new handle connected if it is due.
Connects(c) == IF call[c].job.kind = "add" THEN call[c].job.config \in AutoConnect
               ELSE call[c].wasActive

Replaced(c, h) ==
  /\ instances' = [instances EXCEPT ![call[c].job.id] = h]
  /\ LET new == StartedWith(call[c].job.id, call[c].job.config, Connects(c), c)
     IN inst' = [g \in Handle |-> IF g = h THEN new
                                  ELSE IF g = call[c].handle THEN Forgotten(g) ELSE inst[g]]

Swap(c) ==
  /\ Settled
  /\ call[c].at = "saved" /\ call[c].job.kind \in {"add", "update"}
  /\ \E h \in FreeHandles :
       /\ Replaced(c, h)
       /\ IF inst'[h].waiting # <<>>
          THEN /\ call' = [call EXCEPT ![c] = [@ EXCEPT !.at = "connecting", !.handle = h]]
               /\ UNCHANGED crudQueue
          ELSE Finish(c)
  /\ UNCHANGED <<up, file>>

Drop(c) ==
  /\ Settled
  /\ call[c].at = "saved" /\ call[c].job.kind = "remove"
  /\ instances' = [instances EXCEPT ![call[c].job.id] = NoHandle]
  /\ inst' = [inst EXCEPT ![call[c].handle] = Forgotten(call[c].handle)]
  /\ Finish(c)
  /\ UNCHANGED <<up, file>>

\* The last awaited operation has settled, or an earlier one has rejected.
CallReturns(c) ==
  /\ call[c].answer # "none"
  /\ \/ call[c].at = "connecting"
     \/ call[c].at = "disconnecting" /\ (call[c].answer = "rejected" \/ call[c].job.kind = "disconnect")
  /\ Finish(c)
  /\ UNCHANGED <<up, file, instances, inst>>

-------------------------------------------------------------------------------
(* The sign-ins, which bypass the CRUD queue *)

Authenticate(i) ==
  /\ up /\ Settled
  /\ instances[i] # NoHandle
  /\ LET h == instances[i] IN
       /\ inst[h].config \in Microsoft /\ ~inst[h].active /\ ~Authenticating(h)
       /\ Len(inst[h].waiting) < MaxWaiting
       /\ Send(h, Op("sign_in", NoCall))
  /\ UNCHANGED <<up, file, instances, crudQueue, call>>

\* Faulty variant: a cancelled sign-in is taken to be over.
CancelledVanishes(op) == IF op.kind = "sign_in" THEN Nothing ELSE op

Cancelled(op) == IF op.kind = "sign_in" THEN Op("stale", NoCall) ELSE op

CancelAuthentication(i) ==
  /\ up /\ Settled
  /\ instances[i] # NoHandle
  /\ LET h == instances[i] IN
       /\ Authenticating(h)
       /\ inst' = [inst EXCEPT
            ![h].running = Cancelled(@),
            ![h].waiting = [k \in 1..Len(@) |-> Cancelled(@[k])]]
  /\ UNCHANGED <<up, file, instances, crudQueue, call>>

-------------------------------------------------------------------------------
(* The operations of a handle, as in InstanceQueue, with the answers they give *)

Answered(op, answer) ==
  call' = IF op.by = NoCall THEN call ELSE [call EXCEPT ![op.by].answer = answer]

\* The head of the chain begins: it is awaited, or settles at once.
OperationBegins(h) ==
  /\ ChainIsDue(h)
  /\ LET op   == Head(inst[h].waiting)
         rest == [inst[h] EXCEPT !.waiting = Tail(@)]
         Waits(active)          == /\ inst' = [inst EXCEPT ![h] = [rest EXCEPT !.running = op, !.active = active]]
                                   /\ UNCHANGED call
         Settles(active, answer) == /\ inst' = [inst EXCEPT ![h] = [rest EXCEPT !.active = active]]
                                    /\ Answered(op, answer)
     IN CASE op.kind = "connect" ->
               IF inst[h].active \/ Authenticating(h)
               THEN Settles(inst[h].active, "rejected") ELSE Waits(TRUE)
          [] op.kind = "disconnect" ->
               IF ~inst[h].active THEN Settles(FALSE, "rejected")
               ELSE Waits(TRUE) \/ Settles(FALSE, "resolved")
          [] op.kind = "sign_in" -> Waits(inst[h].active)
          [] op.kind = "stale"   -> Settles(inst[h].active, "resolved")
  /\ UNCHANGED <<up, file, instances, crudQueue>>

OperationEnds(h) ==
  /\ Settled
  /\ LET op == inst[h].running
         Ends(active, answer) ==
           /\ inst' = [inst EXCEPT ![h] = [@ EXCEPT !.running = Nothing, !.active = active]]
           /\ Answered(op, answer)
     IN \/ op.kind = "connect" /\ (Ends(inst[h].active, "resolved") \/ Ends(FALSE, "rejected"))
        \/ op.kind = "disconnect" /\ Ends(FALSE, "resolved")
        \/ op.kind \in {"sign_in", "stale"} /\ Ends(inst[h].active, "resolved")
  /\ UNCHANGED <<up, file, instances, crudQueue>>

\* A fatal error, or the 'end' a disconnect in progress asked for.
ConnectionLost(h) ==
  /\ Settled
  /\ inst[h].active /\ inst[h].running.kind # "connect"
  /\ inst' = [inst EXCEPT ![h].active = FALSE]
  /\ UNCHANGED <<up, file, instances, crudQueue, call>>

-------------------------------------------------------------------------------

Requests == \/ \E c \in Call, job \in Job : Request(c, job)
            \/ \E i \in Id : Authenticate(i) \/ CancelAuthentication(i)

Continue(c) == CallRefused(c) \/ CallDisconnect(c) \/ CallConnect(c) \/ CallSaves(c) \/ CallReturns(c)

SaveSettles(c) == Renamed(c) \/ SaveFails(c) \/ Swap(c) \/ Drop(c)

Next ==
  \/ StartAll \/ Crash \/ Requests
  \/ \E c \in Call : Continue(c) \/ SaveSettles(c)
  \/ \E h \in Handle : OperationBegins(h) \/ OperationEnds(h) \/ ConnectionLost(h)

Spec == Init /\ [][Next]_vars

\* Continuations run; file operations and the operations of a handle settle
\* (DISCONNECT_TIMEOUT_MS, the life of a device code).  Strong where Settled is
\* false again and again while continuations run ahead.
Fairness ==
  /\ WF_vars(StartAll)
  /\ \A c \in Call : WF_vars(Continue(c)) /\ SF_vars(SaveSettles(c))
  /\ \A h \in Handle : WF_vars(OperationBegins(h)) /\ SF_vars(OperationEnds(h))

FairSpec == Spec /\ Fairness

-------------------------------------------------------------------------------
(* Properties *)

\* docs/multi-instance.md:113: the file and the configs the handles were made
\* from agree, except between the rename and the turn that swaps the handle.
FileIsMemory == up /\ (\A c \in Call : call[c].at # "saved") => file = Memory

\* The file changes one entry at a time, crashes and failed saves included: two
\* overlapping calls never undo each other's change (Registry).
File == INSTANCE Registry WITH registry <- file

ImplementsRegistry == File!Spec

\* No instance runs that the manager does not know: from the save on, nothing
\* connects a handle that is being removed or replaced, nor afterwards.
Tracked(h) == \E i \in Id : instances[i] = h

Connecting(h) == inst[h].active \/ \E op \in OperationsOf(h) : op.kind = "connect"

UntrackedIsAtRest == \A h \in Handle : Connecting(h) => Tracked(h)

\* docs/multi-instance.md:116, "an edit never silently starts or stops a bot":
\* the handle an edit or a removal is about stays down until the map is changed,
\* so no connect is lost with it.
LeavingIsAtRest ==
  \A c \in Call : call[c].at \in {"saving", "saved"} /\ call[c].job.kind # "add"
                    => ~Connecting(call[c].handle)

\* A call that waits on a handle waits on its own operation there; otherwise it
\* would never return, or return on another call's answer.
WaitsForItsOwn ==
  \A c \in Call :
    call[c].at \in {"connecting", "disconnecting"} /\ call[c].answer = "none"
      => \E op \in OperationsOf(call[c].handle) : op.by = c

\* A failed save of an edit does not take the bot down: it is connected again,
\* unless it cannot be.
RollbackReconnects ==
  [][\A c \in Call :
       call[c].at = "saving" /\ call[c].job.kind = "update" /\ call[c].wasActive
         /\ call'[c].at = "idle" /\ up'
       => Refuses(call[c].handle)]_vars

\* InstanceQueue sees the operations of a chain, not who waits for them.
KindsOf(ops) == [k \in 1..Len(ops) |-> ops[k].kind]

H(h) == INSTANCE InstanceQueue
  WITH active  <- inst[h].active,
       running <- inst[h].running.kind,
       waiting <- KindsOf(inst[h].waiting)

\* The handles are used as InstanceQueue allows, but for the end of the process
\* (bot-manager.ts:80-246).
HandlesBehave == [][Crash \/ \A h \in Handle : [H(h)!Next]_(H(h)!vars)]_vars

\* Every call returns: the two layers of queues never wait for each other.
CallsReturn == \A c \in Call : call[c].at # "idle" ~> call[c].at = "idle"

-------------------------------------------------------------------------------
(* The inductive invariants these rest on *)

\* The queue holds the calls that are not settled, each once; all but the first
\* are yet to begin.  Before startAll there is nothing.
QueueInv ==
  /\ \A k, l \in 1..Len(crudQueue) : crudQueue[k] = crudQueue[l] => k = l
  /\ \A c \in Call : call[c].at # "idle" <=> \E k \in 1..Len(crudQueue) : crudQueue[k] = c
  /\ \A c \in Call : call[c].at \notin {"idle", "queued"} => Turn(c)
  /\ \A c \in Call : call[c].at # "idle" => call[c].job \in Job
  /\ ~up => crudQueue = <<>> /\ (\A i \in Id : instances[i] = NoHandle)
                            /\ (\A h \in Handle : inst[h] = Unused)

\* A call that has begun holds the handle of its id, and what it is saving
\* changes its own entry only.
ClosureInv ==
  \A c \in Call :
    /\ call[c].at \in {"disconnecting", "connecting"}
         => call[c].handle = Target(c) /\ Target(c) # NoHandle
    /\ call[c].at \in {"saving", "saved"}
         => /\ call[c].handle = Target(c)
            /\ call[c].job.kind \in {"add", "remove", "update"}
            /\ call[c].job.kind = "add" <=> Target(c) = NoHandle
            /\ call[c].image = [Memory EXCEPT ![call[c].job.id] = call[c].job.config]
    /\ call[c].at = "disconnecting" => call[c].job.kind # "add"

\* No handle serves two ids, and a handle in the map has its config.
MapInv ==
  /\ \A i, j \in Id : instances[i] = instances[j] /\ instances[i] # NoHandle => i = j
  /\ \A i \in Id : instances[i] # NoHandle => inst[instances[i]].config \in Config

FileInv ==
  /\ FileIsMemory
  /\ \A c \in Call : call[c].at = "saved" => file = call[c].image

CrudInv == QueueInv /\ ClosureInv /\ MapInv /\ FileInv

-------------------------------------------------------------------------------
(* What the docs say and the code does not do *)

\* docs/multi-instance.md:107: sign-ins bypass the queue, so that no call on a
\* different instance waits out a sign-in.
Awaits(c, h) == call[c].at \in {"connecting", "disconnecting"} /\ call[c].handle = h

NobodyWaitsOutAnothersSignIn ==
  \A k \in 2..Len(crudQueue), h \in Handle :
    Awaits(Head(crudQueue), h) /\ inst[h].running.kind \in {"sign_in", "stale"}
      => call[crudQueue[k]].job.id = call[Head(crudQueue)].job.id

\* docs/multi-instance.md:149: connecting and signing in are "structurally unable
\* to run concurrently on the same instance", editing it in between included.
SignInExcludesConnection ==
  \A g, h \in Handle :
    Authenticating(g) /\ inst[h].active => inst[g].id # inst[h].id

===============================================================================
