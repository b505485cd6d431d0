# TippyBot in TLA+

TippyBot runs Minecraft bots in one Node.js process: each *bot instance* keeps
a connection to a server alive and obeys chat commands; a *bot manager* adds,
removes and reconfigures instances; a web panel signs Microsoft accounts in,
connects and disconnects bots and streams their logs.  This directory holds
the models, the model-checking runs and the proofs kept beside that code.

Paths below are relative to the repository root (`src/core/bot.ts` is listed
in `PROJECT.json` as `src/src/core/bot.ts`).

## 1. Inventory

JavaScript runs one turn at a time, so nothing is preempted; what interleaves
is the code *between two awaits*, the event listeners and the timers.  All of
the hard behaviour of this system comes from there.

| Component | State | Operations | Talks to | Hard behaviour | Correct when |
|---|---|---|---|---|---|
| Bot instance (`core/bot.ts`) | status, stopRequested, currentBot, ctx, reconnect timer and counter, sign-in status / token / device code, operation queue | connect, disconnect, authenticate, cancelAuthentication; listeners login, error, death, end, chat; reconnect timer | mineflayer's bots, prismarine-auth, the modules, the manager | operations queue while events of several sockets, timers and cancelAuthentication do not; disconnect gives up on a socket after a timeout | one connection at most; at rest means at rest; the status is true; stale results change nothing |
| Handle contract (`interfaces/bot-instance.ts`) | status | -- | manager, web panel | -- | the status never contradicts the activity |
| Task slot (`core/task-manager.ts`) | the active task: id, abort signal, timeout | start, cancel, abort, finish, end | all long-running commands, bot.ts | five ways for a task to end race | always freed, once; never busy for nothing |
| Pathfinder lock (`core/pathfinder-lock.ts`) | owner id | acquire, release | the same commands | release is by module, not by execution | never outlives its task |
| Long-running commands (`modules/navigation`, `gathering`, `chests`, `sign-trapdoor`) | closures awaiting a walk, a pause, a tool, a dig, a chest; navigation's activeNav | !come !goto !follow !unfollow !collect !mine !deposit !withdraw !s | task slot, lock, pathfinder | an ended task leaves a closure that still runs; goal_reached wakes whoever waits | one command at work; one driver |
| Status commands (`modules/bot-status`) | -- | !status !cancel !stop | task slot | -- | -- |
| Bot manager (`core/bot-manager.ts`) | instances, log stores, CRUD queue | startAll, add, remove, update, connect, disconnect, restart, authenticate, cancelAuthentication | handles, config file | two layers of queues; status read before an await; save failing between disconnect and swap | file and memory agree; no instance runs untracked |
| Config file (`config/instances.ts`, `core/json-file-store.ts`) | JSON on disk | load, atomic save | manager | crash between write and rename | old or new content, never a mixture |
| Env file lock (`config/envFile.ts`, `web/setup/ensureWebPassword.ts`) | lock and recovery files, the env file | acquire, recover stale, write, release | other processes | a file is made by one call and signed by the next; who removes the lock of a dead process; a crash anywhere | one password for everyone; nobody waits for ever |
| Permissions (`core/permission-service.ts`, `modules/access`) | operators, members, blacklist, groups, their file | !access grant / revoke / blacklist / group ... | chat commands | saves overlap and fail; memory changes before the save; services are rebuilt from the file | no rank nobody gave; memory and file agree at rest |
| Cooldowns (`core/cooldown-service.ts`) | expiry times | getRemainingMs, recordUse, sweep | dispatch | boundaries; the sweep forgets | uses are a cooldown apart |
| Homes (`core/home-service.ts`) | named positions, their file | !sethome, !home | chat commands | as permissions | as permissions |
| Command dispatch (`core/commands.ts`) | registry | handleChatMessage | everything above | order of the gates | a refused command records no use |
| Log store (`core/log-store.ts`) | plain and compressed days, active day, job queue, timer | append, rotate, compress, read pages, subscribe, close | loggers, web | crash or failure inside a compression; clock stepping back; late timer; cursors over a rotation | nothing lost or changed; a closed day read once; pages stable |
| Web login (`web/auth/*`, `web/routes/auth.ts`) | failures per address, sessions | login, logout, requireAuth, cleanup | browsers | the limit is checked, a body awaited, the limit checked again | bounded guesses |
| Event streams (`web/routes/logs.ts`, `dashboard.ts`) | socket readiness, pending data per reader | enqueue, update, drain, expire, heartbeat | log store, manager, pages | slow readers, sessions that end, lost connections | bounded memory; a page catches up |
| Pages (`web/public/app.js`: dashboard, logs) | what is shown, generation, EventSource, cursor | select, load older, reconnect, merge, trim, log out | routes | late answers, lost connections, answers that race a stream | no foreign entries; no gap after a reconnect; out when the session is over |
| Bot routes (`web/routes/bots.ts`) | -- | HTTP to manager calls | manager | a bounded wait on a sign-in | -- |
| Not modelled on purpose | | | | | server plumbing, snapshot projection, one-shot commands, text utilities, the bots page: no control state of their own |

Interactions: the web routes call the manager; the manager's CRUD queue calls
a handle (sign-ins bypass that queue); a handle queues its own operations and
creates bots; a bot's listeners write the handle's fields and abort the task
slot; chat on a bot starts commands, which take the slot and the lock and
drive the bot's pathfinder.  Slot, lock and services belong to one
`runInstance` and survive its reconnects; a new connect() makes new ones.

`PROJECT.json` lists every hazard with its line and the properties that watch
it, or why none does.

## 2. Modules

    InstanceLifecycle   InstanceQueue     what a handle promises
            \             /
             BotInstance                  one handle: queue, sockets, timers, sign-ins
    Registry -- BotManager                handles behind the CRUD queue, config file
    Steering                              task slot, lock, chat commands
    Storage  =  ChatServices + LogStore (-- Journal)
    Web      =  EnvFile + WebLogin + Dashboard + LogViewer

`BotManager` is checked over handles that behave as `InstanceQueue`, which
`BotInstance` implements: together they are the composition of manager and
handles, without multiplying their states.

`Storage` and `Web` put side by side what shares no state.  A behaviour of the
composition follows one component (`moving`), the others stay as they began:
since no step of one reads or writes what another one keeps, an interleaving
of two shows neither anything new.  Where components do meet, the meeting is
inside a module: the streams of the server and the pages that read them are
one module each, and so are the services and the commands that change them.

The safety properties come with proofs in `BotInstanceProofs`,
`BotManagerProofs`, `BotManagerHandles`, `SteeringProofs`, `EnvFileProofs`,
`ChatServicesProofs`, `StorageProofs` and `WebProofs`.

## 3. What is modelled

### BotInstance (core/bot.ts)

| Variables | Code |
|---|---|
| `config` | host configured?, auth === 'microsoft'? -- chosen once, in `Init` |
| `status` ... `deviceCode` | the fields of `BotInstance`; `authStatus = "none"` is `undefined` |
| `reconnectAttempts` | the counter in runInstance's closure, saturated at `MaxAttempts` |
| `queue`, `pc`, `opBot`, `opAttempt` | the promise chain `operation`: what waits, what the running operation awaits (`loading`: the two stores; `closing`: 'end' or the timeout; `polling`: the device-code flow) and what its closure holds |
| `open`, `ending`, `joined`, `fatal` | the sockets not ended yet, those told to end, those logged in, those whose error listener recorded a fatal error |
| `busy` | bots whose run has an active task |

One action is one turn: calls (`Connect`, `Disconnect`, `Authenticate`,
`CancelAuthentication`), turns of the queued operations (`DoConnect`,
`InstanceStarted`, `DisconnectTimesOut`, `PollSettles`, ...), listeners
(`Login`, `FatalError`, `EndRequested`, `EndFatal`, `EndDropped`,
`EndAbandoned`) and the timer (`RetryFires`, `RetryThrows`).  A call that is
rejected synchronously changes nothing and is not an action; one that is
rejected when its turn comes is (`DoConnectRejects`, `DoDisconnectRejects`).
Names of bots and sign-in attempts are reused once nothing refers to them, so
a small set stands for a run of any length.

Two switches bound what the environment may do.  `LateLogin`: a socket that
disconnect() abandoned may still log in.  `RetryMayThrow`: createBot may throw
inside the reconnect timer.

The module is one handle: its task slot is reduced to "has a task or not"; the
death listener is one of the ways a task ends (`TaskOver`).  Left out:
lastError and authError texts, profile names, logging.

### InstanceLifecycle

The contract of a handle, without queue, sockets or sign-in: a status and what
the instance does about its connection (`none`, `live`, `retry`).
`BotInstance` implements it under `link <- Activity`.

### InstanceQueue

The contract of a handle that the manager relies on: is it active, which
operation of its promise chain runs, and which wait (`connect`, `disconnect`,
`sign_in`, or `stale`, a sign-in that was cancelled but keeps its place).
`BotInstance` implements it (`ImplementsQueue`, in the run `fair`; its safety
part is the theorem `QueueImplements`): sockets,
timers and attempts are gone, and what is left is that calls take effect in
their order, that a connect is refused at once while a sign-in is under way
but not behind a cancelled one, and that every operation settles.

### BotManager (core/bot-manager.ts) and Registry

| Variables | Code |
|---|---|
| `up` | has this process run startAll()? |
| `file` | what bots.config.json holds, per id |
| `instances` | the manager's map from ids to handles |
| `inst` | the handles: the id and config they were made with, and their chain as in `InstanceQueue`; each operation remembers the call that awaits it |
| `crudQueue`, `call` | the promise chain of the manager, and the closures of the calls on it |

A call is queued by `Request`; once it has its `Turn` it goes from one await
to the next: `CallRefused`, `CallDisconnect`, `CallConnect`, `CallSaves`,
`CallReturns`.  A save is two turns: `Renamed` (what was read before the save
replaces the file, atomically) and, when the promise resolves, `Swap` or
`Drop`, which change the map; or it is `SaveFails`.  `OperationBegins`,
`OperationEnds` and `ConnectionLost` are the handles at work; the property
`HandlesBehave` says that they, and every use the manager makes of a handle,
are steps of `InstanceQueue`.  `Authenticate` and `CancelAuthentication` reach
the handle without the queue.  `Crash` ends the process between any two turns:
only `file` is left, and `StartAll` begins again from it.

`Settled` lets the promise continuations that are due run before the next
request, timer or I/O result, as the event loop does; without it the model
would interleave turns that Node runs back to back.  Handle and call names are
reused once nothing refers to them; a handle that left the map while a sign-in
of it is polling keeps its name until the poll settles.

`Registry` is the promise about the file alone: a map from ids to configs that
changes one entry at a time and in which an add never overwrites an entry.

Left out: log stores (removeInstance also awaits the closing of one, after the
map has changed; the model returns at once), the order of entries in the file,
what an id or a config looks like, and calls rejected before they change
anything outside the queue (an edit that changes the id, a sign-in of an
unknown id).

### Steering

Variables: `active` (the task slot), `lock`, `activeNav` (navigation's own
record), `goal` (whose goal the pathfinder has) and, per execution of a
command (`Run`), its `kind`, what it awaits (`pc`), its loop count, whether
its signal fired (`aborted`) and whether its bot is still the connected one
(`live`).  Starting a command, `getActive` to `setGoal`, is one turn.
`EndTask` is `TaskManager.end` with the module's `onEnd`; `TaskStopped`
stands for !cancel, !stop, !unfollow and the task timeout, `Death` and
`Disconnect` for the two aborts of bot.ts.  After it the run goes on by itself
until what it awaits settles: that is where the difficult behaviours are.
`Settled` says that promise continuations run before the next timer, packet or
chat message.  A slot is never found taken between `getActive` and
`tasks.start` (same turn), so that branch is not an action.

The pathfinder (mineflayer-pathfinder) is a library: modelled from its use, a
goal that is set, reached (one event to every listener), given up or stopped.
`stop()` is taken to clear the goal at once.  Building a `Movements` and
setGoal are taken not to throw: the catch blocks of !come, !goto and !follow
(modules/navigation/index.ts:261, 345, 428) release nothing while `activeNav`
is not set yet, so the slot would stay taken until its timeout and the lock
for good.  Who may cancel, item counts,
blocks and positions are left out; each outcome they decide is a choice.
Blocks that vanish between search and visit are skipped in the same turn and
do not count as visits in the model.

### EnvFile (config/envFile.ts, web/setup/ensureWebPassword.ts)

Processes that start together and find no WEB_PASSWORD.  `lock` and `recovery`
are the two files (who made it, whether its JSON is in it, whether it is past
`STALE_LOCK_MS`), `env` is the password in the env file, `at` the next system
call of a process, `late` whether its five seconds are over, `failing` whether
it only cleans up before it rejects, `password` what it resolved to.  One
action is one system call; each may fail (`SignFails`, `StepFails`), and a
process may die between any two (`Crash`).  Temporary files have random names
and are not modelled.  The pid of a dead process is not used again: a lock
whose pid some unrelated process has taken would be waited for until the
timeout, and never be recovered.

### ChatServices (core/permission-service.ts, cooldown-service.ts, home-service.ts, commands.ts)

`roles` and `homes` are the services' maps, `files` the two JSON files,
`saves` the writes that have begun; `playerExpiry`, `globalExpiry` and `now`
are the cooldowns.  A chat message that is obeyed is one action: gates,
change, and the beginning of the save.  persist() copies the two player sets
and passes the group objects themselves, and the JSON is made only after
mkdir: a save holds its groups (`shared`) until `MakeText`, and a change of
such a group rides in it (`Carried`).  A group that is created, deleted or
renamed is another object, and no earlier save holds it; that a renamed group
and its old object share lists until one of them is filtered is left out.
`Renamed` and `SaveFails` settle a save.  `Connect` builds new services from
the files while old saves go on, `Restart` drops them.  The `granted`, `used`
and `unsaved` histories serve the properties.  `RemoveFromBlacklist` checks
the actor's rank and not the target's, as permission-service.ts:231-243 does;
docs/permissions.md:55 says that every mutation with a target player refuses
an operator who acts on an operator.  The model follows the code.

### LogStore and Journal (core/log-store.ts)

`plain` and `gz` are the files per day, `job` the work at the head of the
store's promise chain and how far it has come, `fired` the day the rotation
timer saw, `reader` a client that pages back by cursor.  A job is a start, an
append or a rotation: it compresses the days that are over, enters its day and
writes.  Compressing is `MakeArchive` (compressed under a temporary name and
renamed) and `RemovePlain`; when both files exist, `RemoveCopy` or `KeepBoth`
by comparison.  `JobFails`, `CompareFails` and `Crash` may come anywhere,
`ClockSetBack` takes the day back.  `Journal` is the promise: one list per day
to which entries are only added.  A store whose ready() rejects inside a
failing POST /api/bots (routes/bots.ts:84) is not closed and keeps its timer;
it and the store a second POST of the same id opens on the same directory are
outside the model, which has one store per directory.  appendFile is one step:
it writes the line or fails.  A crash or a full disk in the middle of it would
leave a partial line with no newline; the next entry is then glued to it, and
readers skip both.  `JournalIsKept` does not speak of that.

### WebLogin (web/routes/auth.ts, auth/loginRateLimiter.ts, auth/session.ts)

`attempts` are the limiter's records, `expiresAt` the sessions, `request` the
logins that wait for their body.  `Check` is the first look at the limiter;
from the second look (`StillAllowed`) to the verdict is one turn:
`LockedMeanwhile`, `WrongPassword`, `RightPassword`.

### Dashboard (web/routes/dashboard.ts, requireAuth.ts, the dashboard page)

The server's side (`stream`, `pending`), the connection (`wire`) and the page
(`page`, `source`, `asked`, `shown`).  A snapshot is the number of the state it
was taken of.  A lost connection is noticed at once by both sides.  A stream
request gets one of three answers: a stream (`Open`), 401 since there is no
session (`Reject`), or 500 since the snapshot threw before the headers were
sent (`Refuse`).  EventSource connects again after a lost connection but gives
up at any other answer than 200; the page then asks once whether its session
is over (`asked`) and never opens the stream again (app.js:157-163).  After a
`Reject` it is told so and leaves.  After a `Refuse` it stays with its old
state and "Reconnecting…", and does not learn of a session that ends later.
`refused` remembers that this happened, and `CatchesUp` and
`SignedOutEverywhere` both name it as their exception.  The answer to the
question is not lost.

### LogViewer (web/routes/logs.ts, the log page)

The server's side (`logStream`, `queued`), the connection (`logWire`), the
page (`instance`, `generation`, `records`, `nextBefore`, `logSource`,
`requests`).  An entry is its instance and number; a page of history is a
range.  The order of records is that of their timestamps in the code; here it
is the order in which they were written, so a clock that goes back between two
entries is not seen by the page.  A stream request that is not answered with 200
(`RefuseLog`) ends EventSource for good here too, until another selection.

What the page does not promise, and the model shows when one asks: entries
written between the first answer of the history and the acceptance of the
stream appear only after a reconnect or a reload, since the first `onopen`
reconciles nothing; an entry that arrives on the stream after a page of
history that has it is on the list twice until the next reconnect; a list cut
to `MAX_LIVE_RECORDS` has a gap before its cursor.

## 4. Runs

| Run | Bounds | Asks | Answer |
|---|---|---|---|
| `hostile` | 3 bots, 2 attempts, queue 3, both switches on, symmetry | what holds under the worst environment | one connection at most, quiet at rest, a task on show belongs to the current connection |
| `fair` | 2 bots, 2 attempts, queue 2, both switches off, fairness | contract, sign-in, progress | the handle implements `InstanceLifecycle` and `InstanceQueue`; a sign-in never overlaps a connection and its stale result changes nothing; sign-ins and retries end |
| `late_login` | as `fair`, LateLogin on, no fairness | is 'online' always true? | no (finding) |
| `retry_throws` | as `fair`, RetryMayThrow on, no fairness | is 'reconnecting' always true? | no (finding) |
| `steering` | 2 runs, 2 visits, fairness | do slot, lock, navigation and runs agree; is the slot freed, does every run end? | yes |
| `cancelled_run` | 2 runs, 2 visits | does one run at a time steer? | no (finding) |
| `crud` | 2 ids, 2 configs (connects by itself / has no host), 3 handles, 2 calls, one operation waiting before a sign-in is asked for, symmetry | do file, map and handles agree under overlapping calls, sign-ins, failed saves and crashes? | yes; the file is a `Registry`, the handles are used as `InstanceQueue` allows |
| `crud_progress` | as `crud`, 1 id, 2 handles, fairness | does every queued call return? | yes |
| `sign_in_waits` | as `crud`, one config | does a call on one instance ever wait out the sign-in of another? | yes (finding) |
| `edited_sign_in` | as `crud`, one config | can an id sign in and be connected at once? | yes (finding) |
| `storage` | chat: an admin and 2 players, 2 groups, 4 commands, 3 obeyed messages, clock to 3, symmetry; log: 2 days, 4 entries, 2 faults, 1 step back, pages of 1 | who may gain a rank; when do memory and file differ; are cooldowns kept; is the directory a `Journal`, a closed day read once, paging stable? | yes, and as the properties say |
| `web` | 3 processes; 3 browsers at one address, 2 attempts, lockout 2, clock to 4; 2 changes, 2 losses, 2 events on the wire; 2 instances, 2 entries each, pages of 1, list of 3, queue of 1, 2 selections, 1 loss; fairness | is there one password; are guesses bounded; do pages catch up, stay with their instance, and leave? | yes |

**Why the bounds are enough.**  Three bots give an abandoned socket, a second
abandoned or ending one and the current one together; two attempts give a
superseded poll next to a newer one; a queue of three holds one operation of
each kind behind a running one.  `MaxAttempts` only saturates a counter that
the delay reads.  Two visits give a first, a further and a refused iteration;
two runs give a cancelled run and the one that replaced it.  Two calls give
one at work and one behind it; two ids one that is edited and one that must
not change; the third handle is an old one whose sign-in is still polling
while both ids have theirs.  `MaxWaiting` keeps sign-ins that are asked for
and cancelled again from filling a chain.  Nothing in these modules counts
bots, runs, calls or handles, and every safety property of the passing runs is
proved for any number of them (section 5).

In `storage` three messages are a change, a second one whose save overlaps it
and a third that uses what they left, with a restart before any of them; two
players without rank give one who gains it and one who does not.  Two days are
a closed one and the active one, which the clock may set back; two faults give
a crash while what another one left is repaired; four entries give a page
boundary in each day.  Players without rank are symmetric, and so are groups.
In `web` three processes give a dead owner, an elected one and one that comes
late; three logins under way pass a limit of two; a list of three with two
entries an instance is cut once; a wire of two keeps a snapshot back behind
another.  `LogViewer` was also explored alone with three entries, pages of
two, a list of four and two losses (14 million states) without a violation;
the run keeps the smaller bounds for its time.

**Deadlock** is checked in every run but `storage` and `web`: their messages,
entries, losses and sessions are bounded, processes end, and a page that has
left for the login form is done.  That a process or a page does not merely
stop is what `EnsureReturns`, `SignedOutEverywhere` and `CatchesUp` say.

**Fairness.**  In `BotInstance`: operations of the queue, the retry timer,
sockets that were told to end, and tasks.  Node resolves the file reads, the
timers (`DISCONNECT_TIMEOUT_MS`, the reconnect delay, the task timeout) fire,
and a device code expires.  No caller, no server and no player is assumed to
do anything: not to log a bot in, not to drop it, not to reply.  In
`Steering`: the task timeout and the settling of whatever a run awaits;
strong, because a timer that is due is disabled for the turn in which promise
continuations run, again and again, and still fires.  In `BotManager`, for the
same reason: weak for continuations and startAll, strong for file operations
and for the operations of a handle, which settle by what `fair` shows of
`BotInstance` (`ImplementsQueue` includes the fairness of `InstanceQueue`).
In `EnvFile`: a live process runs on, and time passes for a lock that was left
unsigned; `EnsureReturns` names the one case in which a waiter is not saved, a
recovery file whose maker died.  In `Dashboard`: the intervals tick, a socket
that is read drains, a stream request is answered in one way or another,
EventSource reconnects; no session is assumed to end, no connection to be lost
and no request to be refused, and only finitely many connections are lost.

### Findings

* `late_login`: the login listener (bot.ts:417) lacks the staleness test of the
  'end' listener.  A socket that logs in after disconnect() gave up on it
  turns the handle 'online'; its end is ignored as abandoned, and 'online'
  stays with nothing connected until disconnect() is called.
* `retry_throws`: a failure of connect() inside the timer is only logged; the
  handle stays 'reconnecting' for good.
* `cancelled_run`: a loop command that was cancelled while it waits on a tool
  or in its pause goes on to set a goal and walk, over the next command.
* `sign_in_waits`: sign-ins bypass the CRUD queue so that nobody waits for
  them, but disconnectInstance on an instance that is signing in brings the
  wait back: it holds the CRUD queue until the poll settles.  (The header of
  bot-manager.ts, lines 14-17, still describes connects and disconnects as not
  queued at all.)
* `edited_sign_in`: while updateInstance saves, the old handle is at rest and
  accepts a sign-in; it is then replaced, the sign-in goes on, and the new
  handle connects with the same account cache.

Known limits that are not findings: after cancelAuthentication() the abandoned
poll keeps the handle's queue, and the connect() that is accepted again waits
behind it (`ImplementsQueue` has it as `stale`); the late timer of a log store
(log-store.ts:413) may lead the store back to the day before, which
`ClosedDaysReadOnce` counts as a mishap; a dashboard page whose stream request
was answered 500 stays as it is until it is reloaded.

## 5. Proofs

For every set of bots, attempts or runs and every bound.

**BotInstanceProofs** assumes the constant assumptions of `BotInstance` alone
(distinct "no" values, positive bounds).  `TypeCorrect` is proved first.
`SingleConnection`, `InactiveIsQuiet`, `RetryIsExclusive` and
`RecordsAreOpen` are not inductive one by one: that a start makes the only
connection needs that no other bot is current while the stores are read, and
that a disconnect's late end does no harm needs that the current bot is among
the ending ones.  `OperationsAgree` says so, and `ConnectionInv`, the
conjunction of the five, is inductive.  `TaskIsLive` adds that a ctx whose
bot is open is current, `CodeIsCurrent` that the code on show is the running
poll's.  `StaleResultsAreDropped` is an action property and needs no
invariant.  `SignInExcludesConnect` assumes `~LateLogin`.

The same module has the two refinements.  `HandleImplements` assumes
`~LateLogin` and `~RetryMayThrow`; the two violation runs show that neither can
be dropped.  `HandleInv` adds to the status properties what a status says
while a connection opens or closes.  With it every action of `BotInstance` is
mapped to an action of `InstanceLifecycle` or to a stutter.  `QueueImplements`
assumes `~LateLogin` alone and maps every action to one of `InstanceQueue`:
that a cancelled sign-in turns into one `stale` place, wherever it waits, rests
on `SignInHasOneTurn`, that the sign-in under way has one place on the chain.
With `HandlesImplementQueue` below, manager and handles fit together: the
manager only uses what a handle promises, and a handle keeps that promise.

**SteeringProofs**: `SteeringInv` is the four properties of the safety run and
`RunsAgree`, which ties what a run awaits to its command, to navigation's
record and to the lock.  Five lemmas carry it: a command starts
(`StartsAgree`), navigation is over (`NavigationOver`), a task is ended
(`TaskEnded`), a run goes on (`RunContinues`), a run is over (`RunOver`);
each action is one of them.

**BotManagerProofs** assumes only that the "no" values are not ids, configs,
handles or calls.  `FileIsMemory` is not inductive: that the file and the
handles still agree when a save is swapped in needs to know that what is being
saved differs from the live configs in one entry, that the call holding it is
the only one past its beginning, and that no handle serves two ids.  `CrudInv`
says so in four parts: `QueueInv` (the queue holds the calls that are not
settled, each once, and only its head has begun), `ClosureInv` (what a closure
remembers is still true), `MapInv` and `FileInv`.  One lemma stands for each
way a call goes on: it waits (`WaitKeepsCrud`), returns (`FinishKeepsCrud`),
saves, or swaps (`SwapMeetsFile`); all else changes answers only
(`AnswerKeepsCrud`).  From the same invariant follow `RegistryImplemented`
(only `Renamed` changes the file, and by one entry) and `RollbackKept`.

**BotManagerHandles** extends it with the same assumptions.  That a removed
handle is at rest is not inductive: it must be known why nothing on its chain
can connect it.  `HandleInv` says who waits for each operation.  An operation
with a caller is the one that caller awaits, without an answer yet
(`Awaited`), and a caller has one at most (`Once`); a connect without a caller
is a boot connect, alone on its chain before the first call (`Boots`).  With
`QueueInv`, that only the head of the CRUD queue has begun, a chain whose
caller has stopped the handle holds no connect; so `StoppedIsAtRest`, and when
the map changes, `UntrackedIsAtRest`.  `CallSends` (a call puts an operation on
a chain), `SettlesKeeps` (an operation ends, with or without its answer) and
`EntryChanges` (the map changes) carry every step.  `HandlesImplementQueue`
maps each step, handle by handle, to a step or a stutter of `InstanceQueue`.

**EnvFileProofs** assumes that a missing file is no file and no password no
process.  `OnePassword` rests on the exclusion of writers, and that on
`EnvInv`: whoever is past the exclusive open owns the lock
(`HoldersOwnTheLock`); one process at most is past the open of the recovery
file (`ElectedMadeRecovery`); a lock grows old only when its owner is gone
(`OldIsAbandoned`); and what the elected process found stale is still stale
when it removes it by path (`RemovedIsStale`), since only its owner or another
elected process could have changed it.  `Moving` carries every step that moves
one process only, `Letting` every release.

**ChatServicesProofs** assumes `AccessAssumption`: commands have levels and
cooldowns, and the file a process starts with names no admin.
`AccessIsHarmless` says of every branch of !access that the record it leaves
names no operator beyond those admins made and blacklists no admin; so
`RanksAreGranted`, for memory, file and every save on its way.  A save in which
a later change rides differs in its groups only (`CarriedIsSave`).
`SavesAgree`, that a store not remembered as unsaved has at most one save on
its way and that one carries what it holds, is inductive and gives
`QuietIsSaved`.  `TimersCount`, that an entry the sweep has forgotten has run
out, gives `UsesKeepApart`.

**StorageProofs** assumes the constant assumptions of `LogStore` (days are
naturals, pages have entries).  It has three layers.  `BaseInv` types files,
job and reader (`StoreTyping`).  `JournalInv`, that no entry is in the journal
twice, and `CleanInv`, that without a fault a day has an archive beside its
plain file only between the rename and the unlink, give `JournalIsKept`: each
step adds to one day of `Journal` at most, and a compression, a crash or a
repair changes nothing of it.  `ReaderInv` says of a reader that what it has
not seen is older than its cursor and, without a fault, what it has seen is
not; an append adds behind every cursor, and a rotation moves no line, so
`PagesStayStable`.  For `ClosedDaysAreReadOnce` the clock comes in:
`ForwardInv` (store and jobs follow a clock that does not go back), `TidyInv`
(without a mishap every plain file of a past day is on the list of the job at
work) and `LeftoverInv` (after one fault the copy left behind is on the list of
the next start or rotation before the store enters another day).  That a page
has the newest positions before its cursor (`PageIsNewest`) and that a set of
days or positions has a first one (`EarliestIsFirst`, `OldestIsFirst`) rests on
least elements of the naturals (`LeastNatural`), in the place of an induction.

**WebProofs** assumes `WebLoginAssumption`, `DashboardAssumption` and
`LogViewerAssumption` (positive limits; names differ).

*Limiter.*  It keeps a count and two times, the property speaks of all guesses:
`Tracks` says that guesses are in order, that all but the newest `failures` of
them are a lockout period old, and that a lock runs from the newest.
`CurrentTracks` shows that dropping an outdated record keeps that,
`GuessTracks` that a guess does.

*Dashboard.*  `DashboardTyping` needs `RoomForNotice`: as long as the stream is
open, the wire has room for the notice that ends it.

*Log page.*  `Known` is what is on the list, on the wire or queued.
`ViewerInv` says that it is all of the selected instance, that a request made
for this choice is about it, and that a closed stream holds nothing; so
`NothingForeign`.  `NothingIsMissing` says of each request for the newest
entries that this connection made: once the server has read its page, every
entry after that page is known, since the stream was subscribed before; when
the page is merged, so is every entry from its beginning.  It is the inductive
form of `ReconnectLeavesNoGap`, about a moment when nothing is under way.  A
lost connection or another choice leaves no request of this connection.
Merging and sorting are written by places: the entry at place `n` is the one
with `n` entries up to it.  `EveryPlaceIsTaken` shows for any such order that
each place is taken once; `PickedElements`, `SortedElements`, `MergedElements`,
`MergedLength` and `TrimmedElements` follow.

**Compositions.**  `PartsBehave` and `WebPartsBehave` show that a behaviour of
`Storage` or `Web` is one of each of its parts, so the theorems about the
parts hold of what the runs check; `StorageTyping` and `WebTyping` are the
typing of the whole.

**Only model-checked:** what rests on fairness.  `SignInSettles`,
`DropIsRetried`, `SlotIsFreed`, `EveryRunEnds`, `CallsReturn`,
`EnsureReturns`, `SignedOutEverywhere` and `CatchesUp` are liveness, and
`ImplementsLifecycle` and `ImplementsQueue` include the fairness of the
abstract specification beside the safety part that is proved: temporal proofs
with fairness and ENABLED are beyond the installed provers.

## 6. Not modelled

* Bot routes: each request is one call of the manager, which `BotManager`
  takes in any order; telling an early rejection of a sign-in from a pending
  one is a race of two promises without state.
* Server plumbing, snapshot, one-shot chat commands, text utilities: nothing
  outlives a call.
* Of the log store: the disk-space check, the validation of lines read back,
  redaction.  Of the pages: rendering, filters, the bots page, the login form,
  the heartbeats of the log stream.  Of the chat: parsing and validating
  parameters; !home, which walks like the commands of `Steering`.
* Two atomic writes of one file in the same millisecond, which would share a
  temporary name (json-file-store.ts:22); a pid that is used again.

## 7. Running

In this directory, with TLC and TLAPS:

    tlc -config MCBotInstance_fair.cfg MCBotInstance
    tlapm SteeringProofs.tla

`PROJECT.json` names, for every definition, the lines it models, and for every
property a fault ("Faulty variant" in the modules) that breaks it.
